----------------------- MODULE PredicateHandlerProofs -----------------------
(***************************************************************************)
(* Proofs about PredicateHandler: the types, that the workers' filters are *)
(* complete, that a planned pod fits its node and is apart, and that every *)
(* step is a step of PodSetPlanner or leaves its variables alone.          *)
(*                                                                         *)
(* What the workers still have to do is counted in pieces: piece i is the  *)
(* node eligibleNodes[i + 1].  The chunks are taken from the channel in    *)
(* order, so the pieces before the next chunk are taken, and those of them *)
(* that are not ahead of a worker are done.                                *)
(***************************************************************************)
EXTENDS PredicateHandler, PodPredicatesProofs

ChunkCount == (pieces + chunkSize - 1) \div chunkSize

\* The chunks that were taken, and the first piece of the next.
taken == ChunkCount - Len(toProcess)
nextStart == taken * chunkSize

\* The pieces that worker w has still to do.
Ahead(w) == worker[w].next .. worker[w].end - 1

\* Piece i is behind the workers.
Behind(i) == i < nextStart /\ \A w \in Workers : i \notin Ahead(w)

WorkerSteps == {"take", "check", "lock", "append", "done"}

PodRecords == {[t EXCEPT !.name = p] : t \in Templates, p \in Pods}

WorkerRecord == [step : WorkerSteps, next : Nat, end : Nat]

\* The variables have types that the provers can use.
Types ==
  /\ pod \in [Pods -> PodRecords]
  /\ hostIP \in [Pods -> MaybeNode]
  /\ scheduledPod \in Pods \cup {NoPod}
  /\ offered \in SUBSET Nodes
  /\ eligibleNodes \in Seq(Nodes)
  /\ podToNodeMap \in [Pods -> MaybeNode]
  /\ assignmentMap \in [Pods -> MaybeNode]
  /\ todo \in Seq(Pods)
  /\ step \in {"plan", "filter", "score", "done"}
  /\ expired \in {"none", "call", "request"}
  /\ missed \in BOOLEAN
  /\ toProcess \in Seq(Nat)
  /\ worker \in [Workers -> WorkerRecord]
  /\ updateLock \in Workers \cup {Free}
  /\ slice \in [Workers -> Seq(Nodes)]
  /\ filteredNodes \in Seq(Nodes)

\* No node is listed twice, and a pod is given the name it is known by.
InputsOK ==
  /\ IsInjective(eligibleNodes)
  /\ \A p \in Pods : pod[p].name = p /\ IsPod(pod[p])

\* A worker at a piece has pieces ahead, and the others have none.
RangesOK ==
  \A w \in Workers :
    /\ worker[w].end <= pieces
    /\ IF worker[w].step \in {"check", "lock", "append"}
         THEN worker[w].next < worker[w].end
         ELSE worker[w].next = worker[w].end

\* The workers run during the filters only, and then there is a pod they run for.
StepsOK ==
  /\ step \in {"filter", "score"} => todo # <<>>
  /\ step = "filter" => current # scheduledPod
  /\ step # "filter" => toProcess = <<>> /\ \A w \in Workers : worker[w].step = "done"

\* The worker that appends holds the lock, and the slice it read is the current one.
LockOK ==
  \A w \in Workers :
    /\ worker[w].step = "append" <=> updateLock = w
    /\ worker[w].step = "append" => slice[w] = filteredNodes

\* The channel holds the chunks that were not taken, in order.
QueueOK ==
  step = "filter" =>
    /\ Len(toProcess) <= ChunkCount
    /\ \A i \in 1 .. Len(toProcess) : toProcess[i] = taken + i - 1

\* No piece is ahead of two workers, and none that is ahead is in the channel.
PiecesOK ==
  step = "filter" =>
    /\ \A w \in Workers : worker[w].end <= nextStart
    /\ \A v, w \in Workers : v # w => Ahead(v) \cap Ahead(w) = {}

\* What was appended passes, and so does what is about to be.
PassedOK ==
  /\ step = "filter" \/ (step = "score" /\ current # scheduledPod) =>
       \A j \in 1 .. Len(filteredNodes) : Passes(filteredNodes[j])
  /\ \A w \in Workers : worker[w].step \in {"lock", "append"} => Passes(PieceNode(w))

\* Every node that was appended is a piece behind the workers, and is there once.
AppendedOK ==
  step = "filter" =>
    /\ IsInjective(filteredNodes)
    /\ \A j \in 1 .. Len(filteredNodes) :
         \E i \in 0 .. pieces - 1 : Behind(i) /\ filteredNodes[j] = eligibleNodes[i + 1]

\* Unless something failed, the pieces behind the workers that pass were appended.
BehindOK ==
  step = "filter" /\ expired = "none" /\ ~missed =>
    \A i \in 0 .. pieces - 1 :
      Behind(i) /\ Passes(eligibleNodes[i + 1]) =>
        \E j \in 1 .. Len(filteredNodes) : filteredNodes[j] = eligibleNodes[i + 1]

\* Unless the deadline passed, a chunk in the channel has a worker that will look.
AwakeOK ==
  step = "filter" /\ expired = "none" /\ toProcess # <<>> =>
    \E w \in Workers : worker[w].step # "done"

IndInv ==
  /\ Types /\ InputsOK /\ RangesOK /\ StepsOK /\ LockOK /\ QueueOK
  /\ PiecesOK /\ PassedOK /\ AppendedOK /\ BehindOK /\ AwakeOK

-----------------------------------------------------------------------------
\* SetToSeq lists the members of a finite set.
LEMMA SetToSeqType ==
  ASSUME NEW S, IsFiniteSet(S)
  PROVE  SetToSeq(S) \in Seq(S)
<1>1. Cardinality(S) \in Nat /\ ExistsBijection(1 .. Cardinality(S), S)
  BY FS_CardinalityType
<1>2. PICK f \in [1 .. Cardinality(S) -> S] : IsInjective(f)
  BY <1>1 DEF ExistsBijection, Bijection, Injection, IsInjective
<1>3. SetToSeq(S) \in [1 .. Cardinality(S) -> S]
  BY <1>2 DEF SetToSeq
<1> QED BY <1>1, <1>3

-----------------------------------------------------------------------------
(* The sizes, and what a worker's step leaves alone.                       *)

\* The channel's chunks as numbers.
LEMMA Sizes ==
  ASSUME Types
  PROVE  /\ pieces \in Nat /\ chunkSize \in Nat \ {0} /\ ChunkCount \in Nat
         /\ ChunkCount * chunkSize >= pieces
         /\ \A k \in 0 .. ChunkCount - 1 : k * chunkSize < pieces
         /\ Chunks = 0 .. ChunkCount - 1 /\ Cardinality(Chunks) = ChunkCount
         /\ parallelism \in Nat \ {0}
<1>1. pieces \in Nat
  BY DEF Types, pieces
<1>2. parallelism \in Nat \ {0}
  BY HandlerAssumption, FS_CardinalityType, FS_EmptySet DEF parallelism
<1>3. chunkSize \in Nat \ {0}
  BY <1>1, <1>2, ChunkSizePositive DEF chunkSize
<1>4. /\ ChunkCount \in Nat
      /\ ChunkCount * chunkSize >= pieces
      /\ \A k \in 0 .. ChunkCount - 1 : k * chunkSize < pieces
  BY <1>1, <1>3, ChunksCover DEF ChunkCount
<1>5. Chunks = 0 .. ChunkCount - 1
  BY DEF Chunks, ChunkCount
<1>6. Cardinality(0 .. ChunkCount - 1) = ChunkCount
  BY <1>4, FS_Interval
<1> QED BY <1>1, <1>2, <1>3, <1>4, <1>5, <1>6

\* The nodes stay, and so do the chunks.
LEMMA SizesStay ==
  ASSUME eligibleNodes' = eligibleNodes
  PROVE  pieces' = pieces /\ chunkSize' = chunkSize /\ ChunkCount' = ChunkCount
<1>1. pieces' = pieces
  BY DEF pieces
<1>2. chunkSize' = chunkSize
  BY <1>1 DEF chunkSize, parallelism
<1> QED BY <1>1, <1>2 DEF ChunkCount

\* Whether a node passes depends on the pods, their hosts and what is planned.
LEMMA PassesStays ==
  ASSUME pod' = pod, hostIP' = hostIP, eligibleNodes' = eligibleNodes, todo' = todo,
         podToNodeMap' = podToNodeMap
  PROVE  current' = current /\ \A n : Passes(n)' <=> Passes(n)
<1>1. \A p : GetNodeName(p)' = GetNodeName(p)
  BY DEF GetNodeName
<1>2. \A n : PodSetPods(n)' = PodSetPods(n)
  BY <1>1 DEF PodSetPods
<1> QED BY <1>2 DEF current, Passes

\* A worker that is not done is at work for the filters.
LEMMA WorkerFilters ==
  ASSUME IndInv, NEW w \in Workers, worker[w].step # "done"
  PROVE  step = "filter"
BY DEF IndInv, StepsOK

\* What every step of a worker leaves alone.
LEMMA WorkedStays ==
  ASSUME UNCHANGED worked
  PROVE  /\ pod' = pod /\ hostIP' = hostIP
         /\ scheduledPod' = scheduledPod /\ offered' = offered
         /\ eligibleNodes' = eligibleNodes /\ podToNodeMap' = podToNodeMap
         /\ assignmentMap' = assignmentMap /\ todo' = todo /\ step' = step /\ expired' = expired
         /\ pieces' = pieces /\ chunkSize' = chunkSize /\ ChunkCount' = ChunkCount
         /\ current' = current
         /\ \A n : Passes(n)' <=> Passes(n)
         /\ InputsOK => InputsOK'
<1>1. /\ pod' = pod /\ hostIP' = hostIP
      /\ scheduledPod' = scheduledPod /\ offered' = offered
      /\ eligibleNodes' = eligibleNodes /\ podToNodeMap' = podToNodeMap
      /\ assignmentMap' = assignmentMap /\ todo' = todo /\ step' = step /\ expired' = expired
  BY DEF worked, inputs, plans
<1>2. InputsOK => InputsOK'
  BY <1>1 DEF InputsOK
<1> QED BY <1>1, <1>2, SizesStay, PassesStays

\* A record of a worker whose range is what its step asks for.
InRange(r) ==
  /\ r.end <= pieces
  /\ IF r.step \in {"check", "lock", "append"} THEN r.next < r.end ELSE r.next = r.end

\* The two parts of NextPiece's record, changed one after the other.
LEMMA RecordUpdate ==
  ASSUME NEW r \in WorkerRecord, NEW s, NEW i
  PROVE  /\ [r EXCEPT !.step = s] = [step |-> s, next |-> r.next, end |-> r.end]
         /\ [r EXCEPT !.next = i, !.step = s] = [step |-> s, next |-> i, end |-> r.end]
<1>1. PICK a \in WorkerSteps, n \in Nat, e \in Nat : r = [step |-> a, next |-> n, end |-> e]
  BY DEF WorkerRecord
<1>2. [r EXCEPT !.step = s] = [step |-> s, next |-> r.next, end |-> r.end]
  BY <1>1
<1>3. [r EXCEPT !.next = i] = [step |-> r.step, next |-> i, end |-> r.end]
  BY <1>1
<1>4. [r EXCEPT !.next = i, !.step = s] = [[r EXCEPT !.next = i] EXCEPT !.step = s]
  BY <1>1
<1>5. [[step |-> r.step, next |-> i, end |-> r.end] EXCEPT !.step = s]
        = [step |-> s, next |-> i, end |-> r.end]
  OBVIOUS
<1> QED BY <1>2, <1>3, <1>4, <1>5

\* NextPiece moves the worker on by one piece, to a range that fits its step.
LEMMA NextPieceEffect ==
  ASSUME Types, RangesOK, NEW w \in Workers, worker[w].step \in {"check", "lock", "append"},
         NEW r, r = [step |-> IF worker[w].next + 1 < worker[w].end THEN "check" ELSE "take",
                     next |-> worker[w].next + 1, end |-> worker[w].end]
  PROVE  /\ NextPiece(w) = [worker EXCEPT ![w] = r]
         /\ r \in WorkerRecord /\ InRange(r)
<1>1. worker[w] \in WorkerRecord /\ worker[w].next < worker[w].end /\ worker[w].end <= pieces
  BY DEF Types, RangesOK, WorkerRecord
<1>2. NextPiece(w) = [worker EXCEPT ![w] = r]
  <2> DEFINE s == IF worker[w].next + 1 < worker[w].end THEN "check" ELSE "take"
  <2>1. NextPiece(w) = [worker EXCEPT ![w] = [worker[w] EXCEPT !.next = worker[w].next + 1, !.step = s]]
    BY DEF NextPiece, Types
  <2>2. [worker[w] EXCEPT !.next = worker[w].next + 1, !.step = s] = r
    BY <1>1, RecordUpdate
  <2> QED BY <2>1, <2>2
<1>3. r \in WorkerRecord
  BY <1>1 DEF WorkerRecord, WorkerSteps
<1>4. InRange(r)
  BY <1>1, Sizes DEF InRange, WorkerRecord
<1> QED BY <1>2, <1>3, <1>4

\* The chunks that were taken, and where the next one starts, are numbers.
LEMMA NextStartType ==
  ASSUME IndInv
  PROVE  taken \in Int /\ nextStart \in Int
<1>1. chunkSize \in Int /\ taken \in Int
  BY Sizes, LenProperties DEF taken, IndInv, Types
<1> QED BY <1>1 DEF nextStart

\* A step in which one worker's range shrinks, and no chunk is taken.
LEMMA RangeShrinks ==
  ASSUME IndInv, UNCHANGED worked, toProcess' = toProcess, step = "filter",
         NEW w \in Workers, NEW r \in WorkerRecord, InRange(r),
         r.next .. r.end - 1 \subseteq Ahead(w), r.end <= worker[w].end,
         worker' = [worker EXCEPT ![w] = r]
  PROVE  /\ worker' \in [Workers -> WorkerRecord]
         /\ worker'[w] = r /\ \A v \in Workers \ {w} : worker'[v] = worker[v]
         /\ RangesOK' /\ StepsOK' /\ QueueOK' /\ PiecesOK'
         /\ \A i : Behind(i) => Behind(i)'
         /\ \A i : Behind(i)' => Behind(i) \/ i \in Ahead(w) \ (r.next .. r.end - 1)
<1>1. worker \in [Workers -> WorkerRecord]
  BY DEF IndInv, Types
<1>2. /\ worker' \in [Workers -> WorkerRecord]
      /\ worker'[w] = r /\ \A v \in Workers \ {w} : worker'[v] = worker[v]
  BY <1>1
<1>3. taken' = taken /\ nextStart' = nextStart
  BY WorkedStays DEF taken, nextStart
<1>4. RangesOK'
  BY <1>2, WorkedStays DEF RangesOK, InRange, IndInv
<1>5. StepsOK'
  BY WorkedStays DEF StepsOK, IndInv
<1>6. QueueOK'
  BY <1>3, WorkedStays DEF QueueOK, IndInv
<1>7. Ahead(w)' = r.next .. r.end - 1 /\ \A v \in Workers \ {w} : Ahead(v)' = Ahead(v)
  BY <1>2 DEF Ahead
<1>8. PiecesOK'
  <2>1. ASSUME NEW v \in Workers
        PROVE  worker'[v].end <= nextStart'
    <3>1. worker[v].end <= nextStart /\ worker[w].end <= nextStart
      BY DEF PiecesOK, IndInv
    <3>2. nextStart \in Int /\ worker[v].end \in Int /\ worker[w].end \in Int /\ r.end \in Int
      BY <1>1, NextStartType DEF WorkerRecord
    <3> QED BY <1>2, <1>3, <3>1, <3>2
  <2>2. ASSUME NEW u \in Workers, NEW v \in Workers, u # v
        PROVE  Ahead(u)' \cap Ahead(v)' = {}
    <3>1. Ahead(u)' \subseteq Ahead(u) /\ Ahead(v)' \subseteq Ahead(v)
      BY <1>7
    <3> QED BY <2>2, <3>1 DEF PiecesOK, IndInv
  <2> QED BY <2>1, <2>2 DEF PiecesOK
<1>9. \A i : Behind(i) => Behind(i)'
  BY <1>3, <1>7 DEF Behind
<1>10. \A i : Behind(i)' => Behind(i) \/ i \in Ahead(w) \ (r.next .. r.end - 1)
  BY <1>3, <1>7 DEF Behind
<1> QED BY <1>2, <1>4, <1>5, <1>6, <1>8, <1>9, <1>10

\* A step that appends nothing, and leaves no piece behind that passes.
LEMMA NothingAppended ==
  ASSUME IndInv, UNCHANGED worked, filteredNodes' = filteredNodes, step = "filter",
         missed \in BOOLEAN, missed => missed',
         \A i : Behind(i) => Behind(i)',
         \A i \in 0 .. pieces - 1 :
           Behind(i)' => Behind(i) \/ ~Passes(eligibleNodes[i + 1]) \/ missed' \/ expired # "none"
  PROVE  AppendedOK' /\ BehindOK'
<1>1. AppendedOK'
  BY WorkedStays DEF AppendedOK, IndInv
<1>2. BehindOK'
  BY WorkedStays DEF BehindOK, IndInv
<1> QED BY <1>1, <1>2

\* A node that does not pass leaves the pieces ahead; one that passes stays.
LEMMA CheckPieceInv ==
  ASSUME IndInv, NEW w \in Workers, CheckPiece(w)
  PROVE  IndInv'
<1>1. /\ worker[w].step = "check" /\ UNCHANGED worked /\ missed' = missed /\ toProcess' = toProcess
      /\ updateLock' = updateLock /\ slice' = slice /\ filteredNodes' = filteredNodes
  BY DEF CheckPiece
<1>2. step = "filter"
  BY <1>1, WorkerFilters
<1>3. worker[w] \in WorkerRecord /\ worker[w].next < worker[w].end /\ worker[w].end <= pieces
  BY <1>1 DEF IndInv, Types, RangesOK, WorkerRecord
<1>4. worker \in [Workers -> WorkerRecord] /\ pieces \in Nat
  BY Sizes DEF IndInv, Types
<1>5. PICK r \in WorkerRecord :
        /\ worker' = [worker EXCEPT ![w] = r] /\ InRange(r)
        /\ r.next .. r.end - 1 \subseteq Ahead(w) /\ r.end <= worker[w].end
        /\ \/ expired # "none" /\ r.step = "done"
           \/ r.step = "lock" /\ r.next = worker[w].next /\ r.end = worker[w].end /\ Passes(PieceNode(w))
           \/ /\ r.step \in {"check", "take"} /\ ~Passes(PieceNode(w))
              /\ r.next = worker[w].next + 1 /\ r.end = worker[w].end
  <2>1. CASE expired # "none"
    <3>1. worker' = [worker EXCEPT ![w] = Idle]
      BY <2>1 DEF CheckPiece
    <3>2. Idle \in WorkerRecord /\ InRange(Idle) /\ Idle.next .. Idle.end - 1 = {} /\ Idle.step = "done"
      BY <1>4 DEF Idle, WorkerRecord, WorkerSteps, InRange
    <3>3. Idle.end <= worker[w].end
      BY <1>3 DEF Idle, WorkerRecord
    <3> QED BY <2>1, <3>1, <3>2, <3>3
  <2>2. CASE expired = "none" /\ Passes(PieceNode(w))
    <3> DEFINE r == [step |-> "lock", next |-> worker[w].next, end |-> worker[w].end]
    <3>1. worker' = [worker EXCEPT ![w] = r]
      BY <2>2, <1>3, <1>4, RecordUpdate DEF CheckPiece
    <3>2. r \in WorkerRecord /\ InRange(r) /\ r.next .. r.end - 1 \subseteq Ahead(w) /\ r.end <= worker[w].end
      BY <1>3, <1>4 DEF WorkerRecord, WorkerSteps, InRange, Ahead
    <3> QED BY <2>2, <3>1, <3>2
  <2>3. CASE expired = "none" /\ ~Passes(PieceNode(w))
    <3> DEFINE r == [step |-> IF worker[w].next + 1 < worker[w].end THEN "check" ELSE "take",
                     next |-> worker[w].next + 1, end |-> worker[w].end]
    <3>1. worker' = [worker EXCEPT ![w] = r] /\ r \in WorkerRecord /\ InRange(r)
      BY <2>3, <1>1, NextPieceEffect DEF CheckPiece, IndInv
    <3>2. r.next .. r.end - 1 \subseteq Ahead(w) /\ r.end <= worker[w].end
      BY <1>3 DEF WorkerRecord, Ahead
    <3> QED BY <2>3, <3>1, <3>2
  <2> QED BY <2>1, <2>2, <2>3
<1>6. /\ worker' \in [Workers -> WorkerRecord]
      /\ worker'[w] = r /\ \A v \in Workers \ {w} : worker'[v] = worker[v]
      /\ RangesOK' /\ StepsOK' /\ QueueOK' /\ PiecesOK'
      /\ \A i : Behind(i) => Behind(i)'
      /\ \A i : Behind(i)' => Behind(i) \/ i \in Ahead(w) \ (r.next .. r.end - 1)
  BY <1>1, <1>2, <1>5, RangeShrinks
<1>7. Types' /\ InputsOK'
  BY <1>1, <1>6, WorkedStays DEF IndInv, Types
<1>8. LockOK'
  BY <1>1, <1>5, <1>6 DEF IndInv, LockOK, Types
<1>9. PassedOK'
  <2>1. \A v \in Workers : worker'[v].step \in {"lock", "append"} => Passes(PieceNode(v))'
    BY <1>1, <1>5, <1>6, WorkedStays DEF IndInv, PassedOK, PieceNode
  <2> QED BY <1>1, <1>2, <2>1, WorkedStays DEF IndInv, PassedOK
<1>10. AppendedOK' /\ BehindOK'
  <2>1. ASSUME NEW i \in 0 .. pieces - 1, i \in Ahead(w) \ (r.next .. r.end - 1)
        PROVE  ~Passes(eligibleNodes[i + 1]) \/ expired # "none"
    <3>1. CASE r.next = worker[w].next /\ r.end = worker[w].end
      BY <2>1, <3>1 DEF Ahead
    <3>2. CASE r.next = worker[w].next + 1 /\ r.end = worker[w].end /\ ~Passes(PieceNode(w))
      <4>1. i = worker[w].next
        BY <2>1, <3>2, <1>3 DEF Ahead, WorkerRecord
      <4> QED BY <4>1, <3>2 DEF PieceNode
    <3> QED BY <1>5, <3>1, <3>2
  <2> QED BY <1>1, <1>2, <1>6, <2>1, NothingAppended DEF IndInv, Types
<1>11. AwakeOK'
  BY <1>1, <1>5, <1>6, WorkedStays DEF IndInv, AwakeOK
<1> QED BY <1>6, <1>7, <1>8, <1>9, <1>10, <1>11 DEF IndInv

\* A failed list moves a worker past a node that may pass: missed says so.
LEMMA CheckPieceFailsInv ==
  ASSUME IndInv, NEW w \in Workers, CheckPieceFails(w)
  PROVE  IndInv'
<1>1. /\ worker[w].step = "check" /\ UNCHANGED worked /\ missed' = TRUE /\ toProcess' = toProcess
      /\ updateLock' = updateLock /\ slice' = slice /\ filteredNodes' = filteredNodes
  BY DEF CheckPieceFails
<1>2. step = "filter"
  BY <1>1, WorkerFilters
<1>3. worker[w] \in WorkerRecord /\ worker[w].next < worker[w].end
  BY <1>1 DEF IndInv, Types, RangesOK, WorkerRecord
<1> DEFINE r == [step |-> IF worker[w].next + 1 < worker[w].end THEN "check" ELSE "take",
                 next |-> worker[w].next + 1, end |-> worker[w].end]
<1>4. worker' = [worker EXCEPT ![w] = r] /\ r \in WorkerRecord /\ InRange(r)
  BY <1>1, NextPieceEffect DEF CheckPieceFails, IndInv
<1>5. r.next .. r.end - 1 \subseteq Ahead(w) /\ r.end <= worker[w].end /\ r.step \in {"check", "take"}
  BY <1>3 DEF WorkerRecord, Ahead
<1> HIDE DEF r
<1>6. /\ worker' \in [Workers -> WorkerRecord]
      /\ worker'[w] = r /\ \A v \in Workers \ {w} : worker'[v] = worker[v]
      /\ RangesOK' /\ StepsOK' /\ QueueOK' /\ PiecesOK'
      /\ \A i : Behind(i) => Behind(i)'
  BY <1>1, <1>2, <1>4, <1>5, RangeShrinks
<1>7. Types' /\ InputsOK'
  BY <1>1, <1>6, WorkedStays DEF IndInv, Types
<1>8. LockOK'
  <2>1. \A v \in Workers : worker'[v].step = "append" <=> worker[v].step = "append"
    BY <1>1, <1>5, <1>6
  <2> QED BY <1>1, <2>1 DEF IndInv, LockOK
<1>9. PassedOK'
  <2>1. \A v \in Workers : worker'[v].step \in {"lock", "append"} => Passes(PieceNode(v))'
    BY <1>1, <1>5, <1>6, WorkedStays DEF IndInv, PassedOK, PieceNode
  <2> QED BY <1>1, <1>2, <2>1, WorkedStays DEF IndInv, PassedOK
<1>10. AppendedOK' /\ BehindOK'
  BY <1>1, <1>2, <1>6, NothingAppended DEF IndInv, Types
<1>11. AwakeOK'
  BY <1>1, <1>5, <1>6, WorkedStays DEF IndInv, AwakeOK
<1> QED BY <1>6, <1>7, <1>8, <1>9, <1>10, <1>11 DEF IndInv

\* The lock is free, so no other worker is appending to the slice it reads.
LEMMA LockSliceInv ==
  ASSUME IndInv, NEW w \in Workers, LockSlice(w)
  PROVE  IndInv'
<1>1. /\ worker[w].step = "lock" /\ UNCHANGED worked /\ missed' = missed /\ toProcess' = toProcess
      /\ updateLock = Free /\ updateLock' = w /\ slice' = [slice EXCEPT ![w] = filteredNodes]
      /\ filteredNodes' = filteredNodes
  BY DEF LockSlice, MayUpdate
<1>2. step = "filter"
  BY <1>1, WorkerFilters
<1>3. /\ worker \in [Workers -> WorkerRecord] /\ worker[w].next < worker[w].end
      /\ worker[w].end <= pieces /\ pieces \in Nat
  BY <1>1, Sizes DEF IndInv, Types, RangesOK, WorkerRecord
<1> DEFINE r == [step |-> "append", next |-> worker[w].next, end |-> worker[w].end]
<1>4. worker' = [worker EXCEPT ![w] = r]
  BY <1>3, RecordUpdate DEF LockSlice
<1>5. /\ r \in WorkerRecord /\ InRange(r)
      /\ r.next .. r.end - 1 = Ahead(w) /\ r.end <= worker[w].end
      /\ r.step = "append" /\ r.next = worker[w].next
  BY <1>3 DEF WorkerRecord, WorkerSteps, InRange, Ahead
<1> HIDE DEF r
<1>6. /\ worker' \in [Workers -> WorkerRecord]
      /\ worker'[w] = r /\ \A v \in Workers \ {w} : worker'[v] = worker[v]
      /\ RangesOK' /\ StepsOK' /\ QueueOK' /\ PiecesOK'
      /\ \A i : Behind(i) => Behind(i)'
      /\ \A i : Behind(i)' => Behind(i)
  BY <1>1, <1>2, <1>4, <1>5, RangeShrinks
<1>7. Types' /\ InputsOK'
  <2>1. slice' \in [Workers -> Seq(Nodes)] /\ updateLock' \in Workers \cup {Free}
    BY <1>1 DEF IndInv, Types
  <2> QED BY <1>1, <1>6, <2>1, WorkedStays DEF IndInv, Types
<1>8. LockOK'
  <2>1. \A v \in Workers : worker[v].step # "append"
    BY <1>1, HandlerAssumption DEF IndInv, LockOK
  <2> QED BY <1>1, <1>5, <1>6, <2>1 DEF LockOK, IndInv, Types
<1>9. PassedOK'
  <2>1. \A v \in Workers : worker'[v].step \in {"lock", "append"} => Passes(PieceNode(v))'
    BY <1>1, <1>5, <1>6, WorkedStays DEF IndInv, PassedOK, PieceNode
  <2> QED BY <1>1, <1>2, <2>1, WorkedStays DEF IndInv, PassedOK
<1>10. AppendedOK' /\ BehindOK'
  BY <1>1, <1>2, <1>6, NothingAppended DEF IndInv, Types
<1>11. AwakeOK'
  BY <1>1, <1>5, <1>6, WorkedStays DEF IndInv, AwakeOK
<1> QED BY <1>6, <1>7, <1>8, <1>9, <1>10, <1>11 DEF IndInv

\* No other worker holds the lock, so the slice is current and no append is lost;
\* the piece was ahead of this worker alone, so its node is not there yet.
LEMMA AppendNodeInv ==
  ASSUME IndInv, NEW w \in Workers, AppendNode(w)
  PROVE  IndInv'
<1>1. /\ worker[w].step = "append" /\ UNCHANGED worked /\ missed' = missed /\ toProcess' = toProcess
      /\ updateLock' = Free /\ slice' = [slice EXCEPT ![w] = <<>>]
      /\ filteredNodes' = Append(slice[w], PieceNode(w))
  BY DEF AppendNode
<1>2. step = "filter"
  BY <1>1, WorkerFilters
<1>3. /\ worker \in [Workers -> WorkerRecord] /\ worker[w].next < worker[w].end
      /\ worker[w].end <= pieces /\ pieces \in Nat
  BY <1>1, Sizes DEF IndInv, Types, RangesOK, WorkerRecord
<1> DEFINE r == [step |-> IF worker[w].next + 1 < worker[w].end THEN "check" ELSE "take",
                 next |-> worker[w].next + 1, end |-> worker[w].end]
<1>4. worker' = [worker EXCEPT ![w] = r] /\ r \in WorkerRecord /\ InRange(r)
  BY <1>1, NextPieceEffect DEF AppendNode, IndInv
<1>5. /\ r.next .. r.end - 1 = Ahead(w) \ {worker[w].next}
      /\ worker[w].next \in Ahead(w) /\ worker[w].next \in 0 .. pieces - 1
      /\ r.end <= worker[w].end /\ r.step \in {"check", "take"}
  BY <1>3 DEF WorkerRecord, Ahead
<1> HIDE DEF r
<1>6. /\ worker' \in [Workers -> WorkerRecord]
      /\ worker'[w] = r /\ \A v \in Workers \ {w} : worker'[v] = worker[v]
      /\ RangesOK' /\ StepsOK' /\ QueueOK' /\ PiecesOK'
      /\ \A i : Behind(i) => Behind(i)'
      /\ \A i : Behind(i)' => Behind(i) \/ i = worker[w].next
  BY <1>1, <1>2, <1>4, <1>5, RangeShrinks
<1>a. slice[w] = filteredNodes /\ filteredNodes \in Seq(Nodes) /\ Passes(PieceNode(w))
  BY <1>1 DEF IndInv, LockOK, Types, PassedOK
<1>b. PieceNode(w) \in Nodes /\ PieceNode(w) = eligibleNodes[worker[w].next + 1]
  BY <1>5 DEF PieceNode, pieces, IndInv, Types
<1>c. /\ filteredNodes' \in Seq(Nodes)
      /\ Len(filteredNodes') = Len(filteredNodes) + 1
      /\ \A j \in 1 .. Len(filteredNodes) : filteredNodes'[j] = filteredNodes[j]
      /\ filteredNodes'[Len(filteredNodes) + 1] = PieceNode(w)
      /\ Len(filteredNodes) \in Nat
  BY <1>1, <1>a, <1>b, AppendProperties
<1>7. Types' /\ InputsOK'
  <2>1. slice' \in [Workers -> Seq(Nodes)] /\ updateLock' \in Workers \cup {Free}
    BY <1>1 DEF IndInv, Types
  <2> QED BY <1>1, <1>6, <1>c, <2>1, WorkedStays DEF IndInv, Types
<1>8. LockOK'
  <2>1. \A v \in Workers \ {w} : worker[v].step # "append"
    BY <1>1 DEF IndInv, LockOK
  <2> QED BY <1>1, <1>5, <1>6, <2>1, HandlerAssumption DEF LockOK
<1>9. PassedOK'
  <2>1. \A v \in Workers : worker'[v].step \in {"lock", "append"} => Passes(PieceNode(v))'
    BY <1>1, <1>5, <1>6, WorkedStays DEF IndInv, PassedOK, PieceNode
  <2>2. \A j \in 1 .. Len(filteredNodes') : Passes(filteredNodes'[j])
    BY <1>2, <1>a, <1>c DEF IndInv, PassedOK
  <2>3. \A j \in 1 .. Len(filteredNodes') : Passes(filteredNodes[j])'
    BY <1>1, <2>2, WorkedStays
  <2> QED BY <2>1, <2>3 DEF PassedOK
<1>d. PICK n \in 0 .. pieces - 1 : n = worker[w].next
  BY <1>5
<1>e. ~Behind(n) /\ Behind(n)'
  <2>1. n < nextStart
    <3>1. worker[w].end <= nextStart /\ nextStart \in Int
      BY <1>2, NextStartType DEF IndInv, PiecesOK
    <3> QED BY <3>1, <1>3, <1>d DEF WorkerRecord
  <2>2. n \notin Ahead(w)' /\ \A v \in Workers \ {w} : n \notin Ahead(v)'
    <3>1. \A v \in Workers \ {w} : n \notin Ahead(v)
      BY <1>2, <1>5, <1>d DEF IndInv, PiecesOK
    <3> QED BY <3>1, <1>5, <1>6, <1>d DEF Ahead
  <2>3. nextStart' = nextStart
    BY <1>1, WorkedStays DEF nextStart, taken
  <2> QED BY <1>5, <1>d, <2>1, <2>2, <2>3 DEF Behind
<1>10. AppendedOK'
  <2>1. IsInjective(filteredNodes')
    <3>1. \A j \in 1 .. Len(filteredNodes) : filteredNodes[j] # PieceNode(w)
      <4>1. SUFFICES ASSUME NEW j \in 1 .. Len(filteredNodes), filteredNodes[j] = PieceNode(w)
                     PROVE  FALSE
        OBVIOUS
      <4>2. PICK i \in 0 .. pieces - 1 : Behind(i) /\ filteredNodes[j] = eligibleNodes[i + 1]
        BY <1>2 DEF IndInv, AppendedOK
      <4>3. i + 1 \in DOMAIN eligibleNodes /\ n + 1 \in DOMAIN eligibleNodes
        <5>1. eligibleNodes \in Seq(Nodes) /\ pieces = Len(eligibleNodes)
          BY DEF pieces, IndInv, Types
        <5> QED BY <1>3, <5>1
      <4>4. i + 1 = n + 1
        BY <1>b, <1>d, <4>1, <4>2, <4>3 DEF IndInv, InputsOK, IsInjective
      <4> QED BY <1>3, <1>e, <4>2, <4>4
    <3>2. DOMAIN filteredNodes = 1 .. Len(filteredNodes) /\ DOMAIN filteredNodes' = 1 .. Len(filteredNodes) + 1
      BY <1>a, <1>c
    <3>3. IsInjective(filteredNodes)
      BY <1>2 DEF IndInv, AppendedOK
    <3> QED BY <1>c, <3>1, <3>2, <3>3 DEF IsInjective
  <2>2. ASSUME NEW j \in 1 .. Len(filteredNodes')
        PROVE  \E i \in 0 .. pieces - 1 : Behind(i)' /\ filteredNodes'[j] = eligibleNodes[i + 1]
    <3>1. CASE j = Len(filteredNodes) + 1
      BY <3>1, <1>b, <1>c, <1>d, <1>e
    <3>2. CASE j \in 1 .. Len(filteredNodes)
      BY <1>2, <1>6, <1>c, <3>2 DEF IndInv, AppendedOK
    <3> QED BY <1>c, <3>1, <3>2
  <2> QED BY <1>1, <2>1, <2>2, WorkedStays DEF AppendedOK
<1>11. BehindOK'
  <2>1. ASSUME expired = "none", ~missed, NEW i \in 0 .. pieces - 1, Behind(i)', Passes(eligibleNodes[i + 1])
        PROVE  \E j \in 1 .. Len(filteredNodes') : filteredNodes'[j] = eligibleNodes[i + 1]
    <3>1. CASE i = worker[w].next
      BY <3>1, <1>b, <1>c
    <3>2. CASE Behind(i)
      BY <1>2, <2>1, <3>2, <1>c DEF IndInv, BehindOK
    <3> QED BY <2>1, <3>1, <3>2, <1>6
  <2> QED BY <1>1, <2>1, WorkedStays DEF BehindOK
<1>12. AwakeOK'
  BY <1>1, <1>5, <1>6, WorkedStays DEF IndInv, AwakeOK
<1> QED BY <1>6, <1>7, <1>8, <1>9, <1>10, <1>11, <1>12 DEF IndInv

\* The end of a chunk: the number of pieces, or the start of the chunk after it.
LEMMA EndOfChunk ==
  ASSUME Types, NEW k \in 0 .. ChunkCount - 1
  PROVE  /\ EndOf(k) \in Nat /\ EndOf(k) <= pieces /\ EndOf(k) <= k * chunkSize + chunkSize
         /\ EndOf(k) = pieces \/ EndOf(k) = k * chunkSize + chunkSize
         /\ k * chunkSize \in Nat /\ k * chunkSize < EndOf(k)
<1>1. pieces \in Nat /\ chunkSize \in Nat \ {0} /\ k \in Nat /\ k * chunkSize < pieces
  BY Sizes
<1>2. k * chunkSize \in Nat /\ (k + 1) * chunkSize = k * chunkSize + chunkSize
  BY <1>1
<1>3. EndOf(k) = IF k * chunkSize + chunkSize <= pieces THEN k * chunkSize + chunkSize ELSE pieces
  BY <1>1, <1>2, MinOfTwo DEF EndOf
<1> QED BY <1>1, <1>2, <1>3

\* The channel is empty, and the worker ends.
LEMMA TakeChunkEndInv ==
  ASSUME IndInv, NEW w \in Workers, TakeChunk(w), toProcess = <<>>
  PROVE  IndInv'
<1>1. /\ worker[w].step = "take" /\ UNCHANGED worked /\ missed' = missed /\ toProcess' = toProcess
      /\ updateLock' = updateLock /\ slice' = slice /\ filteredNodes' = filteredNodes
      /\ worker' = [worker EXCEPT ![w] = Idle]
  BY DEF TakeChunk
<1>2. step = "filter"
  BY <1>1, WorkerFilters
<1>3. worker[w] \in WorkerRecord /\ worker[w].next = worker[w].end /\ pieces \in Nat
  <2>1. worker[w].step \notin {"check", "lock", "append"}
    BY <1>1
  <2> QED BY <2>1, Sizes DEF IndInv, Types, RangesOK, WorkerRecord
<1>4. /\ Idle \in WorkerRecord /\ InRange(Idle) /\ Idle.next .. Idle.end - 1 = {}
      /\ Idle.end <= worker[w].end /\ Idle.step = "done" /\ Ahead(w) = {}
  BY <1>3 DEF Idle, WorkerRecord, WorkerSteps, InRange, Ahead
<1>5. /\ worker' \in [Workers -> WorkerRecord]
      /\ worker'[w] = Idle /\ \A v \in Workers \ {w} : worker'[v] = worker[v]
      /\ RangesOK' /\ StepsOK' /\ QueueOK' /\ PiecesOK'
      /\ \A i : Behind(i) => Behind(i)'
      /\ \A i : Behind(i)' => Behind(i)
  BY <1>1, <1>2, <1>4, RangeShrinks
<1>6. Types' /\ InputsOK'
  BY <1>1, <1>5, WorkedStays DEF IndInv, Types
<1>7. LockOK'
  <2>1. \A v \in Workers : worker'[v].step = "append" <=> worker[v].step = "append"
    BY <1>1, <1>4, <1>5
  <2> QED BY <1>1, <2>1 DEF IndInv, LockOK
<1>8. PassedOK'
  <2>1. \A v \in Workers : worker'[v].step \in {"lock", "append"} => Passes(PieceNode(v))'
    BY <1>1, <1>4, <1>5, WorkedStays DEF IndInv, PassedOK, PieceNode
  <2> QED BY <1>1, <1>2, <2>1, WorkedStays DEF IndInv, PassedOK
<1>9. AppendedOK' /\ BehindOK'
  BY <1>1, <1>2, <1>5, NothingAppended DEF IndInv, Types
<1>10. AwakeOK'
  BY <1>1 DEF AwakeOK
<1> QED BY <1>5, <1>6, <1>7, <1>8, <1>9, <1>10 DEF IndInv

\* The chunk at the head starts where the taken ones end, and becomes the range of
\* the worker.
LEMMA TakeChunkInv ==
  ASSUME IndInv, NEW w \in Workers, TakeChunk(w)
  PROVE  IndInv'
<1>0. CASE toProcess = <<>>
  BY <1>0, TakeChunkEndInv
<1>a. SUFFICES ASSUME toProcess # <<>> PROVE IndInv'
  BY <1>0
<1>1. /\ worker[w].step = "take" /\ UNCHANGED worked /\ missed' = missed
      /\ toProcess' = Tail(toProcess)
      /\ updateLock' = updateLock /\ slice' = slice /\ filteredNodes' = filteredNodes
      /\ worker' = [worker EXCEPT ![w] = [step |-> "check", next |-> Head(toProcess) * chunkSize,
                                          end |-> EndOf(Head(toProcess))]]
  BY <1>a DEF TakeChunk
<1>2. step = "filter"
  BY <1>1, WorkerFilters
<1>3. /\ toProcess \in Seq(Nat) /\ toProcess' \in Seq(Nat)
      /\ Len(toProcess) \in Nat \ {0} /\ Len(toProcess') = Len(toProcess) - 1
      /\ \A i \in 1 .. Len(toProcess') : toProcess'[i] = toProcess[i + 1]
      /\ Head(toProcess) = toProcess[1]
  BY <1>a, <1>1, HeadTailProperties, EmptySeq, LenProperties DEF IndInv, Types
<1>4. taken \in 0 .. ChunkCount - 1 /\ Head(toProcess) = taken
  <2>1. Len(toProcess) <= ChunkCount /\ \A i \in 1 .. Len(toProcess) : toProcess[i] = taken + i - 1
    BY <1>2 DEF IndInv, QueueOK
  <2>2. ChunkCount \in Nat
    BY Sizes DEF IndInv
  <2>3. taken \in 0 .. ChunkCount - 1
    BY <1>3, <2>1, <2>2 DEF taken
  <2> QED BY <1>3, <2>1, <2>3
<1> DEFINE r == [step |-> "check", next |-> nextStart, end |-> EndOf(taken)]
<1>5. worker' = [worker EXCEPT ![w] = r]
  BY <1>1, <1>4 DEF nextStart
<1>6. /\ EndOf(taken) \in Nat /\ EndOf(taken) <= pieces /\ EndOf(taken) <= nextStart + chunkSize
      /\ EndOf(taken) = pieces \/ EndOf(taken) = nextStart + chunkSize
      /\ nextStart \in Nat /\ nextStart < EndOf(taken)
  BY <1>4, EndOfChunk DEF IndInv, nextStart
<1>7. pieces \in Nat /\ chunkSize \in Nat \ {0} /\ ChunkCount \in Nat
  BY Sizes DEF IndInv
<1>8. taken' = taken + 1 /\ nextStart' = nextStart + chunkSize
  <2>1. taken' = taken + 1
    BY <1>1, <1>3, <1>7, WorkedStays DEF taken
  <2>2. (taken + 1) * chunkSize = taken * chunkSize + chunkSize
    BY <1>4, <1>7
  <2> QED BY <1>1, <2>1, <2>2, WorkedStays DEF nextStart
<1>9. r \in WorkerRecord /\ r.step = "check" /\ r.next = nextStart /\ r.end = EndOf(taken)
  BY <1>6 DEF WorkerRecord, WorkerSteps
<1> HIDE DEF r
<1>10. worker \in [Workers -> WorkerRecord] /\ worker[w].next = worker[w].end
  <2>1. worker[w].step \notin {"check", "lock", "append"}
    BY <1>1
  <2> QED BY <2>1 DEF IndInv, Types, RangesOK, WorkerRecord
<1>11. /\ worker' \in [Workers -> WorkerRecord]
       /\ worker'[w] = r /\ \A v \in Workers \ {w} : worker'[v] = worker[v]
  BY <1>5, <1>9, <1>10
<1>12. /\ Ahead(w) = {} /\ Ahead(w)' = nextStart .. EndOf(taken) - 1
       /\ \A v \in Workers \ {w} : Ahead(v)' = Ahead(v)
  BY <1>9, <1>10, <1>11 DEF Ahead, WorkerRecord
<1>13. \A v \in Workers : worker[v].end <= nextStart /\ worker[v].end \in Nat
  BY <1>2, <1>10 DEF IndInv, PiecesOK, WorkerRecord
<1>14. \A i \in 0 .. pieces - 1 : Behind(i)' <=> Behind(i)
  BY <1>6, <1>7, <1>8, <1>12 DEF Behind
<1>15. RangesOK'
  BY <1>1, <1>6, <1>9, <1>11, WorkedStays DEF IndInv, RangesOK
<1>16. StepsOK'
  BY <1>1, <1>2, WorkedStays DEF IndInv, StepsOK
<1>17. QueueOK'
  <2>1. \A i \in 1 .. Len(toProcess') : toProcess'[i] = taken' + i - 1
    BY <1>2, <1>3, <1>4, <1>7, <1>8 DEF IndInv, QueueOK
  <2>2. Len(toProcess') <= ChunkCount
    BY <1>2, <1>3, <1>7 DEF IndInv, QueueOK
  <2> QED BY <1>1, <2>1, <2>2, WorkedStays DEF QueueOK
<1>18. PiecesOK'
  <2>1. \A v \in Workers : worker'[v].end <= nextStart'
    BY <1>6, <1>7, <1>8, <1>9, <1>11, <1>13
  <2>2. \A v \in Workers : Ahead(v) \cap (nextStart .. EndOf(taken) - 1) = {}
    BY <1>6, <1>10, <1>13 DEF Ahead, WorkerRecord
  <2>3. \A u, v \in Workers : u # v => Ahead(u)' \cap Ahead(v)' = {}
    BY <1>2, <1>12, <2>2 DEF IndInv, PiecesOK
  <2> QED BY <2>1, <2>3 DEF PiecesOK
<1>19. Types' /\ InputsOK'
  BY <1>1, <1>3, <1>11, WorkedStays DEF IndInv, Types
<1>20. LockOK'
  <2>1. \A v \in Workers : worker'[v].step = "append" <=> worker[v].step = "append"
    BY <1>1, <1>9, <1>11
  <2> QED BY <1>1, <2>1 DEF IndInv, LockOK
<1>21. PassedOK'
  <2>1. \A v \in Workers : worker'[v].step \in {"lock", "append"} => Passes(PieceNode(v))'
    BY <1>1, <1>9, <1>11, WorkedStays DEF IndInv, PassedOK, PieceNode
  <2> QED BY <1>1, <1>2, <2>1, WorkedStays DEF IndInv, PassedOK
<1>22. AppendedOK'
  BY <1>1, <1>14, WorkedStays DEF IndInv, AppendedOK
<1>23. BehindOK'
  BY <1>1, <1>14, WorkedStays DEF IndInv, BehindOK
<1>24. AwakeOK'
  BY <1>9, <1>11 DEF AwakeOK
<1> QED BY <1>15, <1>16, <1>17, <1>18, <1>19, <1>20, <1>21, <1>22, <1>23, <1>24 DEF IndInv

-----------------------------------------------------------------------------
(* BuildPlan.                                                              *)

\* Outside the filters there is nothing for the workers to be wrong about.
LEMMA OutsideFilters ==
  ASSUME step' # "filter", toProcess' = <<>>
  PROVE  QueueOK' /\ PiecesOK' /\ AppendedOK' /\ BehindOK' /\ AwakeOK'
BY DEF QueueOK, PiecesOK, AppendedOK, BehindOK, AwakeOK

\* A step of BuildPlan that leaves the workers alone, while they are done.
LEMMA WorkersRest ==
  ASSUME IndInv, \A w \in Workers : worker[w].step = "done",
         UNCHANGED <<inputs, worker, updateLock, slice>>
  PROVE  /\ eligibleNodes' = eligibleNodes /\ pod' = pod /\ hostIP' = hostIP
         /\ scheduledPod' = scheduledPod /\ offered' = offered
         /\ InputsOK' /\ RangesOK' /\ LockOK'
         /\ \A w \in Workers : worker'[w].step = "done"
<1>1. /\ eligibleNodes' = eligibleNodes /\ pod' = pod /\ hostIP' = hostIP
      /\ scheduledPod' = scheduledPod /\ offered' = offered
  BY DEF inputs
<1>2. InputsOK'
  BY <1>1 DEF IndInv, InputsOK
<1>3. RangesOK'
  BY <1>1, SizesStay DEF IndInv, RangesOK
<1>4. LockOK'
  BY DEF IndInv, LockOK
<1> QED BY <1>1, <1>2, <1>3, <1>4

\* The pod whose turn it is, and those after it.
LEMMA TodoTail ==
  ASSUME Types, todo # <<>>
  PROVE  current \in Pods /\ Tail(todo) \in Seq(Pods)
BY HeadTailProperties DEF Types, current

\* The steps between the pods: one is skipped, given a node or none, or all are done.
LEMMA NextPodInv ==
  ASSUME IndInv, SkipPod \/ SelectNoNode \/ Return \/ \E n \in Nodes : SelectNode(n)
  PROVE  IndInv'
<1>1. /\ step # "filter" /\ step' \in {"plan", "done"} /\ todo' \in Seq(Pods)
      /\ UNCHANGED <<inputs, expired, missed, toProcess, worker, updateLock, slice>>
      /\ filteredNodes' \in Seq(Nodes) /\ podToNodeMap' \in [Pods -> MaybeNode]
      /\ assignmentMap' \in [Pods -> MaybeNode]
  <2>1. CASE SkipPod
    <3>1. assignmentMap' \in [Pods -> MaybeNode]
      <4>1. assignmentMap \in [Pods -> MaybeNode] /\ current \in Pods
        BY <2>1, TodoTail DEF IndInv, Types, SkipPod
      <4>2. GetNodeName(current) \in MaybeNode
        BY <4>1 DEF IndInv, Types, GetNodeName, MaybeNode
      <4> QED BY <2>1, <4>1, <4>2 DEF SkipPod
    <3> QED BY <2>1, <3>1, TodoTail DEF IndInv, Types, SkipPod, poolVars
  <2>2. CASE SelectNoNode
    BY <2>2, TodoTail DEF IndInv, Types, StepsOK, SelectNoNode, poolVars, plans
  <2>3. CASE Return
    BY <2>3 DEF IndInv, Types, Return, poolVars, plans
  <2>4. ASSUME NEW n \in Nodes, SelectNode(n)
        PROVE  <1>1!:
    <3>1. podToNodeMap' \in [Pods -> MaybeNode] /\ assignmentMap' \in [Pods -> MaybeNode]
      <4>1. /\ podToNodeMap \in [Pods -> MaybeNode] /\ assignmentMap \in [Pods -> MaybeNode]
            /\ n \in MaybeNode
        BY DEF IndInv, Types, MaybeNode
      <4> QED BY <2>4, <4>1 DEF SelectNode
    <3> QED BY <2>4, <3>1, TodoTail DEF IndInv, Types, StepsOK, SelectNode, poolVars
  <2> QED BY <2>1, <2>2, <2>3, <2>4
<1>2. toProcess = <<>> /\ \A w \in Workers : worker[w].step = "done"
  BY <1>1 DEF IndInv, StepsOK
<1>3. /\ eligibleNodes' = eligibleNodes /\ pod' = pod /\ hostIP' = hostIP
      /\ scheduledPod' = scheduledPod /\ offered' = offered
      /\ InputsOK' /\ RangesOK' /\ LockOK'
      /\ \A w \in Workers : worker'[w].step = "done"
  BY <1>1, <1>2, WorkersRest
<1>4. Types'
  BY <1>1, <1>3 DEF IndInv, Types
<1>5. StepsOK'
  BY <1>1, <1>2, <1>3 DEF StepsOK
<1>6. PassedOK'
  BY <1>1, <1>3 DEF PassedOK
<1> QED BY <1>1, <1>2, <1>3, <1>4, <1>5, <1>6, OutsideFilters DEF IndInv

\* The nodes offered have not passed the filters; the pod is the one being scheduled.
LEMMA TakeOfferInv ==
  ASSUME IndInv, TakeOffer
  PROVE  IndInv'
<1>1. /\ step = "plan" /\ step' = "score" /\ todo # <<>>
      /\ current = scheduledPod /\ filteredNodes' = SetToSeq(offered)
      /\ UNCHANGED <<inputs, podToNodeMap, assignmentMap, todo, expired, missed, toProcess, worker,
                     updateLock, slice>>
  BY DEF TakeOffer, poolVars, plans
<1>2. toProcess = <<>> /\ \A w \in Workers : worker[w].step = "done"
  BY <1>1 DEF IndInv, StepsOK
<1>3. /\ eligibleNodes' = eligibleNodes /\ pod' = pod /\ hostIP' = hostIP
      /\ scheduledPod' = scheduledPod /\ offered' = offered
      /\ InputsOK' /\ RangesOK' /\ LockOK'
      /\ \A w \in Workers : worker'[w].step = "done"
  BY <1>1, <1>2, WorkersRest
<1>4. filteredNodes' \in Seq(Nodes)
  <2>1. offered \subseteq Nodes /\ IsFiniteSet(offered)
    BY HandlerAssumption, FS_Subset DEF IndInv, Types
  <2>2. SetToSeq(offered) \in Seq(offered)
    BY <2>1, SetToSeqType
  <2> QED BY <1>1, <2>1, <2>2, SeqMonotonic
<1>5. Types'
  BY <1>1, <1>3, <1>4 DEF IndInv, Types
<1>6. current' = current
  BY <1>1 DEF current
<1>7. StepsOK'
  BY <1>1, <1>2, <1>3, <1>6 DEF StepsOK
<1>8. PassedOK'
  BY <1>1, <1>3, <1>6 DEF PassedOK
<1> QED BY <1>1, <1>2, <1>3, <1>5, <1>7, <1>8, OutsideFilters DEF IndInv

\* What was appended has passed for the pod that is scored next.
LEMMA FiltersDoneInv ==
  ASSUME IndInv, FiltersDone
  PROVE  IndInv'
<1>1. /\ step = "filter" /\ toProcess' = <<>> /\ \A w \in Workers : worker[w].step = "done"
      /\ UNCHANGED <<inputs, podToNodeMap, assignmentMap, expired, missed, worker, updateLock, slice,
                     filteredNodes>>
      /\ (todo' = Tail(todo) /\ step' = "plan") \/ (todo' = todo /\ step' = "score")
  BY DEF FiltersDone, plans
<1>2. todo # <<>>
  BY <1>1 DEF IndInv, StepsOK
<1>3. /\ eligibleNodes' = eligibleNodes /\ pod' = pod /\ hostIP' = hostIP
      /\ scheduledPod' = scheduledPod /\ offered' = offered
      /\ InputsOK' /\ RangesOK' /\ LockOK'
      /\ \A w \in Workers : worker'[w].step = "done"
  BY <1>1, WorkersRest
<1>4. Types'
  <2>1. todo' \in Seq(Pods)
    <3>1. Types /\ todo \in Seq(Pods)
      BY DEF IndInv, Types
    <3> QED BY <1>1, <1>2, <3>1, TodoTail
  <2>2. toProcess' \in Seq(Nat) /\ step' \in {"plan", "filter", "score", "done"}
    BY <1>1, EmptySeq
  <2> QED BY <1>1, <1>3, <2>1, <2>2 DEF IndInv, Types
<1>5. StepsOK'
  BY <1>1, <1>2, <1>3 DEF StepsOK, current
<1>6. PassedOK'
  <2>1. CASE step' = "score"
    <3>1. todo' = todo
      BY <1>1, <2>1
    <3>2. \A j \in 1 .. Len(filteredNodes) : Passes(filteredNodes[j])
      BY <1>1 DEF IndInv, PassedOK
    <3>3. \A j \in 1 .. Len(filteredNodes') : Passes(filteredNodes[j])'
      BY <1>1, <1>3, <3>1, <3>2, PassesStays
    <3> QED BY <1>3, <3>3 DEF PassedOK
  <2>2. CASE step' = "plan"
    BY <1>3, <2>2 DEF PassedOK
  <2> QED BY <1>1, <2>1, <2>2
<1>7. step' # "filter"
  BY <1>1
<1> QED BY <1>1, <1>3, <1>4, <1>5, <1>6, <1>7, OutsideFilters DEF IndInv

\* All chunks are in the channel, no piece is behind, and a worker was started if
\* there is a chunk.
LEMMA StartFiltersInv ==
  ASSUME IndInv, StartFilters
  PROVE  IndInv'
<1>1. /\ step = "plan" /\ step' = "filter" /\ todo # <<>>
      /\ current # scheduledPod
      /\ expired' = (IF expired = "request" THEN "request" ELSE "none")
      /\ missed' = FALSE /\ filteredNodes' = <<>>
      /\ toProcess' = [i \in 1 .. Cardinality(Chunks) |-> i - 1]
      /\ UNCHANGED <<inputs, podToNodeMap, assignmentMap, todo, updateLock, slice>>
  BY DEF StartFilters, plans
<1>2. PICK started \in SUBSET Workers :
        /\ Cardinality(started) = Min({parallelism, Cardinality(Chunks)})
        /\ worker' = [w \in Workers |-> IF w \in started THEN [Idle EXCEPT !.step = "take"] ELSE Idle]
  BY DEF StartFilters
<1>3. /\ pod' = pod /\ hostIP' = hostIP /\ scheduledPod' = scheduledPod /\ offered' = offered
      /\ eligibleNodes' = eligibleNodes /\ current' = current
      /\ pieces' = pieces /\ chunkSize' = chunkSize /\ ChunkCount' = ChunkCount
  BY <1>1, SizesStay DEF inputs, current
<1>4. /\ pieces \in Nat /\ ChunkCount \in Nat /\ chunkSize \in Nat \ {0}
      /\ Cardinality(Chunks) = ChunkCount /\ parallelism \in Nat \ {0}
  BY Sizes DEF IndInv
<1>5. toProcess' \in Seq(Nat) /\ Len(toProcess') = ChunkCount
      /\ \A i \in 1 .. ChunkCount : toProcess'[i] = i - 1
  <2>1. toProcess' = [i \in 1 .. ChunkCount |-> i - 1]
    BY <1>1, <1>4
  <2>2. toProcess' \in [1 .. ChunkCount -> Nat]
    BY <1>4, <2>1
  <2>3. toProcess' \in Seq(Nat) /\ Len(toProcess') = ChunkCount
    BY <1>4, <2>2, LenProperties
  <2> QED BY <2>1, <2>3
<1>6. taken' = 0 /\ nextStart' = 0
  BY <1>3, <1>4, <1>5 DEF taken, nextStart
<1>7. \A w \in Workers :
        /\ w \in started => worker'[w] = [step |-> "take", next |-> 0, end |-> 0]
        /\ w \notin started => worker'[w] = [step |-> "done", next |-> 0, end |-> 0]
  BY <1>2 DEF Idle
<1>8. worker' \in [Workers -> WorkerRecord]
  <2>1. \A w \in Workers : worker'[w] \in WorkerRecord
    BY <1>7 DEF WorkerRecord, WorkerSteps
  <2> QED BY <1>2, <2>1
<1>9. \A w \in Workers : /\ worker'[w].step \in {"take", "done"}
                         /\ worker'[w].next = 0 /\ worker'[w].end = 0
  BY <1>7
<1>10. \A w \in Workers : worker[w].step = "done"
  BY <1>1 DEF IndInv, StepsOK
<1>11. Types' /\ InputsOK'
  <2>1. expired' \in {"none", "call", "request"} /\ filteredNodes' \in Seq(Nodes)
    BY <1>1, EmptySeq
  <2> QED BY <1>1, <1>3, <1>5, <1>8, <2>1 DEF IndInv, Types, InputsOK, WorkerRecord
<1>12. RangesOK'
  BY <1>3, <1>4, <1>9 DEF RangesOK
<1>13. StepsOK'
  BY <1>1, <1>3 DEF StepsOK
<1>14. LockOK'
  BY <1>1, <1>9, <1>10 DEF IndInv, LockOK
<1>15. QueueOK'
  BY <1>3, <1>4, <1>5, <1>6 DEF QueueOK
<1>16. PiecesOK'
  BY <1>6, <1>9 DEF PiecesOK, Ahead
<1>17. PassedOK'
  <2>1. Len(filteredNodes') = 0
    BY <1>1, EmptySeq
  <2> QED BY <1>9, <2>1 DEF PassedOK
<1>18. AppendedOK' /\ BehindOK'
  <2>1. Len(filteredNodes') = 0 /\ DOMAIN filteredNodes' = {}
    BY <1>1, EmptySeq
  <2>2. \A i \in 0 .. pieces - 1 : ~Behind(i)'
    BY <1>4, <1>6 DEF Behind
  <2> QED BY <1>3, <2>1, <2>2 DEF AppendedOK, BehindOK, IsInjective
<1>19. AwakeOK'
  <2>1. SUFFICES ASSUME toProcess' # <<>>
                 PROVE  \E w \in Workers : worker'[w].step # "done"
    BY DEF AwakeOK
  <2>2. ChunkCount # 0
    BY <1>5, <2>1, EmptySeq
  <2>3. Cardinality(started) # 0
    BY <1>2, <1>4, <2>2, MinOfTwo
  <2>4. started # {}
    BY <2>3, FS_EmptySet
  <2>5. PICK w \in started : worker'[w] = [step |-> "take", next |-> 0, end |-> 0]
    BY <1>7, <2>4
  <2>6. worker'[w].step # "done"
    BY <2>5
  <2> QED BY <2>6
<1> QED BY <1>11, <1>12, <1>13, <1>14, <1>15, <1>16, <1>17, <1>18, <1>19 DEF IndInv

\* After a deadline nothing is promised about the pieces behind.
LEMMA ExpireInv ==
  ASSUME IndInv, Expire
  PROVE  IndInv'
<1>1. /\ expired' \in {"call", "request"}
      /\ pod' = pod /\ hostIP' = hostIP /\ scheduledPod' = scheduledPod /\ offered' = offered
      /\ eligibleNodes' = eligibleNodes /\ podToNodeMap' = podToNodeMap
      /\ assignmentMap' = assignmentMap /\ todo' = todo
      /\ step' = step /\ missed' = missed /\ toProcess' = toProcess /\ worker' = worker
      /\ updateLock' = updateLock /\ slice' = slice /\ filteredNodes' = filteredNodes
  BY DEF Expire, inputs, plans, poolVars
<1>2. current' = current /\ \A n : Passes(n)' <=> Passes(n)
  BY <1>1, PassesStays
<1>3. pieces' = pieces /\ chunkSize' = chunkSize /\ ChunkCount' = ChunkCount
  BY <1>1, SizesStay
<1>4. taken' = taken /\ nextStart' = nextStart /\ \A w \in Workers : Ahead(w)' = Ahead(w)
  BY <1>1, <1>3 DEF taken, nextStart, Ahead
<1>5. Types' /\ InputsOK'
  BY <1>1 DEF IndInv, Types, InputsOK
<1>6. RangesOK' /\ StepsOK' /\ LockOK'
  BY <1>1, <1>2, <1>3 DEF IndInv, RangesOK, StepsOK, LockOK
<1>7. QueueOK' /\ PiecesOK'
  BY <1>1, <1>3, <1>4 DEF IndInv, QueueOK, PiecesOK
<1>8. PassedOK'
  BY <1>1, <1>2 DEF IndInv, PassedOK, PieceNode
<1>9. AppendedOK'
  BY <1>1, <1>3, <1>4 DEF IndInv, AppendedOK, Behind
<1>10. BehindOK' /\ AwakeOK'
  BY <1>1 DEF BehindOK, AwakeOK
<1> QED BY <1>5, <1>6, <1>7, <1>8, <1>9, <1>10 DEF IndInv

\* A step that changes nothing.
LEMMA StutterInv ==
  ASSUME IndInv, UNCHANGED vars
  PROVE  IndInv'
<1>1. /\ pod' = pod /\ hostIP' = hostIP
      /\ scheduledPod' = scheduledPod /\ offered' = offered /\ expired' = expired
      /\ eligibleNodes' = eligibleNodes /\ podToNodeMap' = podToNodeMap
      /\ assignmentMap' = assignmentMap /\ todo' = todo
      /\ step' = step /\ missed' = missed /\ toProcess' = toProcess /\ worker' = worker
      /\ updateLock' = updateLock /\ slice' = slice /\ filteredNodes' = filteredNodes
  BY DEF vars, inputs, plans, poolVars
<1>2. current' = current /\ \A n : Passes(n)' <=> Passes(n)
  BY <1>1, PassesStays
<1>3. pieces' = pieces /\ chunkSize' = chunkSize /\ ChunkCount' = ChunkCount
  BY <1>1, SizesStay
<1>4. taken' = taken /\ nextStart' = nextStart /\ \A w \in Workers : Ahead(w)' = Ahead(w)
  BY <1>1, <1>3 DEF taken, nextStart, Ahead
<1>5. Types' /\ InputsOK'
  BY <1>1 DEF IndInv, Types, InputsOK
<1>6. RangesOK' /\ StepsOK' /\ LockOK'
  BY <1>1, <1>2, <1>3 DEF IndInv, RangesOK, StepsOK, LockOK
<1>7. QueueOK' /\ PiecesOK' /\ AwakeOK'
  BY <1>1, <1>3, <1>4 DEF IndInv, QueueOK, PiecesOK, AwakeOK
<1>8. PassedOK'
  BY <1>1, <1>2 DEF IndInv, PassedOK, PieceNode
<1>9. AppendedOK' /\ BehindOK'
  BY <1>1, <1>2, <1>3, <1>4 DEF IndInv, AppendedOK, BehindOK, Behind
<1> QED BY <1>5, <1>6, <1>7, <1>8, <1>9 DEF IndInv

-----------------------------------------------------------------------------
(* The theorems.                                                           *)

\* A list of a set of nodes has none of them twice.
LEMMA OrdersAreInjective ==
  ASSUME NEW S \in SUBSET Nodes, NEW s \in Orders(S)
  PROVE  s \in Seq(Nodes) /\ IsInjective(s)
<1>1. s \in SetToSeqs(S) /\ IsFiniteSet(S)
  BY HandlerAssumption, FS_Subset
<1>2. Cardinality(S) \in Nat
  BY <1>1, FS_CardinalityType
<1>3. s \in [1 .. Cardinality(S) -> S] /\ \A i, j \in 1 .. Cardinality(S) : i # j => s[i] # s[j]
  BY <1>1 DEF SetToSeqs
<1>4. s \in Seq(Nodes)
  BY <1>2, <1>3
<1> QED BY <1>3, <1>4 DEF IsInjective

\* The request starts with nothing in the channel and every worker done.
LEMMA InitInv == Init => IndInv
<1>1. SUFFICES ASSUME Init PROVE IndInv
  OBVIOUS
<1>2. /\ step = "plan" /\ expired = "none" /\ missed = FALSE /\ toProcess = <<>>
      /\ worker = [w \in Workers |-> Idle] /\ updateLock = Free
      /\ slice = [w \in Workers |-> <<>>] /\ filteredNodes = <<>> /\ todo = PodList
  BY <1>1 DEF Init
<1>3. PICK nodes \in NodeLists : eligibleNodes \in GetEligibleNodes(nodes)
  BY <1>1 DEF Init
<1>4. eligibleNodes \in Seq(Nodes) /\ IsInjective(eligibleNodes)
  <2>1. nodes \subseteq Nodes
    BY HandlerAssumption
  <2>2. PICK S \in SUBSET Nodes : eligibleNodes \in Orders(S)
    BY <1>3, <2>1 DEF GetEligibleNodes
  <2> QED BY <2>2, OrdersAreInjective
<1>5. PICK t \in [Pods -> Templates] : pod = [p \in Pods |-> [t[p] EXCEPT !.name = p]]
  BY <1>1 DEF Init
<1>6. Idle \in WorkerRecord /\ Idle.step = "done" /\ Idle.next = 0 /\ Idle.end = 0
  BY DEF Idle, WorkerRecord, WorkerSteps
<1>7. Types
  <2>1. pod \in [Pods -> PodRecords]
    <3>1. \A p \in Pods : [t[p] EXCEPT !.name = p] \in PodRecords
      BY DEF PodRecords
    <3> QED BY <1>5, <3>1
  <2>2. scheduledPod \in Pods \cup {NoPod} /\ todo \in Seq(Pods)
    BY <1>1, <1>2, PodAssumption, HeadTailProperties DEF Init
  <2>3. /\ offered \in SUBSET Nodes
        /\ podToNodeMap \in [Pods -> MaybeNode] /\ hostIP \in [Pods -> MaybeNode]
        /\ assignmentMap \in [Pods -> MaybeNode]
    <3>1. NoNode \in MaybeNode
      BY DEF MaybeNode
    <3> QED BY <1>1, <3>1, HandlerAssumption DEF Init
  <2>4. toProcess \in Seq(Nat) /\ filteredNodes \in Seq(Nodes) /\ slice \in [Workers -> Seq(Nodes)]
    BY <1>2, EmptySeq
  <2>5. worker \in [Workers -> WorkerRecord]
    BY <1>2, <1>6
  <2> QED BY <1>2, <1>4, <2>1, <2>2, <2>3, <2>4, <2>5 DEF Types
<1>8. InputsOK
  <2>1. ASSUME NEW p \in Pods
        PROVE  pod[p].name = p /\ IsPod(pod[p])
    <3>1. IsPod(t[p])
      BY PodAssumption
    <3>2. pod[p] = [t[p] EXCEPT !.name = p]
      BY <1>5
    <3>3. \A field \in DOMAIN t[p] \ {"name"} : pod[p][field] = t[p][field]
      BY <3>2
    <3>4. HasFields(t[p])
      BY <3>1 DEF IsPod
    <3>5. DOMAIN t[p] = PodFields /\ pod[p].name = p /\ HasFields(pod[p])
      BY <3>2, <3>4 DEF HasFields, PodFields
    <3>6. pod[p].containers = t[p].containers /\ pod[p].inits = t[p].inits
      BY <3>3, <3>5 DEF PodFields
    <3> QED BY <3>1, <3>5, <3>6 DEF IsPod
  <2> QED BY <1>4, <2>1 DEF InputsOK
<1>9. pieces \in Nat
  BY <1>7, Sizes
<1>10. RangesOK
  BY <1>2, <1>6, <1>9 DEF RangesOK
<1>11. StepsOK /\ QueueOK /\ PiecesOK /\ AppendedOK /\ BehindOK /\ AwakeOK
  BY <1>2, <1>6 DEF StepsOK, QueueOK, PiecesOK, AppendedOK, BehindOK, AwakeOK
<1>12. LockOK /\ PassedOK
  BY <1>2, <1>6, HandlerAssumption DEF LockOK, PassedOK
<1> QED BY <1>7, <1>8, <1>10, <1>11, <1>12 DEF IndInv

\* Every step keeps the inductive invariant.
LEMMA NextInv == IndInv /\ [Next]_vars => IndInv'
<1>1. SUFFICES ASSUME IndInv, [Next]_vars PROVE IndInv'
  OBVIOUS
<1>2. CASE BuildPlan
  BY <1>1, <1>2, NextPodInv, TakeOfferInv, StartFiltersInv, FiltersDoneInv DEF BuildPlan
<1>3. CASE Expire
  BY <1>1, <1>3, ExpireInv
<1>4. ASSUME NEW w \in Workers, Worker(w) PROVE IndInv'
  BY <1>1, <1>4, TakeChunkInv, CheckPieceInv, CheckPieceFailsInv, LockSliceInv, AppendNodeInv DEF Worker
<1>5. CASE UNCHANGED vars
  BY <1>1, <1>5, StutterInv
<1> QED BY <1>1, <1>2, <1>3, <1>4, <1>5 DEF Next

\* The inductive invariant holds throughout.
LEMMA Invariance == Spec => []IndInv
BY InitInv, NextInv, PTL DEF Spec

(***************************************************************************)
(* The variables of BuildPlan and of the workers keep their types: no      *)
(* worker's range leaves the nodes, whatever their number and the number   *)
(* of workers.                                                             *)
(***************************************************************************)
THEOREM TypeCorrect == Spec => []TypeOK
<1>1. IndInv => TypeOK
  <2>1. SUFFICES ASSUME IndInv PROVE TypeOK
    OBVIOUS
  <2>2. /\ pod \in [Pods -> {[t EXCEPT !.name = p] : t \in Templates, p \in Pods}]
        /\ scheduledPod \in Pods \cup {NoPod} /\ offered \in SUBSET Nodes
        /\ podToNodeMap \in [Pods -> MaybeNode] /\ hostIP \in [Pods -> MaybeNode]
        /\ assignmentMap \in [Pods -> MaybeNode]
        /\ step \in {"plan", "filter", "score", "done"}
        /\ expired \in {"none", "call", "request"} /\ missed \in BOOLEAN
        /\ updateLock \in Workers \cup {Free}
    BY <2>1 DEF IndInv, Types, PodRecords
  <2>3. /\ ToSet(eligibleNodes) \subseteq Nodes /\ ToSet(todo) \subseteq Pods
        /\ ToSet(filteredNodes) \subseteq Nodes
        /\ \A w \in Workers : ToSet(slice[w]) \subseteq Nodes
    <3>1. /\ eligibleNodes \in Seq(Nodes) /\ todo \in Seq(Pods) /\ filteredNodes \in Seq(Nodes)
          /\ \A w \in Workers : slice[w] \in Seq(Nodes)
      BY <2>1 DEF IndInv, Types
    <3>2. \A S, s : s \in Seq(S) => ToSet(s) \subseteq S
      BY DEF ToSet
    <3> QED BY <3>1, <3>2
  <2>4. ToSet(toProcess) \subseteq Chunks
    <3>1. toProcess \in Seq(Nat) /\ Len(toProcess) \in Nat
      BY <2>1, LenProperties DEF IndInv, Types
    <3>2. ChunkCount \in Nat /\ Chunks = 0 .. ChunkCount - 1
      BY <2>1, Sizes DEF IndInv
    <3>3. \A i \in 1 .. Len(toProcess) : toProcess[i] \in 0 .. ChunkCount - 1
      <4>1. CASE step = "filter"
        <5>1. Len(toProcess) <= ChunkCount /\ \A i \in 1 .. Len(toProcess) : toProcess[i] = taken + i - 1
          BY <2>1, <4>1 DEF IndInv, QueueOK
        <5> QED BY <3>1, <3>2, <5>1 DEF taken
      <4>2. CASE step # "filter"
        <5>1. Len(toProcess) = 0
          BY <2>1, <4>2, EmptySeq DEF IndInv, StepsOK
        <5> QED BY <5>1
      <4> QED BY <4>1, <4>2
    <3> QED BY <3>1, <3>2, <3>3 DEF ToSet
  <2>5. ASSUME NEW w \in Workers
        PROVE  /\ worker[w].step \in {"take", "check", "lock", "append", "done"}
               /\ 0 <= worker[w].next /\ worker[w].next <= worker[w].end
               /\ worker[w].end <= pieces
    <3>1. worker[w] \in WorkerRecord /\ InRange(worker[w])
      BY <2>1 DEF IndInv, Types, RangesOK, InRange
    <3>2. worker[w].step \in {"take", "check", "lock", "append", "done"}
      BY <3>1 DEF WorkerRecord, WorkerSteps
    <3>3. worker[w].next \in Nat /\ worker[w].end \in Nat
      BY <3>1 DEF WorkerRecord
    <3> QED BY <3>1, <3>2, <3>3 DEF InRange
  <2> QED BY <2>2, <2>3, <2>4, <2>5 DEF TypeOK
<1> QED BY <1>1, Invariance, PTL

(***************************************************************************)
(* FindNodesThatPassFilters returns nodes that pass, none twice, and all   *)
(* of them unless a deadline passed or a list failed, for any number of    *)
(* nodes and workers, any order of the nodes and any interleaving.         *)
(***************************************************************************)
THEOREM FiltersComplete == Spec => []FiltersAreComplete
<1>1. IndInv => FiltersAreComplete
  <2>1. SUFFICES ASSUME IndInv, step = "filter", \A w \in Workers : worker[w].step = "done"
                 PROVE  /\ IsInjective(filteredNodes)
                        /\ \A n \in ToSet(filteredNodes) : Passes(n)
                        /\ expired = "none" /\ ~missed =>
                             \A n \in ToSet(eligibleNodes) : Passes(n) => n \in ToSet(filteredNodes)
    BY DEF FiltersAreComplete
  <2>2. /\ filteredNodes \in Seq(Nodes) /\ eligibleNodes \in Seq(Nodes)
        /\ pieces = Len(eligibleNodes) /\ pieces \in Nat
    BY <2>1, LenProperties DEF IndInv, Types, pieces
  <2>3. IsInjective(filteredNodes)
    BY <2>1 DEF IndInv, AppendedOK
  <2>4. \A n \in ToSet(filteredNodes) : Passes(n)
    BY <2>1, <2>2 DEF IndInv, PassedOK, ToSet
  <2>5. ASSUME expired = "none", ~missed, NEW n \in ToSet(eligibleNodes), Passes(n)
        PROVE  n \in ToSet(filteredNodes)
    <3>1. PICK i \in 0 .. pieces - 1 : n = eligibleNodes[i + 1]
      <4>1. PICK j \in 1 .. pieces : n = eligibleNodes[j]
        BY <2>2 DEF ToSet
      <4>2. j - 1 \in 0 .. pieces - 1 /\ (j - 1) + 1 = j
        BY <2>2
      <4> QED BY <4>1, <4>2
    <3>2. Behind(i)
      <4>1. toProcess = <<>>
        BY <2>1, <2>5 DEF IndInv, AwakeOK
      <4>2. taken = ChunkCount /\ nextStart >= pieces
        BY <2>1, <4>1, Sizes, EmptySeq DEF IndInv, taken, nextStart
      <4>3. \A w \in Workers : Ahead(w) = {}
        <5>1. ASSUME NEW w \in Workers PROVE Ahead(w) = {}
          <6>1. worker[w].step \notin {"check", "lock", "append"} /\ worker[w] \in WorkerRecord
            BY <2>1 DEF IndInv, Types
          <6>2. worker[w].next = worker[w].end /\ worker[w].end \in Nat
            BY <2>1, <6>1 DEF IndInv, RangesOK, WorkerRecord
          <6> QED BY <6>2 DEF Ahead
        <5> QED BY <5>1
      <4>4. nextStart \in Int
        BY <2>1, NextStartType
      <4> QED BY <2>2, <4>2, <4>3, <4>4 DEF Behind
    <3>3. PICK j \in 1 .. Len(filteredNodes) : filteredNodes[j] = eligibleNodes[i + 1]
      BY <2>1, <2>5, <3>1, <3>2 DEF IndInv, BehindOK
    <3> QED BY <2>2, <3>1, <3>3 DEF ToSet
  <2> QED BY <2>3, <2>4, <2>5
<1> QED BY <1>1, Invariance, PTL

-----------------------------------------------------------------------------
(* The predicates.                                                         *)

\* Replicas have the same keys, so one of them is a duplicate of the other.
LEMMA ReplicasHaveSameKeys ==
  ASSUME NEW p, NEW q, Replicas(p, q)
  PROVE  GetPodContainerKeys(p) = GetPodContainerKeys(q)
BY DEF Replicas, GetPodContainerKeys

\* The step in which the filters give a pod a node: it is the pod whose turn it is,
\* and the node is eligible and passed.
LEMMA FilteredNodePasses ==
  ASSUME IndInv, [Next]_vars, NEW p \in Pods, NEW n \in Nodes, FilteredTo(p, n)
  PROVE  Passes(n) /\ pod[p] = pod[current] /\ n \in ToSet(eligibleNodes)
<1>1. /\ p # scheduledPod /\ step = "score"
      /\ assignmentMap[p] = NoNode /\ assignmentMap'[p] = n /\ n # NoNode
  BY HandlerAssumption DEF FilteredTo
<1>2. assignmentMap' # assignmentMap
  BY <1>1
<1>3. PICK m \in Nodes : SelectNode(m)
  <2>1. ASSUME NEW w \in Workers, Worker(w) PROVE assignmentMap' = assignmentMap
    BY <2>1 DEF Worker, TakeChunk, CheckPiece, CheckPieceFails, LockSlice, AppendNode, worked, plans
  <2>2. ASSUME TakeOffer \/ StartFilters \/ FiltersDone \/ SelectNoNode \/ Return \/ Expire
        PROVE  assignmentMap' = assignmentMap
    BY <2>2 DEF TakeOffer, StartFilters, FiltersDone, SelectNoNode, Return, Expire, plans
  <2>3. UNCHANGED vars => assignmentMap' = assignmentMap
    BY DEF vars, plans
  <2>4. ~SkipPod
    BY <1>1 DEF SkipPod
  <2> QED BY <1>2, <2>1, <2>2, <2>3, <2>4 DEF Next, BuildPlan
<1>4. /\ m \in UNION RunScorePredicates /\ ToSet(filteredNodes) \subseteq ToSet(eligibleNodes)
      /\ assignmentMap' = [assignmentMap EXCEPT ![current] = m]
  BY <1>3 DEF SelectNode
<1>5. p = current /\ n = m
  <2>1. assignmentMap \in [Pods -> MaybeNode] /\ current \in Pods
    BY <1>1, TodoTail DEF IndInv, Types, StepsOK
  <2> QED BY <1>1, <1>4, <2>1
<1>6. n \in ToSet(filteredNodes)
  BY <1>4, <1>5 DEF RunScorePredicates
<1>7. PICK j \in 1 .. Len(filteredNodes) : n = filteredNodes[j]
  <2>1. filteredNodes \in Seq(Nodes)
    BY DEF IndInv, Types
  <2> QED BY <1>6, <2>1 DEF ToSet
<1>8. Passes(n)
  BY <1>1, <1>4, <1>5, <1>7 DEF IndInv, PassedOK
<1> QED BY <1>4, <1>5, <1>6, <1>8

\* What passes has passed each of the filters of the registry.
LEMMA PassedFilters ==
  ASSUME NEW n, Passes(n), NEW merged, merged = MergePods(Listed[n], PodSetPods(n))
  PROVE  /\ PodFitsNode(pod[current], NodeOf[n])
         /\ ~PodIsADuplicate(pod[current], merged)
         /\ AntiAffinityHolds(pod[current], merged)
<1>1. \A name \in NewInTreeRegistry : Filter(name, pod[current], NodeOf[n], merged)
  BY DEF Passes, RunFilterPredicates
<1>2. Filter("PodFitsNode", pod[current], NodeOf[n], merged) = PodFitsNode(pod[current], NodeOf[n])
  BY DEF Filter
<1>3. Filter("PodIsADuplicate", pod[current], NodeOf[n], merged) = ~PodIsADuplicate(pod[current], merged)
  BY DEF Filter
<1>4. Filter("PodAntiAffinity", pod[current], NodeOf[n], merged) = AntiAffinityHolds(pod[current], merged)
  BY DEF Filter
<1> QED BY <1>1, <1>2, <1>3, <1>4 DEF NewInTreeRegistry

(***************************************************************************)
(* A pod that findFit gives a node that the filters found is apart from    *)
(* its live replicas and from the pods its terms exclude, those that are   *)
(* only planned included: mergePods loses none of them, and nothing is     *)
(* planned between the filters and the choice of the node.  A pod with a   *)
(* host counts on its host only, also when it is planned elsewhere.        *)
(***************************************************************************)
THEOREM PlannedPodsAreApart == Spec => PlannedPodIsApart
<1>1. ASSUME IndInv, [Next]_vars, NEW p \in Pods, NEW n \in Nodes, FilteredTo(p, n), NEW q \in On(n)
      PROVE  /\ Replicas(pod[p], q) => q.deleting
             /\ q.name # p =>
                  \A t \in pod[p].required \cup pod[p].preferred :
                    ~(/\ t.selector \subseteq q.labels
                      /\ q.ns \in t.namespaces \/ (t.namespaces = {} /\ q.ns = pod[p].ns))
  <2>1. Passes(n) /\ pod[p] = pod[current] /\ n \in ToSet(eligibleNodes)
    BY <1>1, FilteredNodePasses
  <2>a. q \in Listed[n] \cup {r \in PodSetPods(n) : \A l \in Listed[n] : l.ns # r.ns \/ l.name # r.name}
    <3>1. \A r \in Pods : Place(r) = n => GetNodeName(r) = n
      BY <2>1 DEF Place, GetNodeName
    <3>2. {pod[x] : x \in {r \in Pods : Place(r) = n}} \subseteq PodSetPods(n)
      BY <3>1 DEF PodSetPods
    <3> QED BY <1>1, <3>2 DEF On
  <2> DEFINE merged == MergePods(Listed[n], PodSetPods(n))
  <2>2. q \in merged
    BY <2>a, MergedPods
  <2> HIDE DEF merged
  <2>3. ~PodIsADuplicate(pod[p], merged) /\ AntiAffinityHolds(pod[p], merged)
    BY <2>1, PassedFilters DEF merged
  <2>4. pod[p].name = p
    BY <1>1 DEF IndInv, InputsOK
  <2>5. Replicas(pod[p], q) => q.deleting
    BY <2>2, <2>3, ReplicasHaveSameKeys DEF PodIsADuplicate
  <2>6. ASSUME q.name # p, NEW t \in pod[p].required \cup pod[p].preferred
        PROVE  ~(/\ t.selector \subseteq q.labels
                 /\ q.ns \in t.namespaces \/ (t.namespaces = {} /\ q.ns = pod[p].ns))
    <3>1. ~PodMatchesTerm(q, GetNamespaces(pod[p], t), t)
      BY <2>2, <2>3, <2>4, <2>6 DEF AntiAffinityHolds, GetPodAntiAffinityTerms
    <3> QED BY <3>1 DEF PodMatchesTerm, GetNamespaces
  <2> QED BY <2>5, <2>6
<1>2. IndInv /\ [Next]_vars =>
        [\A p \in Pods, n \in Nodes :
           FilteredTo(p, n)
             => \A q \in On(n) :
                  /\ Replicas(pod[p], q) => q.deleting
                  /\ q.name # p =>
                       \A t \in pod[p].required \cup pod[p].preferred :
                         ~(/\ t.selector \subseteq q.labels
                           /\ q.ns \in t.namespaces \/ (t.namespaces = {} /\ q.ns = pod[p].ns))]_vars
  BY <1>1
<1> QED BY <1>2, Invariance, PTL DEF Spec, PlannedPodIsApart

(***************************************************************************)
(* A pod that findFit gives a node that the filters found tolerates its    *)
(* taints against scheduling, and the node has what the containers request *)
(* together and what each init container requests, for pods of any number  *)
(* of containers.                                                          *)
(***************************************************************************)
THEOREM PlannedPodsFit == Spec => PlannedPodFits
<1>1. ASSUME IndInv, [Next]_vars, NEW p \in Pods, NEW n \in Nodes, FilteredTo(p, n)
      PROVE  /\ \A t \in NodeOf[n].taints : t.effect = "NoSchedule" => t.key \in pod[p].tolerations
             /\ \A r \in Resources \ {"ephemeral-storage"} :
                  /\ Together(pod[p], r) <= NodeOf[n].allocatable[r]
                  /\ \A init \in ToSet(pod[p].inits) : init[r] <= NodeOf[n].allocatable[r]
  <2>1. Passes(n) /\ pod[p] = pod[current]
    BY <1>1, FilteredNodePasses
  <2>2. PodFitsNode(pod[p], NodeOf[n])
    BY <2>1, PassedFilters
  <2>3. IsPod(pod[p])
    BY <1>1 DEF IndInv, InputsOK
  <2>4. \A t \in NodeOf[n].taints : t.effect = "NoSchedule" => t.key \in pod[p].tolerations
    BY <2>2 DEF PodFitsNode, ToleratesTaints
  <2>5. ASSUME NEW r \in Resources \ {"ephemeral-storage"}
        PROVE  /\ Together(pod[p], r) <= NodeOf[n].allocatable[r]
               /\ \A init \in ToSet(pod[p].inits) : init[r] <= NodeOf[n].allocatable[r]
    <3> DEFINE a == NodeOf[n].allocatable[r]
               q == ComputePodResourceRequest(pod[p])[r]
    <3>1. a \in Nat
      BY PodAssumption DEF IsRequest
    <3>2. /\ q \in Nat /\ q >= Together(pod[p], r) /\ Together(pod[p], r) \in Nat
          /\ \A init \in ToSet(pod[p].inits) : q >= init[r] /\ init[r] \in Nat
      <4>1. \A init \in ToSet(pod[p].inits) : init \in [Resources -> Nat]
        BY <2>3 DEF IsPod, IsRequest, ToSet
      <4> QED BY <2>3, <4>1, RequestIsLargest, ContainersSum
    <3>3. q <= a
      <4>1. NewResource(NodeOf[n].allocatable)[r] = a
        BY <3>1 DEF NewResource, Add, None
      <4>2. CASE ComputePodResourceRequest(pod[p]) = None
        BY <3>1, <4>2 DEF None
      <4>3. CASE \A x \in Resources : NewResource(NodeOf[n].allocatable)[x] >= ComputePodResourceRequest(pod[p])[x]
        <5>1. NewResource(NodeOf[n].allocatable)[r] >= q
          BY <4>3
        <5> QED BY <3>1, <3>2, <4>1, <5>1
      <4> QED BY <2>2, <4>2, <4>3 DEF PodFitsNode
    <3> HIDE DEF q, a
    <3>4. Together(pod[p], r) <= a
      BY <3>1, <3>2, <3>3
    <3>5. \A init \in ToSet(pod[p].inits) : init[r] <= a
      BY <3>1, <3>2, <3>3
    <3> QED BY <3>4, <3>5 DEF a
  <2> QED BY <2>4, <2>5
<1>2. IndInv /\ [Next]_vars =>
        [\A p \in Pods, n \in Nodes :
           FilteredTo(p, n)
             => /\ \A t \in NodeOf[n].taints : t.effect = "NoSchedule" => t.key \in pod[p].tolerations
                /\ \A r \in Resources \ {"ephemeral-storage"} :
                     /\ Together(pod[p], r) <= NodeOf[n].allocatable[r]
                     /\ \A init \in ToSet(pod[p].inits) : init[r] <= NodeOf[n].allocatable[r]]_vars
  BY <1>1
<1> QED BY <1>2, Invariance, PTL DEF Spec, PlannedPodFits

-----------------------------------------------------------------------------
(* PredicateHandler does what PodSetPlanner says of a request.             *)

\* The pods still to do are listed once and have no answer yet, and the one being
\* scheduled is the first.
TodoOK ==
  /\ IsInjective(todo)
  /\ scheduledPod \in ToSet(todo) => scheduledPod = current
  /\ \A p \in ToSet(todo) : assignmentMap[p] = NoNode

\* The pod that is filtered or scored is alive, and the one being scheduled is
\* scored on the nodes it is offered.
ScoredOK ==
  /\ step \in {"filter", "score"} => ~Gone(current)
  /\ step = "score" /\ current = scheduledPod => ToSet(filteredNodes) = offered

\* The pods after the first: the others, in the same order.
LEMMA TailOfTodo ==
  ASSUME Types, todo # <<>>, TodoOK
  PROVE  /\ IsInjective(Tail(todo)) /\ ToSet(Tail(todo)) = ToSet(todo) \ {current}
         /\ current \in ToSet(todo) /\ ToSet(todo) \subseteq Pods
<1> DEFINE n == Len(todo)
           t == Tail(todo)
<1>1. /\ todo \in Seq(Pods) /\ n \in Nat /\ n >= 1 /\ current = todo[1] /\ t \in Seq(Pods)
      /\ DOMAIN todo = 1 .. n
  BY LenProperties, HeadTailProperties, EmptySeq DEF Types, current
<1>2. Len(t) = n - 1 /\ DOMAIN t = 1 .. n - 1 /\ \A i \in 1 .. n - 1 : t[i] = todo[i + 1]
  BY <1>1, LenProperties, HeadTailProperties
<1>3. \A i, j \in 1 .. n : todo[i] = todo[j] => i = j
  BY <1>1 DEF TodoOK, IsInjective
<1> HIDE DEF n, t
<1>4. \A i, j \in 1 .. n - 1 : t[i] = t[j] => i = j
  <2>1. ASSUME NEW i \in 1 .. n - 1, NEW j \in 1 .. n - 1, t[i] = t[j] PROVE i = j
    <3>1. i + 1 \in 1 .. n /\ j + 1 \in 1 .. n /\ todo[i + 1] = todo[j + 1]
      BY <1>1, <1>2, <2>1
    <3> QED BY <1>3, <3>1, <1>1
  <2> QED BY <2>1
<1>5. IsInjective(t)
  BY <1>2, <1>4 DEF IsInjective
<1>6. ToSet(todo) = {todo[i] : i \in 1 .. n} /\ ToSet(t) = {t[i] : i \in 1 .. n - 1}
  BY <1>1, <1>2 DEF ToSet
<1>7. ToSet(t) \subseteq ToSet(todo) \ {current}
  <2>1. ASSUME NEW i \in 1 .. n - 1 PROVE t[i] \in ToSet(todo) /\ t[i] # current
    <3>1. i + 1 \in 1 .. n /\ 1 \in 1 .. n /\ i + 1 # 1
      BY <1>1
    <3> QED BY <1>1, <1>2, <1>3, <1>6, <3>1
  <2> QED BY <1>6, <2>1
<1>8. ToSet(todo) \ {current} \subseteq ToSet(t)
  <2>1. ASSUME NEW i \in 1 .. n, todo[i] # current PROVE todo[i] \in ToSet(t)
    <3>1. i - 1 \in 1 .. n - 1 /\ (i - 1) + 1 = i
      BY <1>1, <2>1
    <3> QED BY <1>2, <1>6, <3>1
  <2> QED BY <1>6, <2>1
<1>9. current \in ToSet(todo) /\ ToSet(todo) \subseteq Pods
  BY <1>1, <1>6
<1> QED BY <1>5, <1>7, <1>8, <1>9 DEF t

\* The members of a finite set, listed.
LEMMA SetToSeqRange ==
  ASSUME NEW S, IsFiniteSet(S)
  PROVE  ToSet(SetToSeq(S)) = S
<1> DEFINE n == Cardinality(S)
           s == SetToSeq(S)
<1>1. n \in Nat /\ ExistsBijection(1 .. n, S)
  BY FS_CardinalityType
<1>2. PICK f \in [1 .. n -> S] : IsInjective(f)
  BY <1>1 DEF ExistsBijection, Bijection, Injection, IsInjective
<1>3. s \in [1 .. n -> S] /\ IsInjective(s)
  BY <1>2 DEF SetToSeq
<1> HIDE DEF s
<1>4. s \in Injection(1 .. n, S)
  BY <1>3 DEF Injection, IsInjective
<1>5. Cardinality(1 .. n) = n
  BY <1>1, FS_Interval
<1>6. s \in Surjection(1 .. n, S)
  BY <1>4, <1>5, FS_Injection
<1>7. ToSet(s) = {s[i] : i \in 1 .. n}
  BY <1>3 DEF ToSet
<1>8. S \subseteq ToSet(s)
  BY <1>6, <1>7 DEF Surjection
<1>9. ToSet(s) \subseteq S
  BY <1>3, <1>7
<1> QED BY <1>8, <1>9 DEF s

\* Both hold throughout.
LEMMA TodoAndScoredInit == Init => TodoOK /\ ScoredOK
<1> SUFFICES ASSUME Init PROVE TodoOK /\ ScoredOK
  OBVIOUS
<1>1. /\ todo = PodList /\ step = "plan" /\ scheduledPod \in {Head(PodList), NoPod}
      /\ \A p \in Pods : assignmentMap[p] = NoNode
  BY DEF Init
<1>2. NoPod \notin ToSet(PodList) /\ ToSet(PodList) = Pods
  BY HandlerAssumption DEF Pods
<1> QED BY <1>1, <1>2, PodAssumption DEF TodoOK, ScoredOK, current

\* The pods move up by one, and the next one's turn begins.
LEMMA TodoMovesUp ==
  ASSUME IndInv, TodoOK, todo # <<>>, todo' = Tail(todo), scheduledPod' = scheduledPod,
         \A p \in Pods \ {current} : assignmentMap'[p] = assignmentMap[p],
         step' \notin {"filter", "score"}
  PROVE  TodoOK' /\ ScoredOK'
<1>1. /\ IsInjective(todo') /\ ToSet(todo') = ToSet(todo) \ {current}
      /\ ToSet(todo) \subseteq Pods
  BY TailOfTodo DEF IndInv
<1>2. scheduledPod' \notin ToSet(todo')
  BY <1>1 DEF TodoOK
<1>3. \A p \in ToSet(todo') : assignmentMap'[p] = NoNode
  BY <1>1 DEF TodoOK
<1> QED BY <1>1, <1>2, <1>3 DEF TodoOK, ScoredOK

\* No step disturbs either.
LEMMA TodoAndScoredNext == IndInv /\ TodoOK /\ ScoredOK /\ [Next]_vars => TodoOK' /\ ScoredOK'
<1>1. SUFFICES ASSUME IndInv, TodoOK, ScoredOK, [Next]_vars PROVE TodoOK' /\ ScoredOK'
  OBVIOUS
<1>2. ASSUME todo' = todo, scheduledPod' = scheduledPod, assignmentMap' = assignmentMap
      PROVE  TodoOK' /\ current' = current
  BY <1>1, <1>2 DEF TodoOK, current
<1>3. \A p : pod' = pod => (Gone(p)' <=> Gone(p))
  BY DEF Gone
<1>4. CASE SkipPod \/ SelectNoNode \/ \E n \in Nodes : SelectNode(n)
  <2>1. todo # <<>> /\ todo' = Tail(todo) /\ scheduledPod' = scheduledPod /\ step' = "plan"
    BY <1>1, <1>4 DEF SkipPod, SelectNoNode, SelectNode, inputs, IndInv, StepsOK
  <2>2. \A p \in Pods \ {current} : assignmentMap'[p] = assignmentMap[p]
    <3>1. assignmentMap \in [Pods -> MaybeNode]
      BY <1>1 DEF IndInv, Types
    <3> QED BY <1>4, <3>1 DEF SkipPod, SelectNoNode, SelectNode, plans
  <2> QED BY <1>1, <2>1, <2>2, TodoMovesUp
<1>5. CASE TakeOffer
  <2>1. /\ pod' = pod /\ todo' = todo /\ scheduledPod' = scheduledPod /\ offered' = offered
        /\ step' = "score" /\ filteredNodes' = SetToSeq(offered) /\ ~Gone(current)
        /\ assignmentMap' = assignmentMap
    BY <1>5 DEF TakeOffer, inputs, plans
  <2>2. IsFiniteSet(offered)
    BY <1>1, HandlerAssumption, FS_Subset DEF IndInv, Types
  <2>3. ToSet(filteredNodes') = offered
    BY <2>1, <2>2, SetToSeqRange
  <2> QED BY <1>2, <1>3, <2>1, <2>3 DEF ScoredOK
<1>6. CASE StartFilters
  <2>1. /\ pod' = pod /\ todo' = todo /\ scheduledPod' = scheduledPod /\ step' = "filter"
        /\ ~Gone(current) /\ assignmentMap' = assignmentMap
    BY <1>6 DEF StartFilters, inputs, plans
  <2> QED BY <1>2, <1>3, <2>1 DEF ScoredOK
<1>7. CASE FiltersDone
  <2>1. /\ pod' = pod /\ scheduledPod' = scheduledPod /\ step = "filter"
        /\ assignmentMap' = assignmentMap
        /\ \/ todo' = Tail(todo) /\ step' = "plan"
           \/ todo' = todo /\ step' = "score"
    BY <1>7 DEF FiltersDone, inputs, plans
  <2>2. todo # <<>> /\ current # scheduledPod /\ ~Gone(current)
    BY <1>1, <2>1 DEF IndInv, StepsOK, ScoredOK
  <2>3. CASE todo' = Tail(todo) /\ step' = "plan"
    BY <1>1, <2>1, <2>2, <2>3, TodoMovesUp
  <2>4. CASE todo' = todo /\ step' = "score"
    BY <1>2, <1>3, <2>1, <2>2, <2>4 DEF ScoredOK
  <2> QED BY <2>1, <2>3, <2>4
<1>8. CASE Return
  <2>1. /\ todo' = todo /\ scheduledPod' = scheduledPod /\ step' = "done"
        /\ assignmentMap' = assignmentMap
    BY <1>8 DEF Return, inputs, plans
  <2> QED BY <1>2, <2>1 DEF ScoredOK
<1>9. CASE Expire \/ UNCHANGED vars
  <2>1. /\ pod' = pod /\ todo' = todo /\ scheduledPod' = scheduledPod /\ offered' = offered
        /\ step' = step /\ filteredNodes' = filteredNodes /\ assignmentMap' = assignmentMap
    BY <1>9 DEF Expire, vars, inputs, plans
  <2> QED BY <1>1, <1>2, <1>3, <2>1 DEF ScoredOK
<1>10. ASSUME NEW w \in Workers, Worker(w) PROVE TodoOK' /\ ScoredOK'
  <2>1. UNCHANGED worked /\ worker[w].step # "done"
    BY <1>10 DEF Worker, TakeChunk, CheckPiece, CheckPieceFails, LockSlice, AppendNode
  <2>2. /\ pod' = pod /\ todo' = todo /\ scheduledPod' = scheduledPod /\ step' = step
        /\ assignmentMap' = assignmentMap
    BY <2>1 DEF worked, inputs, plans
  <2>3. step = "filter"
    BY <1>1, <2>1, WorkerFilters
  <2> QED BY <1>1, <1>2, <1>3, <2>2, <2>3 DEF ScoredOK
<1> QED BY <1>1, <1>4, <1>5, <1>6, <1>7, <1>8, <1>9, <1>10 DEF Next, BuildPlan

\* A function of the one request.
LEMMA RequestFunction ==
  ASSUME NEW x, NEW y
  PROVE  /\ ForRequest(x)[request] = x
         /\ [ForRequest(x) EXCEPT ![request] = y] = ForRequest(y)
BY DEF ForRequest

\* What no step changes looks the same to the planner.
LEMMA InputsStay ==
  ASSUME UNCHANGED inputs
  PROVE  /\ listedPods' = listedPods /\ plannerTaints' = plannerTaints
         /\ scheduledPod' = scheduledPod /\ offered' = offered
         /\ eligibleNodes' = eligibleNodes /\ ToSet(eligibleNodes)' = ToSet(eligibleNodes)
         /\ \A p : Gone(p)' <=> Gone(p)
BY DEF inputs, listedPods, plannerTaints, Gone

\* A step that the planner does not see.
LEMMA Invisible ==
  ASSUME UNCHANGED inputs, UNCHANGED plans, plannerTodo' = plannerTodo, plannerStep' = plannerStep, plannerCurrent' = plannerCurrent,
         step' = "done" <=> step = "done"
  PROVE  UNCHANGED Planner!vars
BY InputsStay
   DEF plans, Planner!vars, Planner!plannerVars, Planner!callVars, Planner!countVars, ForRequest

\* The nodes that are eligible there are those that are here.
LEMMA EligibleThere ==
  ASSUME Types
  PROVE  Planner!GetEligibleNodes = ToSet(eligibleNodes)
<1>1. ToSet(eligibleNodes) \subseteq Nodes
  BY DEF Types, ToSet
<1>2. \A n \in Nodes : /\ "NoSchedule" \notin plannerTaints[n] <=> n \in ToSet(eligibleNodes)
                       /\ "PreferNoSchedule" \notin plannerTaints[n]
  BY DEF plannerTaints
<1> QED BY <1>1, <1>2 DEF Planner!GetEligibleNodes

\* The planner's request at its next pod.
LEMMA AtNextPod ==
  ASSUME IndInv, TodoOK, step = "plan", todo # <<>>, ~Gone(current)
  PROVE  /\ current \in Pods /\ current \in plannerTodo
         /\ Planner!IsNext(request, current)
         /\ Planner!GetNodeName(request, current) = GetNodeName(current)
<1>1. current \in ToSet(todo) /\ current \in Pods
  BY TailOfTodo DEF IndInv
<1>2. current \in plannerTodo
  BY <1>1 DEF plannerTodo
<1>3. plannerStep = "plan"
  BY DEF plannerStep
<1>4. scheduledPod \in plannerTodo => current = scheduledPod
  BY DEF plannerTodo, TodoOK
<1>5. Planner!IsNext(request, current)
  BY <1>2, <1>3, <1>4, RequestFunction DEF Planner!IsNext
<1>6. listedPods[current].node = hostIP[current]
  BY <1>1 DEF listedPods
<1>7. Planner!GetNodeName(request, current) = GetNodeName(current)
  BY <1>6, EligibleThere, RequestFunction DEF Planner!GetNodeName, GetNodeName, IndInv
<1> QED BY <1>1, <1>2, <1>5, <1>7

\* The filters begin, or the offer is taken: the planner looks for candidates.
LEMMA BeginsToScore ==
  ASSUME IndInv, TodoOK, TakeOffer \/ StartFilters
  PROVE  PlannerStep
<1>1. /\ step = "plan" /\ todo # <<>> /\ GetNodeName(current) = NoNode /\ ~Gone(current)
      /\ UNCHANGED inputs /\ podToNodeMap' = podToNodeMap /\ assignmentMap' = assignmentMap
      /\ todo' = todo /\ step' \in {"filter", "score"}
  BY DEF TakeOffer, StartFilters, plans
<1>2. /\ plannerStep = "plan" /\ plannerStep' = "score" /\ plannerCurrent' = current
      /\ plannerTodo' = plannerTodo /\ step' # "done" /\ step # "done"
  BY <1>1, InputsStay DEF plannerStep, plannerCurrent, plannerTodo, current
<1>3. /\ current \in Pods /\ Planner!IsNext(request, current)
      /\ Planner!GetNodeName(request, current) = NoNode
  BY <1>1, AtNextPod
<1>4. Planner!FindCandidates(request, current)
  BY <1>1, <1>2, <1>3, InputsStay, RequestFunction
     DEF Planner!FindCandidates, Planner!plannerVars, Planner!countVars, ForRequest
<1> QED BY <1>3, <1>4 DEF PlannerStep

\* The pod has a node or is going away: the planner keeps the node, or has left the
\* pod out already.
LEMMA SkipsPod ==
  ASSUME IndInv, TodoOK, SkipPod
  PROVE  PlannerStep \/ UNCHANGED Planner!vars
<1>1. /\ step = "plan" /\ todo # <<>> /\ todo' = Tail(todo) /\ step' = "plan"
      /\ GetNodeName(current) # NoNode \/ Gone(current)
      /\ Gone(current) => assignmentMap' = assignmentMap
      /\ ~Gone(current) =>
           assignmentMap' = [assignmentMap EXCEPT ![current] = GetNodeName(current)]
      /\ UNCHANGED inputs /\ podToNodeMap' = podToNodeMap
  BY DEF SkipPod
<1>2. ToSet(todo') = ToSet(todo) \ {current} /\ current \in ToSet(todo) /\ current \in Pods
  BY <1>1, TailOfTodo DEF IndInv
<1>3. plannerStep = "plan" /\ plannerStep' = "plan" /\ plannerCurrent' = plannerCurrent
  BY <1>1 DEF plannerStep, plannerCurrent
<1>4. CASE Gone(current)
  <2>1. plannerTodo' = plannerTodo
    BY <1>1, <1>2, <1>4, InputsStay DEF plannerTodo
  <2> QED BY <1>1, <1>3, <1>4, <2>1, Invisible DEF plans
<1>5. CASE ~Gone(current)
  <2>1. plannerTodo' = plannerTodo \ {current}
    BY <1>1, <1>2, <1>5, InputsStay DEF plannerTodo
  <2>2. /\ Planner!IsNext(request, current)
        /\ Planner!GetNodeName(request, current) = GetNodeName(current)
    BY <1>1, <1>5, AtNextPod
  <2>3. Planner!Planned(request, current, GetNodeName(current))
    BY <1>1, <1>5, <2>1, InputsStay, RequestFunction
       DEF Planner!Planned, Planner!countVars, ForRequest
  <2>4. Planner!KeepNode(request, current)
    BY <1>1, <1>3, <1>5, <2>2, <2>3 DEF Planner!KeepNode, ForRequest
  <2> QED BY <1>2, <2>4 DEF PlannerStep
<1> QED BY <1>4, <1>5

\* The pod that was scored leaves the list, with node n or, if that is NoNode, none.
LEMMA ScoredPod ==
  ASSUME IndInv, TodoOK, ScoredOK, step \in {"filter", "score"}, step' = "plan",
         todo' = Tail(todo), UNCHANGED inputs, NEW n \in MaybeNode,
         assignmentMap' = [assignmentMap EXCEPT ![current] = n]
  PROVE  /\ plannerStep = "score" /\ plannerStep' = "plan" /\ plannerCurrent = current
         /\ plannerCurrent' = Planner!AnyPod /\ current \in Pods
         /\ Planner!Planned(request, current, n)
<1>1. todo # <<>> /\ ~Gone(current)
  BY DEF IndInv, StepsOK, ScoredOK
<1>2. /\ ToSet(todo') = ToSet(todo) \ {current} /\ current \in ToSet(todo) /\ current \in Pods
      /\ ToSet(todo) \subseteq Pods
  BY <1>1, TailOfTodo DEF IndInv
<1>3. plannerStep = "score" /\ plannerStep' = "plan"
  BY DEF plannerStep
<1>4. plannerCurrent = current /\ plannerCurrent' = Planner!AnyPod
  BY <1>3 DEF plannerCurrent, Planner!AnyPod
<1>5. plannerTodo' = plannerTodo \ {current}
  BY <1>2, InputsStay DEF plannerTodo
<1>6. Planner!Planned(request, current, n)
  BY <1>5, InputsStay, RequestFunction DEF Planner!Planned, Planner!countVars, ForRequest
<1> QED BY <1>2, <1>3, <1>4, <1>6

\* findFit takes one of the planner's candidates.
LEMMA SelectsNode ==
  ASSUME IndInv, TodoOK, ScoredOK, NEW n \in Nodes, SelectNode(n)
  PROVE  PlannerStep
<1>1. /\ step = "score" /\ n \in ToSet(filteredNodes)
      /\ ToSet(filteredNodes) \subseteq ToSet(eligibleNodes)
      /\ podToNodeMap' = [podToNodeMap EXCEPT ![current] = n]
      /\ assignmentMap' = [assignmentMap EXCEPT ![current] = n]
      /\ todo' = Tail(todo) /\ step' = "plan" /\ UNCHANGED inputs
  BY DEF SelectNode, RunScorePredicates
<1>2. /\ plannerStep = "score" /\ plannerStep' = "plan" /\ plannerCurrent = current
      /\ plannerCurrent' = Planner!AnyPod
      /\ Planner!Planned(request, current, n)
  BY <1>1, ScoredPod DEF MaybeNode
<1>3. n \in Planner!Candidates(request, current)
  <2>1. CASE current = scheduledPod
    <3>1. offered = ToSet(filteredNodes)
      BY <1>1, <2>1 DEF ScoredOK
    <3> QED BY <1>1, <2>1, <3>1, RequestFunction DEF Planner!Candidates
  <2>2. CASE current # scheduledPod
    BY <1>1, <2>2, RequestFunction DEF Planner!Candidates
  <2> QED BY <2>1, <2>2
<1>4. Planner!SelectNode(request, n)
  BY <1>1, <1>2, <1>3, RequestFunction DEF Planner!SelectNode
<1> QED BY <1>4 DEF PlannerStep

\* No node passed, or none was scored in time: the planner selects none.
LEMMA SelectsNoNode ==
  ASSUME IndInv, TodoOK, ScoredOK, step \in {"filter", "score"}, step' = "plan",
         todo' = Tail(todo), UNCHANGED inputs, UNCHANGED plans
  PROVE  PlannerStep
<1>1. assignmentMap' = [assignmentMap EXCEPT ![current] = NoNode] /\ NoNode \in MaybeNode
  <2>1. assignmentMap[current] = NoNode /\ assignmentMap \in [Pods -> MaybeNode]
    BY TailOfTodo DEF IndInv, StepsOK, TodoOK, Types
  <2> QED BY <2>1 DEF plans, MaybeNode
<1>2. /\ plannerStep = "score" /\ plannerStep' = "plan" /\ plannerCurrent = current
      /\ plannerCurrent' = Planner!AnyPod
      /\ Planner!Planned(request, current, NoNode)
  BY <1>1, ScoredPod
<1>3. Planner!SelectNoNode(request)
  BY <1>2, RequestFunction DEF Planner!SelectNoNode, plans
<1> QED BY <1>3 DEF PlannerStep

\* The last pod is planned: the planner answers and releases the mutex.
LEMMA Answers ==
  ASSUME Return
  PROVE  PlannerStep
<1>1. /\ step = "plan" /\ todo = <<>> /\ step' = "done" /\ UNCHANGED inputs
      /\ podToNodeMap' = podToNodeMap /\ assignmentMap' = assignmentMap /\ todo' = todo
  BY DEF Return, plans
<1>2. plannerStep = "plan" /\ plannerStep' = "answered" /\ plannerCurrent' = plannerCurrent
  BY <1>1 DEF plannerStep, plannerCurrent
<1>3. plannerTodo = {} /\ plannerTodo' = plannerTodo
  BY <1>1, InputsStay DEF plannerTodo, ToSet
<1>4. Planner!Answer(request)
  BY <1>1, <1>2, <1>3, InputsStay, RequestFunction
     DEF Planner!Answer, Planner!countVars, ForRequest
<1> QED BY <1>4 DEF PlannerStep

(***************************************************************************)
(* The parallel filters of BuildPlan implement the open choice of          *)
(* PodSetPlanner's BuildPlan: every step of the request's goroutine and of *)
(* its workers is a step of the request there, or changes nothing it sees. *)
(* What is proved of PodSetPlanner's requests holds with the filters in    *)
(* the place of the choice.                                                *)
(***************************************************************************)
THEOREM Implements == Spec => ImplementsPlanner
<1>1. ASSUME IndInv, TodoOK, ScoredOK, [Next]_vars
      PROVE  PlannerStep \/ UNCHANGED Planner!vars
  <2>1. ASSUME UNCHANGED inputs, UNCHANGED plans, todo' = todo,
               plannerStep' = plannerStep, step' = "done" <=> step = "done"
        PROVE  UNCHANGED Planner!vars
    <3>1. plannerTodo' = plannerTodo /\ plannerCurrent' = plannerCurrent
      BY <2>1, InputsStay DEF plannerTodo, plannerCurrent, current
    <3> QED BY <2>1, <3>1, Invisible
  <2>2. CASE SkipPod
    BY <1>1, <2>2, SkipsPod
  <2>3. CASE TakeOffer \/ StartFilters
    BY <1>1, <2>3, BeginsToScore
  <2>4. CASE FiltersDone
    <3>1. /\ step = "filter" /\ UNCHANGED inputs /\ UNCHANGED plans
          /\ \/ todo' = Tail(todo) /\ step' = "plan"
             \/ todo' = todo /\ step' = "score"
      BY <2>4 DEF FiltersDone
    <3>2. CASE todo' = Tail(todo) /\ step' = "plan"
      BY <1>1, <3>1, <3>2, SelectsNoNode
    <3>3. CASE todo' = todo /\ step' = "score"
      <4>1. plannerStep' = plannerStep
        BY <3>1, <3>3 DEF plannerStep
      <4> QED BY <2>1, <3>1, <3>3, <4>1
    <3> QED BY <3>1, <3>2, <3>3
  <2>5. ASSUME NEW n \in Nodes, SelectNode(n) PROVE PlannerStep
    BY <1>1, <2>5, SelectsNode
  <2>6. CASE SelectNoNode
    <3>1. /\ step = "score" /\ step' = "plan" /\ todo' = Tail(todo) /\ UNCHANGED inputs
          /\ UNCHANGED plans
      BY <2>6 DEF SelectNoNode
    <3> QED BY <1>1, <3>1, SelectsNoNode
  <2>7. CASE Return
    BY <2>7, Answers
  <2>8. CASE Expire \/ (\E w \in Workers : Worker(w)) \/ UNCHANGED vars
    <3>1. UNCHANGED inputs /\ UNCHANGED plans /\ todo' = todo /\ step' = step
      BY <2>8 DEF Expire, Worker, TakeChunk, CheckPiece, CheckPieceFails, LockSlice, AppendNode,
                  worked, vars
    <3>2. plannerStep' = plannerStep
      BY <3>1 DEF plannerStep
    <3> QED BY <2>1, <3>1, <3>2
  <2> QED BY <1>1, <2>2, <2>3, <2>4, <2>5, <2>6, <2>7, <2>8 DEF Next, BuildPlan
<1>2. ASSUME Init
      PROVE  /\ plannerStep = "plan" /\ assignmentMap = Planner!NoNodes
             /\ plannerTodo = {p \in Pods : listedPods[p].phase # "Failed" /\ ~listedPods[p].deleting}
  <2>1. step = "plan" /\ ToSet(todo) = Pods
    BY <1>2 DEF Init, Pods
  <2>2. assignmentMap = Planner!NoNodes
    BY <1>2 DEF Init, Planner!NoNodes
  <2>3. \A p \in Pods : listedPods[p].phase # "Failed" /\ ~listedPods[p].deleting <=> ~Gone(p)
    BY DEF listedPods, Gone
  <2> QED BY <2>1, <2>2, <2>3 DEF plannerStep, plannerTodo
<1>3. IndInv /\ TodoOK /\ ScoredOK /\ [Next]_vars => [PlannerStep]_(Planner!vars)
  BY <1>1
<1> QED BY <1>2, <1>3, TodoAndScoredInit, TodoAndScoredNext, Invariance, PTL DEF Spec, ImplementsPlanner
=============================================================================
