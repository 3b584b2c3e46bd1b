------------------- MODULE ScheduleTriggerControllerProofs -------------------
(***************************************************************************)
(* Proofs about ScheduleTriggerController, for any triggers, durations,    *)
(* numbers of edits and of restarts.                                       *)
(***************************************************************************)
EXTENDS ScheduleTriggerController, TLAPS

\* With references map and durations dur, the timer of k is what t asks for.
Matches(map, dur, k, t) ==
  /\ ~t.exists \/ t.quiet = NoLabel => map[k] = NoRef
  /\ t.exists /\ t.quiet \in Durations => map[k] # NoRef /\ dur[map[k]] = t.quiet

\* Two readings of a trigger ask for the same timer.
SameView(t, u) == t.exists = u.exists /\ (t.exists => t.quiet = u.quiet)

Busy(k) == worker.step # "idle" /\ worker.key = k

(***************************************************************************)
(* For a trigger that is not queued, the worker is about to give it the    *)
(* timer the cache asks for, or it has it already.                         *)
(***************************************************************************)
CaughtUp ==
  \A k \in Keys : k \notin queue =>
    /\ Busy(k) => SameView(worker.seen, cache[k])
    /\ ~Busy(k) => Matches(scheduleTriggerMap, duration, k, cache[k])

\* What the worker does next is what it read.
WorkerOK ==
  /\ worker.step = "delete" => ~worker.seen.exists
  /\ worker.step = "allocate" => worker.seen.exists
  /\ worker.step = "quit" => ~worker.seen.exists \/ worker.seen.quiet = NoLabel

\* A copy of a trigger is older than the trigger, or is the trigger.
NotAhead(t, k) ==
  /\ t.version <= trigger[k].version
  /\ t.exists /\ t.version = trigger[k].version => t = trigger[k]

CopiesNotAhead ==
  /\ \A k \in Keys : NotAhead(cache[k], k)
  /\ \A r \in Refs : goroutine[r] = "update" =>
       /\ NotAhead(seen[r], owner[r])
       /\ seen[r].exists
       /\ seen[r].state = "Planning"

IndInv == TypeOK /\ OneTimerPerTrigger /\ CaughtUp /\ WorkerOK /\ CopiesNotAhead

-----------------------------------------------------------------------------

\* There is a key.
LEMMA AnyKeyInKeys == AnyKey \in Keys
BY ControllerAssumption DEF AnyKey

\* A manager that starts has no timers and knows of no trigger.
LEMMA InitInv == Init => IndInv
BY AnyKeyInKeys, ControllerAssumption
   DEF Init, IndInv, TypeOK, OneTimerPerTrigger, CaughtUp, WorkerOK, Matches, Busy,
       CopiesNotAhead, NotAhead, SameView, Absent, IdleWorker, Triggers, Labels

\* The constants the type invariant rests on.
LEMMA TypeFacts ==
  /\ \A v \in Nat : Absent(v) \in Triggers
  /\ IdleWorker \in [step : {"idle", "delete", "allocate", "quit"}, key : Keys, seen : Triggers]
  /\ IdleWorker.step = "idle"
BY AnyKeyInKeys DEF Absent, Triggers, Labels, IdleWorker

\* A user's edit leaves the controller alone and makes every copy older.
LEMMA EditInv ==
  ASSUME IndInv, NEW k \in Keys, NEW t \in Triggers, t.version = trigger[k].version + 1,
         trigger' = [trigger EXCEPT ![k] = t], UNCHANGED controllerVars
  PROVE  IndInv'
<1> USE DEF IndInv, controllerVars, timerVars, routineVars
<1>1. TypeOK'
  BY DEF TypeOK
<1>2. OneTimerPerTrigger' /\ CaughtUp' /\ WorkerOK'
  BY DEF OneTimerPerTrigger, CaughtUp, Busy, SameView, Matches, WorkerOK
<1>3. ASSUME NEW j \in Keys, NEW u \in Triggers, NotAhead(u, j) PROVE NotAhead(u, j)'
  BY <1>3 DEF NotAhead, TypeOK, Triggers
<1>4. CopiesNotAhead'
  BY <1>3 DEF CopiesNotAhead, TypeOK
<1> QED BY <1>1, <1>2, <1>4

\* Edits and deletions of triggers, and new pods.
LEMMA UsersInv ==
  ASSUME IndInv, Users
  PROVE  IndInv'
<1>1. ASSUME NEW k \in Keys, NEW s \in {"Planning", "Schedule"}, NEW q \in Labels, Apply(k, s, q)
      PROVE  IndInv'
  <2> DEFINE t == [exists |-> TRUE, state |-> s, quiet |-> q, version |-> trigger[k].version + 1]
  <2>1. t \in Triggers /\ t.version = trigger[k].version + 1
    BY DEF IndInv, TypeOK, Triggers
  <2>2. trigger' = [trigger EXCEPT ![k] = t] /\ UNCHANGED controllerVars
    BY <1>1 DEF Apply
  <2> HIDE DEF t
  <2> QED BY <2>1, <2>2, EditInv
<1>2. ASSUME NEW k \in Keys, DeleteTrigger(k) PROVE IndInv'
  <2> DEFINE t == Absent(trigger[k].version + 1)
  <2>1. t \in Triggers /\ t.version = trigger[k].version + 1
    BY DEF IndInv, TypeOK, Triggers, Absent, Labels
  <2>2. trigger' = [trigger EXCEPT ![k] = t] /\ UNCHANGED controllerVars
    BY <1>2 DEF DeleteTrigger
  <2> HIDE DEF t
  <2> QED BY <2>1, <2>2, EditInv
<1> QED BY <1>1, <1>2 DEF Users

\* The watch queues a trigger whose copy it changes, so nothing is asked of it yet.
LEMMA CacheSyncInv ==
  ASSUME IndInv, NEW k \in Keys, CacheSync(k)
  PROVE  IndInv'
<1> USE DEF IndInv, CacheSync, timerVars, routineVars
<1>1. TypeOK' /\ OneTimerPerTrigger' /\ WorkerOK'
  BY DEF TypeOK, OneTimerPerTrigger, WorkerOK
<1>2. ASSUME NEW j \in Keys, j \notin queue'
      PROVE  /\ Busy(j)' => SameView(worker'.seen, cache'[j])
             /\ ~Busy(j)' => Matches(scheduleTriggerMap', duration', j, cache'[j])
  <2>0. j \notin queue
    BY <1>2
  <2>1. CASE j # k
    BY <2>0, <2>1 DEF TypeOK, CaughtUp, Busy, SameView, Matches
  <2>2. CASE j = k
    <3>1. ~cache[k].exists /\ ~cache'[k].exists
      BY <1>2, <2>2 DEF TypeOK
    <3> QED BY <2>0, <2>2, <3>1 DEF TypeOK, CaughtUp, Busy, SameView, Matches, Triggers
  <2> QED BY <2>1, <2>2
<1>3. CaughtUp'
  BY <1>2 DEF CaughtUp
<1>4. CopiesNotAhead'
  BY DEF TypeOK, CopiesNotAhead, NotAhead, Triggers
<1> QED BY <1>1, <1>3, <1>4

\* The resync queues a trigger.
LEMMA ResyncInv ==
  ASSUME IndInv, NEW k \in Keys, Resync(k)
  PROVE  IndInv'
BY DEF Resync, IndInv, TypeOK, OneTimerPerTrigger, CaughtUp, Busy, SameView,
   Matches, WorkerOK, CopiesNotAhead, NotAhead, timerVars, routineVars

\* An expiry changes neither the map nor a duration.
LEMMA TimerFiresInv ==
  ASSUME IndInv, NEW r \in Refs, TimerFires(r)
  PROVE  IndInv'
BY DEF TimerFires, IndInv, TypeOK, OneTimerPerTrigger, CaughtUp, Busy, SameView,
   Matches, WorkerOK, CopiesNotAhead, NotAhead, timerVars, routineVars

\* The goroutine of a timer never changes the map, nor who owns a timer.
LEMMA GoroutineInv ==
  ASSUME IndInv, NEW r \in Refs, Goroutine(r), ~QuitReceived(r)
  PROVE  IndInv'
<1> USE DEF IndInv, timerVars, routineVars
<1>1. CASE TickReceived(r)
  <2> USE <1>1 DEF TickReceived
  <2>1. TypeOK' /\ OneTimerPerTrigger' /\ WorkerOK'
    BY DEF TypeOK, OneTimerPerTrigger, WorkerOK
  <2>2. CaughtUp' /\ CopiesNotAhead'
    BY DEF TypeOK, CaughtUp, Busy, SameView, Matches, CopiesNotAhead, NotAhead
  <2> QED BY <2>1, <2>2
<1>2. CASE TransitionGet(r)
  <2>0. /\ goroutine' \in [Refs -> {"none", "select", "get", "update"}]
        /\ seen' \in [Refs -> Triggers]
        /\ \A q \in Refs : goroutine'[q] # "none" => goroutine[q] # "none"
        /\ \A q \in Refs : goroutine[q] # "none" => goroutine'[q] # "none"
    BY <1>2 DEF TransitionGet, ReadTrigger, TypeOK
  <2>1. ReadOnly
    BY <1>2 DEF TransitionGet
  <2>2. TypeOK' /\ WorkerOK'
    BY <2>0, <2>1 DEF TypeOK, ReadOnly, WorkerOK
  <2>3. OneTimerPerTrigger'
    BY <2>0, <2>1 DEF TypeOK, ReadOnly, OneTimerPerTrigger
  <2>4. CaughtUp'
    BY <2>1 DEF ReadOnly, CaughtUp, Busy, SameView, Matches
  <2>5. CopiesNotAhead'
    BY <1>2, <2>1 DEF TransitionGet, ReadTrigger, ReadOnly, TypeOK, CopiesNotAhead, NotAhead
  <2> QED BY <2>2, <2>3, <2>4, <2>5
<1>3. CASE TransitionUpdate(r)
  <2> USE <1>3 DEF TransitionUpdate
  <2> DEFINE k == owner[r]
             t == [exists |-> TRUE, state |-> "Schedule", quiet |-> seen[r].quiet,
                   version |-> trigger[k].version + 1]
  <2>0. /\ k \in Keys /\ t \in Triggers /\ t.version = trigger[k].version + 1
        /\ trigger' = [trigger EXCEPT ![k] = t]
    BY DEF TypeOK, Triggers
  <2> HIDE DEF t
  <2>t. TypeOK'
    <3>1. trigger' \in [Keys -> Triggers]
      BY <2>0 DEF TypeOK
    <3>2. seen' \in [Refs -> Triggers]
      BY TypeFacts DEF TypeOK
    <3> QED BY <3>1, <3>2 DEF TypeOK
  <2>o. OneTimerPerTrigger'
    BY DEF TypeOK, OneTimerPerTrigger
  <2>w. WorkerOK'
    BY DEF WorkerOK
  <2>1. TypeOK' /\ OneTimerPerTrigger' /\ WorkerOK'
    BY <2>t, <2>o, <2>w
  <2>2. CaughtUp'
    BY DEF CaughtUp, Busy, SameView, Matches
  <2>3. ASSUME NEW j \in Keys, NEW u \in Triggers, NotAhead(u, j) PROVE NotAhead(u, j)'
    BY <2>0, <2>3 DEF NotAhead, TypeOK, Triggers
  <2>4. \A q \in Refs : goroutine'[q] = "update" =>
          goroutine[q] = "update" /\ seen'[q] = seen[q] /\ owner'[q] = owner[q]
    BY DEF TypeOK
  <2>5. CopiesNotAhead'
    BY <2>3, <2>4 DEF CopiesNotAhead, TypeOK
  <2> QED BY <2>1, <2>2, <2>5
<1>4. CASE TransitionUpdateFails(r)
  <2> USE <1>4 DEF TransitionUpdateFails, ReadOnly
  <2>1. TypeOK' /\ OneTimerPerTrigger' /\ WorkerOK'
    BY TypeFacts DEF TypeOK, OneTimerPerTrigger, WorkerOK
  <2>2. CaughtUp' /\ CopiesNotAhead'
    BY DEF TypeOK, CaughtUp, Busy, SameView, Matches, CopiesNotAhead, NotAhead
  <2> QED BY <2>1, <2>2
<1> QED BY <1>1, <1>2, <1>3, <1>4 DEF Goroutine

(***************************************************************************)
(* The worker is done with its trigger: the timer is what it read, and the *)
(* timers of the other triggers are as they were.                          *)
(***************************************************************************)
LEMMA DoneInv ==
  ASSUME IndInv, TypeOK', OneTimerPerTrigger', worker.step # "idle", worker' = IdleWorker,
         UNCHANGED <<trigger, cache, queue, seen>>,
         \A r \in Refs : goroutine'[r] = "update" =>
             goroutine[r] = "update" /\ owner'[r] = owner[r],
         Matches(scheduleTriggerMap', duration', worker.key, worker.seen),
         \A k \in Keys : k # worker.key =>
             /\ scheduleTriggerMap'[k] = scheduleTriggerMap[k]
             /\ scheduleTriggerMap[k] # NoRef =>
                  duration'[scheduleTriggerMap[k]] = duration[scheduleTriggerMap[k]]
  PROVE  IndInv'
<1> USE DEF IndInv
<1>1. WorkerOK'
  BY TypeFacts DEF WorkerOK
<1>2. CopiesNotAhead'
  BY DEF CopiesNotAhead, NotAhead
<1>3. ASSUME NEW k \in Keys, k \notin queue'
      PROVE  /\ ~Busy(k)'
             /\ Matches(scheduleTriggerMap', duration', k, cache'[k])
  <2>1. ~Busy(k)'
    BY TypeFacts DEF Busy
  <2>2. CASE k = worker.key
    <3>1. SameView(worker.seen, cache[k])
      BY <1>3, <2>2 DEF CaughtUp, Busy
    <3> QED BY <2>1, <2>2, <3>1 DEF SameView, Matches
  <2>3. CASE k # worker.key
    <3>1. Matches(scheduleTriggerMap, duration, k, cache[k])
      BY <1>3, <2>3 DEF CaughtUp, Busy
    <3> QED BY <2>1, <2>3, <3>1 DEF Matches
  <2> QED BY <2>2, <2>3
<1>4. CaughtUp'
  BY <1>3 DEF CaughtUp
<1> QED BY <1>1, <1>2, <1>4

\* The references of two triggers are different.
LEMMA OwnRef ==
  ASSUME IndInv, NEW k \in Keys, NEW j \in Keys, scheduleTriggerMap[k] # NoRef, j # k
  PROVE  /\ scheduleTriggerMap[k] \in Refs
         /\ scheduleTriggerMap[j] # scheduleTriggerMap[k]
BY DEF IndInv, TypeOK, OneTimerPerTrigger

\* The worker leaves the queue with what the cache holds at that moment.
LEMMA ReconcileGetInv ==
  ASSUME IndInv, NEW k \in Keys, ReconcileGet(k)
  PROVE  IndInv'
<1> USE DEF IndInv, ReconcileGet, timerVars, routineVars
<1>0. /\ worker'.key = k /\ worker'.seen = cache[k] /\ worker'.step \in {"allocate", "delete"}
      /\ worker'.step = "allocate" <=> cache[k].exists
  BY DEF TypeOK, Triggers
<1>1. TypeOK' /\ OneTimerPerTrigger'
  BY DEF TypeOK, OneTimerPerTrigger
<1>2. WorkerOK'
  BY <1>0 DEF WorkerOK
<1>3. CopiesNotAhead'
  BY DEF CopiesNotAhead, NotAhead
<1>4. CaughtUp'
  BY <1>0 DEF CaughtUp, Busy, SameView, Matches
<1> QED BY <1>1, <1>2, <1>3, <1>4

\* The worker finds no timer, or blocks on the quit channel of the one it finds.
LEMMA StopTimerInv ==
  ASSUME IndInv, worker.step \in {"delete", "allocate"}, StopTimer,
         ~worker.seen.exists \/ worker.seen.quiet = NoLabel,
         UNCHANGED <<trigger, cache, queue, crashes>>
  PROVE  IndInv'
<1> USE DEF IndInv, StopTimer, timerVars, routineVars
<1>1. CASE scheduleTriggerMap[worker.key] = NoRef
  <2>1. worker' = IdleWorker
    BY <1>1
  <2>2. TypeOK'
    BY <2>1, TypeFacts DEF TypeOK
  <2>3. OneTimerPerTrigger'
    BY DEF OneTimerPerTrigger
  <2>4. Matches(scheduleTriggerMap', duration', worker.key, worker.seen)
    BY <1>1, ControllerAssumption DEF Matches
  <2> QED BY <2>1, <2>2, <2>3, <2>4, DoneInv
<1>2. CASE scheduleTriggerMap[worker.key] # NoRef
  <2>1. worker' = [step |-> "quit", key |-> worker.key, seen |-> worker.seen]
    BY <1>2
  <2>2. TypeOK' /\ OneTimerPerTrigger' /\ WorkerOK'
    BY <2>1 DEF TypeOK, OneTimerPerTrigger, WorkerOK
  <2>3. CaughtUp' /\ CopiesNotAhead'
    BY <2>1 DEF CaughtUp, Busy, SameView, Matches, CopiesNotAhead, NotAhead
  <2> QED BY <2>2, <2>3
<1> QED BY <1>1, <1>2

\* deleteTimer: the worker found no trigger.
LEMMA DeleteTimerInv ==
  ASSUME IndInv, DeleteTimer
  PROVE  IndInv'
BY StopTimerInv DEF DeleteTimer, IndInv, WorkerOK

\* The goroutine takes the worker's message: its timer and its map entry are gone.
LEMMA QuitReceivedInv ==
  ASSUME IndInv, NEW r \in Refs, QuitReceived(r)
  PROVE  IndInv'
<1> USE DEF IndInv, QuitReceived
<1>0. worker.key \in Keys /\ worker.step # "idle" /\ owner[r] = worker.key
  BY ControllerAssumption DEF TypeOK, OneTimerPerTrigger
<1>1. TypeOK'
  BY TypeFacts, AnyKeyInKeys DEF TypeOK
<1>2. \A k \in Keys : k # worker.key =>
        /\ scheduleTriggerMap'[k] = scheduleTriggerMap[k]
        /\ scheduleTriggerMap[k] # r
  BY <1>0, OwnRef, ControllerAssumption DEF TypeOK
<1>3. OneTimerPerTrigger'
  BY <1>0, <1>2, ControllerAssumption DEF TypeOK, OneTimerPerTrigger
<1>4. Matches(scheduleTriggerMap', duration', worker.key, worker.seen)
  BY <1>0, ControllerAssumption DEF TypeOK, WorkerOK, Matches
<1>5. \A k \in Keys : k # worker.key =>
        /\ scheduleTriggerMap'[k] = scheduleTriggerMap[k]
        /\ scheduleTriggerMap[k] # NoRef =>
             duration'[scheduleTriggerMap[k]] = duration[scheduleTriggerMap[k]]
  BY <1>2 DEF TypeOK
<1>6. \A q \in Refs : goroutine'[q] = "update" =>
         goroutine[q] = "update" /\ owner'[q] = owner[q]
  BY DEF TypeOK
<1>7. worker' = IdleWorker /\ UNCHANGED <<trigger, cache, queue, seen>>
  OBVIOUS
<1> HIDE DEF QuitReceived
<1> QED BY <1>0, <1>1, <1>3, <1>4, <1>5, <1>6, <1>7, DoneInv

\* A reference that is free is in no trigger's map entry.
LEMMA FreeRef ==
  ASSUME IndInv, NEW r \in Refs, goroutine[r] = "none", NEW k \in Keys
  PROVE  scheduleTriggerMap[k] # r
BY ControllerAssumption DEF IndInv, TypeOK, OneTimerPerTrigger

\* A new timer takes a free reference.
LEMMA StartTimerInv ==
  ASSUME IndInv, worker.step = "allocate", NEW r \in Refs, StartTimer(r),
         worker.seen.quiet \in Durations, scheduleTriggerMap[worker.key] = NoRef,
         UNCHANGED <<trigger, cache, queue, crashes>>
  PROVE  IndInv'
<1> USE DEF IndInv, StartTimer
<1>0. worker.key \in Keys /\ r # NoRef /\ worker.seen.exists
  BY ControllerAssumption DEF TypeOK, WorkerOK
<1>1. TypeOK'
  BY <1>0, TypeFacts DEF TypeOK
<1>2. \A k \in Keys : scheduleTriggerMap[k] # r
  BY FreeRef
<1>3. OneTimerPerTrigger'
  <2>1. ASSUME NEW k \in Keys, scheduleTriggerMap'[k] # NoRef
        PROVE  goroutine'[scheduleTriggerMap'[k]] # "none" /\ owner'[scheduleTriggerMap'[k]] = k
    BY <1>0, <1>2, <2>1 DEF TypeOK, OneTimerPerTrigger
  <2>2. ASSUME NEW q \in Refs, goroutine'[q] # "none"
        PROVE  scheduleTriggerMap'[owner'[q]] = q
    <3>1. CASE q = r
      BY <1>0, <3>1 DEF TypeOK
    <3>2. CASE q # r
      <4>1. goroutine[q] # "none" /\ owner'[q] = owner[q] /\ owner[q] \in Keys
        BY <2>2, <3>2 DEF TypeOK
      <4>2. scheduleTriggerMap[owner[q]] = q /\ owner[q] # worker.key
        BY <4>1, ControllerAssumption DEF OneTimerPerTrigger
      <4> QED BY <4>1, <4>2 DEF TypeOK
    <3> QED BY <3>1, <3>2
  <2> QED BY <2>1, <2>2 DEF OneTimerPerTrigger
<1>4. Matches(scheduleTriggerMap', duration', worker.key, worker.seen)
  BY <1>0, ControllerAssumption DEF TypeOK, Matches
<1>5. \A k \in Keys : k # worker.key =>
        /\ scheduleTriggerMap'[k] = scheduleTriggerMap[k]
        /\ scheduleTriggerMap[k] # NoRef =>
             duration'[scheduleTriggerMap[k]] = duration[scheduleTriggerMap[k]]
  BY <1>2 DEF TypeOK
<1>6. \A q \in Refs : goroutine'[q] = "update" =>
         goroutine[q] = "update" /\ owner'[q] = owner[q]
  BY DEF TypeOK
<1>7. worker' = IdleWorker /\ UNCHANGED <<trigger, cache, queue, seen>>
  OBVIOUS
<1> HIDE DEF StartTimer
<1> QED BY <1>1, <1>3, <1>4, <1>5, <1>6, <1>7, DoneInv

\* The timer already is what the label asks for, or the label asks for nothing.
LEMMA KeepTimerInv ==
  ASSUME IndInv, worker.step = "allocate", KeepTimer,
         Matches(scheduleTriggerMap, duration, worker.key, worker.seen),
         UNCHANGED <<trigger, cache, queue, crashes>>
  PROVE  IndInv'
<1> USE DEF IndInv, KeepTimer, timerVars, routineVars
<1>1. TypeOK' /\ OneTimerPerTrigger'
  BY TypeFacts DEF TypeOK, OneTimerPerTrigger
<1>2. /\ worker' = IdleWorker
      /\ UNCHANGED <<trigger, cache, queue, seen, scheduleTriggerMap, duration, goroutine, owner>>
  OBVIOUS
<1>3. Matches(scheduleTriggerMap', duration', worker.key, worker.seen)
  BY <1>2
<1> HIDE DEF KeepTimer
<1> QED BY <1>1, <1>2, <1>3, DoneInv

\* The timer takes the label's duration.
LEMMA ResetTimerInv ==
  ASSUME IndInv, worker.step = "allocate", ResetTimer,
         worker.seen.quiet \in Durations, scheduleTriggerMap[worker.key] # NoRef,
         UNCHANGED <<trigger, cache, queue, crashes>>
  PROVE  IndInv'
<1> USE DEF IndInv, ResetTimer, Reset, routineVars
<1> DEFINE r == scheduleTriggerMap[worker.key]
<1>0. worker.key \in Keys /\ r \in Refs /\ worker.seen.exists
  BY DEF TypeOK, WorkerOK
<1>1. TypeOK'
  BY <1>0, TypeFacts DEF TypeOK
<1>2. OneTimerPerTrigger'
  BY DEF OneTimerPerTrigger
<1>3. \A k \in Keys : k # worker.key => scheduleTriggerMap[k] # r
  BY <1>0, OwnRef
<1>4. Matches(scheduleTriggerMap', duration', worker.key, worker.seen)
  BY <1>0, ControllerAssumption DEF TypeOK, Matches
<1>5. \A k \in Keys : k # worker.key =>
        /\ scheduleTriggerMap'[k] = scheduleTriggerMap[k]
        /\ scheduleTriggerMap[k] # NoRef =>
             duration'[scheduleTriggerMap[k]] = duration[scheduleTriggerMap[k]]
  BY <1>0, <1>3 DEF TypeOK
<1>6. /\ worker' = IdleWorker
      /\ UNCHANGED <<trigger, cache, queue, seen, goroutine, owner>>
  OBVIOUS
<1> HIDE DEF ResetTimer, Reset, r
<1> QED BY <1>1, <1>2, <1>4, <1>5, <1>6, DoneInv

\* checkAndAllocateScheduleTimer: one case for each of its branches.
LEMMA CheckAndAllocateInv ==
  ASSUME IndInv, CheckAndAllocateScheduleTimer
  PROVE  IndInv'
<1> DEFINE label == worker.seen.quiet
           r == scheduleTriggerMap[worker.key]
<1>0. /\ worker.step = "allocate" /\ worker.seen.exists
      /\ UNCHANGED <<trigger, cache, queue, crashes>>
  BY DEF CheckAndAllocateScheduleTimer, IndInv, WorkerOK
<1>1. CASE label = NoLabel /\ StopTimer
  BY <1>0, <1>1, StopTimerInv
<1>2. CASE label = BadLabel /\ KeepTimer
  <2>1. Matches(scheduleTriggerMap, duration, worker.key, worker.seen)
    BY <1>0, <1>2, ControllerAssumption DEF Matches
  <2> QED BY <1>0, <1>2, <2>1, KeepTimerInv
<1>3. CASE label \in Durations /\ r = NoRef /\ \E s \in Refs : StartTimer(s)
  BY <1>0, <1>3, StartTimerInv
<1>4. CASE label \in Durations /\ r # NoRef /\ duration[r] = label /\ KeepTimer
  <2>1. Matches(scheduleTriggerMap, duration, worker.key, worker.seen)
    BY <1>0, <1>4, ControllerAssumption DEF Matches
  <2> QED BY <1>0, <1>4, <2>1, KeepTimerInv
<1>5. CASE label \in Durations /\ r # NoRef /\ duration[r] # label /\ ResetTimer
  BY <1>0, <1>5, ResetTimerInv
<1> QED BY <1>1, <1>2, <1>3, <1>4, <1>5 DEF CheckAndAllocateScheduleTimer

\* An embedding program's reset arms a timer again and leaves its duration.
LEMMA ScheduleTimerResetInv ==
  ASSUME IndInv, NEW k \in Keys, ScheduleTimerReset(k)
  PROVE  IndInv'
<1> USE DEF IndInv, ScheduleTimerReset, Reset, routineVars
<1>0. scheduleTriggerMap[k] \in Refs
  BY DEF TypeOK
<1>1. TypeOK' /\ duration' = duration
  BY <1>0 DEF TypeOK
<1>2. OneTimerPerTrigger' /\ WorkerOK'
  BY DEF OneTimerPerTrigger, WorkerOK
<1>3. CaughtUp' /\ CopiesNotAhead'
  BY <1>1 DEF CaughtUp, Busy, SameView, Matches, CopiesNotAhead, NotAhead
<1> QED BY <1>1, <1>2, <1>3

\* A manager that starts again has an empty cache, which is behind everything.
LEMMA RestartInv ==
  ASSUME IndInv, Restart
  PROVE  IndInv'
<1> USE DEF IndInv, Restart
<1>1. TypeOK'
  BY TypeFacts, AnyKeyInKeys, ControllerAssumption DEF TypeOK
<1>2. OneTimerPerTrigger' /\ WorkerOK'
  BY TypeFacts DEF OneTimerPerTrigger, WorkerOK
<1>3. CaughtUp'
  BY TypeFacts DEF CaughtUp, Busy, Matches, Absent
<1>4. CopiesNotAhead'
  BY DEF CopiesNotAhead, NotAhead, Absent, TypeOK, Triggers
<1> QED BY <1>1, <1>2, <1>3, <1>4

\* Every step of the controller, of its timers and of its users keeps the invariant.
LEMMA NextInv ==
  ASSUME IndInv, [Next]_vars
  PROVE  IndInv'
<1>1. CASE Users
  BY <1>1, UsersInv
<1>2. ASSUME NEW k \in Keys, CacheSync(k) \/ Resync(k) PROVE IndInv'
  BY <1>2, CacheSyncInv, ResyncInv
<1>3. ASSUME NEW r \in Refs, TimerFires(r) \/ Goroutine(r) PROVE IndInv'
  BY <1>3, TimerFiresInv, GoroutineInv, QuitReceivedInv
<1>4. CASE Worker
  BY <1>4, ReconcileGetInv, DeleteTimerInv, CheckAndAllocateInv DEF Worker
<1>5. CASE Restart
  BY <1>5, RestartInv
<1>6. ASSUME NEW k \in Keys, ScheduleTimerReset(k) PROVE IndInv'
  BY <1>6, ScheduleTimerResetInv
<1>7. CASE UNCHANGED vars
  BY <1>7 DEF vars, timerVars, routineVars, IndInv, TypeOK, OneTimerPerTrigger, CaughtUp, Busy,
     SameView, Matches, WorkerOK, CopiesNotAhead, NotAhead
<1> QED BY <1>1, <1>2, <1>3, <1>4, <1>5, <1>6, <1>7 DEF Next

\* The inductive invariant holds in every state the controller reaches.
THEOREM Invariance == Spec => []IndInv
<1>1. Init => IndInv
  BY InitInv
<1>2. IndInv /\ [Next]_vars => IndInv'
  BY NextInv
<1> QED BY <1>1, <1>2, PTL DEF Spec

-----------------------------------------------------------------------------

\* The state of the controller always has its type: above all, a timer's
\* duration is one that a label parsed to.
THEOREM TypeCorrect == Spec => []TypeOK
BY Invariance, PTL DEF IndInv

(***************************************************************************)
(* Timers and goroutines never leak and never double, for any number of    *)
(* triggers, so the send to timerQuit in deleteTimer and in                *)
(* checkAndAllocateScheduleTimer always has its one receiver.              *)
(***************************************************************************)
THEOREM NoTimerLeaks == Spec => []OneTimerPerTrigger
BY Invariance, PTL DEF IndInv

(***************************************************************************)
(* Whenever Reconcile has caught up with a trigger, its timer is the one   *)
(* the quiet-time label asks for.                                          *)
(***************************************************************************)
THEOREM TimersMatchLabels == Spec => []TimerMatchesLabel
<1>1. IndInv => TimerMatchesLabel
  BY DEF IndInv, CaughtUp, Busy, Matches, TimerMatchesLabel, Settled
<1> QED BY <1>1, Invariance, PTL

(***************************************************************************)
(* transitionToSchedule writes a trigger it read from a cache that lags;   *)
(* the write never undoes an edit of a user.                               *)
(***************************************************************************)
THEOREM EditsAreKept == Spec => TransitionKeepsEdits
<1> DEFINE Keeps(r) ==
      goroutine[r] = "update" /\ goroutine'[r] = "select" /\ trigger' # trigger
        => /\ trigger[owner[r]].exists
           /\ trigger[owner[r]].state = "Planning"
           /\ trigger' = [trigger EXCEPT ![owner[r]] =
                            [exists |-> TRUE, state |-> "Schedule", quiet |-> @.quiet,
                             version |-> @.version + 1]]
<1>1. ASSUME IndInv, [Next]_vars, NEW r \in Refs PROVE Keeps(r)
  <2> SUFFICES ASSUME goroutine[r] = "update", goroutine'[r] = "select", trigger' # trigger
               PROVE  /\ trigger[owner[r]].exists
                      /\ trigger[owner[r]].state = "Planning"
                      /\ trigger' = [trigger EXCEPT ![owner[r]] =
                                       [exists |-> TRUE, state |-> "Schedule", quiet |-> @.quiet,
                                        version |-> @.version + 1]]
    OBVIOUS
  <2>1. TransitionUpdate(r)
    <3>1. ~Users
      BY DEF Users, Apply, DeleteTrigger, controllerVars, routineVars
    <3>2. ~\E k \in Keys : CacheSync(k) \/ Resync(k) \/ ScheduleTimerReset(k)
      BY DEF CacheSync, Resync, ScheduleTimerReset, Reset, routineVars
    <3>3. ~Worker /\ ~Restart
      BY DEF Worker, ReconcileGet, DeleteTimer, CheckAndAllocateScheduleTimer, Restart
    <3>4. PICK q \in Refs : TimerFires(q) \/ Goroutine(q)
      BY <1>1, <3>1, <3>2, <3>3 DEF Next, vars, routineVars
    <3>5. TransitionUpdate(q)
      BY <3>4 DEF TimerFires, Goroutine, TickReceived, TransitionGet, TransitionUpdateFails,
         QuitReceived, ReadOnly
    <3>6. q = r
      BY <1>1, <3>5 DEF TransitionUpdate, IndInv, TypeOK
    <3> QED BY <3>5, <3>6
  <2>2. /\ owner[r] \in Keys /\ seen[r].exists /\ seen[r].state = "Planning"
        /\ seen[r] = trigger[owner[r]]
    BY <1>1, <2>1 DEF IndInv, CopiesNotAhead, NotAhead, TypeOK, TransitionUpdate, UpdateAccepted
  <2> QED BY <2>1, <2>2 DEF TransitionUpdate
<1>2. IndInv /\ [Next]_vars => \A r \in Refs : Keeps(r)
  BY <1>1
<1> HIDE DEF Keeps
<1>3. IndInv /\ [Next]_vars => [\A r \in Refs : Keeps(r)]_vars
  BY <1>2
<1>4. [][\A r \in Refs : Keeps(r)]_vars <=> TransitionKeepsEdits
  BY DEF Keeps, TransitionKeepsEdits
<1> QED BY <1>3, <1>4, Invariance, PTL DEF Spec

=============================================================================
