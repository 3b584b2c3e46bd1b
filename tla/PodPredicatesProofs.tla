------------------------- MODULE PodPredicatesProofs -------------------------
(***************************************************************************)
(* Proofs about the operators of PodPredicates: the size of the chunks,    *)
(* what a pod requests and the merged pods.                                *)
(*                                                                         *)
(* The library's induction theorems take an operator, which the provers    *)
(* cannot instantiate.  Induction is by the least number that is not in a  *)
(* set instead (LeastNumber, UpTo), and a fold is shown to be the last of  *)
(* a sequence of partial results (FoldExists and the lemmas of the loops). *)
(***************************************************************************)
EXTENDS PodPredicates, FiniteSetTheorems, SequenceTheorems, WellFoundedInduction, TLAPS

-----------------------------------------------------------------------------
(* Numbers.                                                                *)

\* A set of natural numbers that is not empty has a least element.
LEMMA LeastNumber ==
  ASSUME NEW T, T \subseteq Nat, T # {}
  PROVE  \E x \in T : \A y \in T : x <= y
<1>1. PICK x \in T : \A y \in T : ~(<<y, x>> \in OpToRel(<, Nat))
  BY NatLessThanWellFounded, WFMin, Zenon
<1>2. \A y \in T : ~(y < x)
  BY <1>1 DEF OpToRel
<1> QED BY <1>2

\* Induction up to n, for a set of numbers.
LEMMA UpTo ==
  ASSUME NEW n \in Nat, NEW T, 0 \in T, \A k \in 0 .. n - 1 : k \in T => k + 1 \in T
  PROVE  0 .. n \subseteq T
<1> DEFINE U == (0 .. n) \ T
<1>1. SUFFICES ASSUME U # {} PROVE FALSE
  OBVIOUS
<1>2. PICK x \in U : \A y \in U : x <= y
  <2>1. U \subseteq Nat
    OBVIOUS
  <2> HIDE DEF U
  <2> QED BY <1>1, <2>1, LeastNumber
<1>3. x # 0 /\ x - 1 \in 0 .. n - 1
  BY <1>2
<1>4. x - 1 \in T
  BY <1>2, <1>3
<1> QED BY <1>2, <1>3, <1>4

\* A set of numbers up to n has a largest one, and Max is it.
LEMMA MaxOfNumbers ==
  ASSUME NEW n \in Nat, NEW T \in SUBSET (1 .. n), T # {}
  PROVE  Max(T) \in T /\ \A y \in T : Max(T) >= y
<1> DEFINE U == {n - x : x \in T}
<1>1. U \subseteq Nat /\ U # {}
  <2>1. \A x \in T : x \in 1 .. n /\ n - x \in Nat
    OBVIOUS
  <2> QED BY <2>1
<1>2. PICK u \in U : \A y \in U : u <= y
  <2> HIDE DEF U
  <2> QED BY <1>1, LeastNumber
<1>3. PICK x \in T : u = n - x
  BY <1>2
<1>4. \A y \in T : x >= y
  <2>1. ASSUME NEW y \in T PROVE x >= y
    <3>1. n - x <= n - y /\ x \in 1 .. n /\ y \in 1 .. n
      BY <1>2, <1>3
    <3> QED BY <3>1
  <2> QED BY <2>1
<1> QED BY <1>4 DEF Max

\* Min of two numbers is the smaller one.
LEMMA MinOfTwo ==
  ASSUME NEW a \in Int, NEW b \in Int
  PROVE  Min({a, b}) = IF a <= b THEN a ELSE b
<1> DEFINE m == IF a <= b THEN a ELSE b
<1>1. m \in {a, b} /\ \A y \in {a, b} : m <= y
  OBVIOUS
<1>2. Min({a, b}) \in {a, b} /\ \A y \in {a, b} : Min({a, b}) <= y
  BY <1>1 DEF Min
<1> QED BY <1>1, <1>2

\* The square root that chunkSize truncates exists, and is a natural number.
LEMMA SqrtType ==
  ASSUME NEW n \in Nat
  PROVE  Sqrt(n) \in Nat
<1> DEFINE T == {s \in Nat : n < (s + 1) * (s + 1)}
<1>1. n \in T /\ T \subseteq Nat
  OBVIOUS
<1>2. PICK s \in T : \A y \in T : s <= y
  BY <1>1, LeastNumber
<1>3. s <= n
  BY <1>1, <1>2
<1>4. s * s <= n
  <2>1. CASE s = 0
    BY <2>1
  <2>2. CASE s # 0
    <3>1. s - 1 \in Nat /\ s - 1 \notin T
      BY <2>2, <1>2
    <3>2. ((s - 1) + 1) * ((s - 1) + 1) = s * s
      OBVIOUS
    <3> QED BY <3>1, <3>2
  <2> QED BY <2>1, <2>2
<1>5. s \in 0 .. n /\ s * s <= n /\ n < (s + 1) * (s + 1)
  BY <1>2, <1>3, <1>4
<1>6. Sqrt(n) \in 0 .. n
  BY <1>5 DEF Sqrt
<1> QED BY <1>6

\* chunkSize is never zero, also for no pieces: ParallelizeUntil divides by it.
LEMMA ChunkSizePositive ==
  ASSUME NEW n \in Nat, NEW p \in Nat \ {0}
  PROVE  ChunkSize(n, p) \in Nat \ {0}
<1>1. n \div p \in Nat
  OBVIOUS
<1>2. Sqrt(n) \in Nat
  BY SqrtType
<1> DEFINE r == (n \div p) + 1
<1>3. r \in Nat \ {0}
  BY <1>1
<1>4. ChunkSize(n, p) = IF r < Sqrt(n) THEN r ELSE IF Sqrt(n) < 1 THEN 1 ELSE Sqrt(n)
  BY DEF ChunkSize
<1> HIDE DEF r
<1> QED BY <1>2, <1>3, <1>4

\* The chunks cover the pieces, and each of them has one.
LEMMA ChunksCover ==
  ASSUME NEW n \in Nat, NEW c \in Nat \ {0}, NEW m, m = (n + c - 1) \div c
  PROVE  /\ m \in Nat
         /\ m * c >= n
         /\ \A k \in 0 .. m - 1 : k * c < n
<1>1. m \in Nat
  OBVIOUS
<1>2. m * c <= n + c - 1 /\ n + c - 1 < (m + 1) * c
  OBVIOUS
<1>3. m * c >= n
  BY <1>1, <1>2
<1>4. ASSUME NEW k \in 0 .. m - 1
      PROVE  k * c < n
  <2>1. k + 1 <= m
    BY <1>1
  <2>2. (k + 1) * c <= m * c
    BY <2>1, <1>1
  <2> QED BY <2>2, <1>1, <1>2
<1> QED BY <1>1, <1>3, <1>4

-----------------------------------------------------------------------------
(* What a pod requests: nodefit.go.                                        *)

\* One way to say what the library's fold computes, with a function for the operator.
Step(O, base, s, n, iter) ==
  iter = [T \in SUBSET (1 .. n) |->
            IF T = {} THEN base ELSE O[<<iter[T \ {Max(T)}], s[Max(T)]>>]]

\* The recursion of a fold over 1 .. n has a solution, so CHOOSE finds one.
LEMMA FoldExists ==
  ASSUME NEW A, NEW B, NEW O \in [A \X B -> A], NEW base \in A,
         NEW n \in Nat, NEW s \in [1 .. n -> B]
  PROVE  \E iter \in [SUBSET (1 .. n) -> A] : Step(O, base, s, n, iter)
<1> DEFINE K == {k \in 0 .. n : \E iter \in [SUBSET (1 .. k) -> A] : Step(O, base, s, k, iter)}
<1>1. 0 \in K
  <2> DEFINE iter == [T \in SUBSET (1 .. 0) |-> base]
  <2>1. 1 .. 0 = {} 
    OBVIOUS
  <2>2. iter \in [SUBSET (1 .. 0) -> A] /\ Step(O, base, s, 0, iter)
    BY <2>1 DEF Step
  <2> QED BY <2>2
<1>2. ASSUME NEW k \in 0 .. n - 1, k \in K
      PROVE  k + 1 \in K
  <2>1. PICK g \in [SUBSET (1 .. k) -> A] : Step(O, base, s, k, g)
    BY <1>2
  <2> DEFINE h == [T \in SUBSET (1 .. k + 1) |->
                     IF k + 1 \in T THEN O[<<g[T \ {k + 1}], s[k + 1]>>] ELSE g[T]]
  <2>2. k \in Nat /\ k + 1 \in 1 .. n /\ s[k + 1] \in B
    OBVIOUS
  <2>3. ASSUME NEW T \in SUBSET (1 .. k + 1), k + 1 \in T
        PROVE  /\ T \ {k + 1} \in SUBSET (1 .. k) /\ T # {} /\ Max(T) = k + 1
               /\ h[T] = O[<<g[T \ {k + 1}], s[k + 1]>>] /\ h[T \ {k + 1}] = g[T \ {k + 1}]
               /\ h[T] \in A
    <3>1. T \ {k + 1} \in SUBSET (1 .. k) /\ T # {}
      BY <2>2, <2>3
    <3>2. Max(T) = k + 1
      <4>1. Max(T) \in T /\ Max(T) >= k + 1
        <5>1. k + 1 \in Nat
          BY <2>2
        <5> QED BY <2>3, <3>1, <5>1, MaxOfNumbers
      <4>2. Max(T) \in 1 .. k + 1
        BY <4>1
      <4> QED BY <2>2, <4>1, <4>2
    <3>3. h[T] = O[<<g[T \ {k + 1}], s[k + 1]>>]
      BY <2>3
    <3>4. T \ {k + 1} \in SUBSET (1 .. k + 1)
      OBVIOUS
    <3>5. h[T \ {k + 1}] = g[T \ {k + 1}]
      BY <3>4
    <3>6. g[T \ {k + 1}] \in A
      BY <3>1
    <3> QED BY <2>2, <3>1, <3>2, <3>3, <3>5, <3>6
  <2>4. ASSUME NEW T \in SUBSET (1 .. k + 1), k + 1 \notin T
        PROVE  /\ T \in SUBSET (1 .. k) /\ h[T] = g[T] /\ h[T] \in A
               /\ T # {} => h[T \ {Max(T)}] = g[T \ {Max(T)}]
    <3>1. T \in SUBSET (1 .. k)
      BY <2>2, <2>4
    <3>2. \A x : T \ {x} \in SUBSET (1 .. k + 1) /\ k + 1 \notin T \ {x}
      BY <2>4
    <3>3. h[T] = g[T]
      BY <2>4
    <3> QED BY <3>1, <3>2, <3>3
  <2>5. h \in [SUBSET (1 .. k + 1) -> A]
    <3>1. \A T \in SUBSET (1 .. k + 1) : h[T] \in A
      BY <2>3, <2>4
    <3> HIDE DEF h
    <3>2. h = [T \in SUBSET (1 .. k + 1) |-> h[T]]
      BY DEF h
    <3> QED BY <3>1, <3>2
  <2>6. ASSUME NEW T \in SUBSET (1 .. k + 1)
        PROVE  h[T] = IF T = {} THEN base ELSE O[<<h[T \ {Max(T)}], s[Max(T)]>>]
    <3> HIDE DEF h
    <3>1. CASE k + 1 \in T
      BY <2>3, <3>1
    <3>2. CASE k + 1 \notin T
      <4>1. g[T] = IF T = {} THEN base ELSE O[<<g[T \ {Max(T)}], s[Max(T)]>>]
        BY <2>1, <2>4, <3>2 DEF Step
      <4> QED BY <2>4, <3>2, <4>1
    <3> QED BY <3>1, <3>2
  <2>7. Step(O, base, s, k + 1, h)
    <3> HIDE DEF h
    <3> QED BY <2>5, <2>6 DEF Step
  <2>8. k + 1 \in 0 .. n
    BY <2>2
  <2> HIDE DEF h
  <2> QED BY <2>5, <2>7, <2>8
<1>3. n \in K
  <2> HIDE DEF K
  <2>1. 0 .. n \subseteq K
    BY <1>1, <1>2, UpTo
  <2> QED BY <2>1
<1> QED BY <1>3

\* The largest number of 1 .. j is j, and the others are 1 .. j - 1.
LEMMA PrefixMax ==
  ASSUME NEW n \in Nat, NEW j \in 1 .. n
  PROVE  /\ 1 .. j \in SUBSET (1 .. n) /\ 1 .. j # {} /\ Max(1 .. j) = j
         /\ (1 .. j) \ {j} = 1 .. j - 1
<1>1. 1 .. j \in SUBSET (1 .. n) /\ 1 .. j # {} /\ j \in 1 .. j /\ (1 .. j) \ {j} = 1 .. j - 1
  OBVIOUS
<1>2. Max(1 .. j) \in 1 .. j /\ Max(1 .. j) >= j
  BY <1>1, MaxOfNumbers
<1> QED BY <1>1, <1>2

Request == [Resources -> Nat]

\* Requests added or compared give requests.
LEMMA AddType ==
  ASSUME NEW r \in Request, NEW rl \in Request
  PROVE  Add(r, rl) \in Request /\ SetMaxResource(r, rl) \in Request
BY DEF Add, SetMaxResource, Request

\* The loop over the containers in computePodResourceRequest.
LEMMA ContainersLoop ==
  ASSUME NEW p, IsPod(p), NEW n, n = Len(p.containers)
  PROVE  \E f \in [0 .. n -> Request] :
           /\ f[0] = None
           /\ \A j \in 1 .. n : f[j] = Add(f[j - 1], p.containers[j].requests)
           /\ f[n] = ContainersRequest(p)
<1> DEFINE s == [i \in 1 .. n |-> p.containers[i]]
           B == {p.containers[i] : i \in 1 .. n}
           O == [x \in Request \X B |-> Add(x[1], x[2].requests)]
           Loop(iter) == iter = [T \in SUBSET (DOMAIN p.containers) |->
                                   IF T = {} THEN None
                                   ELSE Add(iter[T \ {Max(T)}], p.containers[Max(T)].requests)]
<1>1. n \in Nat /\ DOMAIN p.containers = 1 .. n /\ \A i \in 1 .. n : p.containers[i].requests \in Request
  BY DEF IsPod, IsRequest, Request
<1>2. s \in [1 .. n -> B] /\ None \in Request
  BY DEF None, Request
<1>3. O \in [Request \X B -> Request]
  <2>1. \A x \in Request \X B : Add(x[1], x[2].requests) \in Request
    BY <1>1, AddType
  <2> QED BY <2>1
<1>4. PICK g \in [SUBSET (1 .. n) -> Request] : Step(O, None, s, n, g)
  <2> HIDE DEF O, s, B
  <2> QED BY <1>1, <1>2, <1>3, FoldExists
<1>5. Loop(g)
  <2>1. ASSUME NEW T \in SUBSET (1 .. n), T # {}
        PROVE  O[<<g[T \ {Max(T)}], s[Max(T)]>>] = Add(g[T \ {Max(T)}], p.containers[Max(T)].requests)
    <3>1. Max(T) \in 1 .. n
      BY <1>1, <2>1, MaxOfNumbers
    <3>2. g[T \ {Max(T)}] \in Request
      <4>1. T \ {Max(T)} \in SUBSET (1 .. n)
        OBVIOUS
      <4> QED BY <4>1
    <3>3. s[Max(T)] = p.containers[Max(T)] /\ s[Max(T)] \in B
      BY <3>1
    <3> HIDE DEF s, B
    <3> QED BY <3>2, <3>3
  <2>2. g = [T \in SUBSET (1 .. n) |-> IF T = {} THEN None ELSE O[<<g[T \ {Max(T)}], s[Max(T)]>>]]
    BY <1>4 DEF Step
  <2> HIDE DEF O, s
  <2> QED BY <1>1, <2>1, <2>2
<1>6. PICK iter : Loop(iter) /\ iter[DOMAIN p.containers] = ContainersRequest(p)
  <2>1. ContainersRequest(p) = (CHOOSE iter : Loop(iter))[DOMAIN p.containers]
    BY DEF FoldLeft, MapThenFoldSet, ContainersRequest
  <2>2. Loop(CHOOSE iter : Loop(iter))
    <3> HIDE DEF Loop
    <3> QED BY <1>5
  <2> HIDE DEF Loop
  <2> QED BY <2>1, <2>2
<1>7. \A T \in SUBSET (1 .. n) : iter[T] = IF T = {} THEN None ELSE Add(iter[T \ {Max(T)}], p.containers[Max(T)].requests)
  BY <1>1, <1>6
<1> DEFINE f == [j \in 0 .. n |-> iter[1 .. j]]
<1>8. f[0] = None
  <2>1. {} \in SUBSET (1 .. n) /\ 1 .. 0 = {} /\ 0 \in 0 .. n
    BY <1>1
  <2>2. iter[{}] = None
    BY <1>7, <2>1
  <2> QED BY <2>1, <2>2
<1>9. ASSUME NEW j \in 1 .. n
      PROVE  f[j] = Add(f[j - 1], p.containers[j].requests)
  <2>1. iter[1 .. j] = Add(iter[1 .. j - 1], p.containers[j].requests)
    <3>1. /\ 1 .. j \in SUBSET (1 .. n) /\ 1 .. j # {} /\ Max(1 .. j) = j
          /\ (1 .. j) \ {j} = 1 .. j - 1
      BY <1>1, PrefixMax
    <3> QED BY <1>7, <3>1
  <2> QED BY <1>1, <2>1
<1>10. f[n] = ContainersRequest(p)
  <2>1. iter[1 .. n] = ContainersRequest(p)
    BY <1>1, <1>6
  <2>2. f[n] = iter[1 .. n]
    BY <1>1
  <2> QED BY <2>1, <2>2
<1>11. f \in [0 .. n -> Request]
  <2> DEFINE K == {k \in 0 .. n : f[k] \in Request}
  <2>1. 0 \in K
    BY <1>1, <1>2, <1>8
  <2>2. \A k \in 0 .. n - 1 : k \in K => k + 1 \in K
    <3>1. ASSUME NEW k \in 0 .. n - 1, f[k] \in Request
          PROVE  f[k + 1] \in Request
      <4> HIDE DEF f
      <4>1. k + 1 \in 1 .. n /\ (k + 1) - 1 = k
        BY <1>1
      <4>2. f[k + 1] = Add(f[k], p.containers[k + 1].requests)
        BY <1>9, <4>1
      <4> QED BY <1>1, <3>1, <4>1, <4>2, AddType
    <3> HIDE DEF f
    <3> QED BY <1>1, <3>1
  <2>3. 0 .. n \subseteq K
    <3> HIDE DEF K
    <3> QED BY <1>1, <2>1, <2>2, UpTo
  <2> QED BY <2>3
<1> HIDE DEF f
<1> QED BY <1>8, <1>9, <1>10, <1>11

\* The loop over the init containers.
LEMMA InitsLoop ==
  ASSUME NEW p, IsPod(p), NEW n, n = Len(p.inits), NEW base \in Request
  PROVE  \E f \in [0 .. n -> Request] :
           /\ f[0] = base
           /\ \A j \in 1 .. n : f[j] = SetMaxResource(f[j - 1], p.inits[j])
           /\ f[n] = FoldLeft(SetMaxResource, base, p.inits)
<1> DEFINE s == [i \in 1 .. n |-> p.inits[i]]
           B == {p.inits[i] : i \in 1 .. n}
           O == [x \in Request \X B |-> SetMaxResource(x[1], x[2])]
           Loop(iter) == iter = [T \in SUBSET (DOMAIN p.inits) |->
                                   IF T = {} THEN base
                                   ELSE SetMaxResource(iter[T \ {Max(T)}], p.inits[Max(T)])]
<1>1. n \in Nat /\ DOMAIN p.inits = 1 .. n /\ \A i \in 1 .. n : p.inits[i] \in Request
  BY DEF IsPod, IsRequest, Request
<1>2. s \in [1 .. n -> B] /\ base \in Request
  BY DEF None, Request
<1>3. O \in [Request \X B -> Request]
  <2>1. \A x \in Request \X B : SetMaxResource(x[1], x[2]) \in Request
    BY <1>1, AddType
  <2> QED BY <2>1
<1>4. PICK g \in [SUBSET (1 .. n) -> Request] : Step(O, base, s, n, g)
  <2> HIDE DEF O, s, B
  <2> QED BY <1>1, <1>2, <1>3, FoldExists
<1>5. Loop(g)
  <2>1. ASSUME NEW T \in SUBSET (1 .. n), T # {}
        PROVE  O[<<g[T \ {Max(T)}], s[Max(T)]>>] = SetMaxResource(g[T \ {Max(T)}], p.inits[Max(T)])
    <3>1. Max(T) \in 1 .. n
      BY <1>1, <2>1, MaxOfNumbers
    <3>2. g[T \ {Max(T)}] \in Request
      <4>1. T \ {Max(T)} \in SUBSET (1 .. n)
        OBVIOUS
      <4> QED BY <4>1
    <3>3. s[Max(T)] = p.inits[Max(T)] /\ s[Max(T)] \in B
      BY <3>1
    <3> HIDE DEF s, B
    <3> QED BY <3>2, <3>3
  <2>2. g = [T \in SUBSET (1 .. n) |-> IF T = {} THEN base ELSE O[<<g[T \ {Max(T)}], s[Max(T)]>>]]
    BY <1>4 DEF Step
  <2> HIDE DEF O, s
  <2> QED BY <1>1, <2>1, <2>2
<1>6. PICK iter : Loop(iter) /\ iter[DOMAIN p.inits] = FoldLeft(SetMaxResource, base, p.inits)
  <2>1. FoldLeft(SetMaxResource, base, p.inits) = (CHOOSE iter : Loop(iter))[DOMAIN p.inits]
    BY DEF FoldLeft, MapThenFoldSet
  <2>2. Loop(CHOOSE iter : Loop(iter))
    <3> HIDE DEF Loop
    <3> QED BY <1>5
  <2> HIDE DEF Loop
  <2> QED BY <2>1, <2>2
<1>7. \A T \in SUBSET (1 .. n) : iter[T] = IF T = {} THEN base ELSE SetMaxResource(iter[T \ {Max(T)}], p.inits[Max(T)])
  BY <1>1, <1>6
<1> DEFINE f == [j \in 0 .. n |-> iter[1 .. j]]
<1>8. f[0] = base
  <2>1. {} \in SUBSET (1 .. n) /\ 1 .. 0 = {} /\ 0 \in 0 .. n
    BY <1>1
  <2>2. iter[{}] = base
    BY <1>7, <2>1
  <2> QED BY <2>1, <2>2
<1>9. ASSUME NEW j \in 1 .. n
      PROVE  f[j] = SetMaxResource(f[j - 1], p.inits[j])
  <2>1. iter[1 .. j] = SetMaxResource(iter[1 .. j - 1], p.inits[j])
    <3>1. /\ 1 .. j \in SUBSET (1 .. n) /\ 1 .. j # {} /\ Max(1 .. j) = j
          /\ (1 .. j) \ {j} = 1 .. j - 1
      BY <1>1, PrefixMax
    <3> QED BY <1>7, <3>1
  <2> QED BY <1>1, <2>1
<1>10. f[n] = FoldLeft(SetMaxResource, base, p.inits)
  <2>1. iter[1 .. n] = FoldLeft(SetMaxResource, base, p.inits)
    BY <1>1, <1>6
  <2>2. f[n] = iter[1 .. n]
    BY <1>1
  <2> QED BY <2>1, <2>2
<1>11. f \in [0 .. n -> Request]
  <2> DEFINE K == {k \in 0 .. n : f[k] \in Request}
  <2>1. 0 \in K
    BY <1>1, <1>2, <1>8
  <2>2. \A k \in 0 .. n - 1 : k \in K => k + 1 \in K
    <3>1. ASSUME NEW k \in 0 .. n - 1, f[k] \in Request
          PROVE  f[k + 1] \in Request
      <4> HIDE DEF f
      <4>1. k + 1 \in 1 .. n /\ (k + 1) - 1 = k
        BY <1>1
      <4>2. f[k + 1] = SetMaxResource(f[k], p.inits[k + 1])
        BY <1>9, <4>1
      <4> QED BY <1>1, <3>1, <4>1, <4>2, AddType
    <3> HIDE DEF f
    <3> QED BY <1>1, <3>1
  <2>3. 0 .. n \subseteq K
    <3> HIDE DEF K
    <3> QED BY <1>1, <2>1, <2>2, UpTo
  <2> QED BY <2>3
<1> HIDE DEF f
<1> QED BY <1>8, <1>9, <1>10, <1>11

\* The sum for one resource.
LEMMA TogetherLoop ==
  ASSUME NEW p, IsPod(p), NEW n, n = Len(p.containers), NEW r \in Resources
  PROVE  \E f \in [0 .. n -> Nat] :
           /\ f[0] = 0
           /\ \A j \in 1 .. n : f[j] = f[j - 1] + p.containers[j].requests[r]
           /\ f[n] = Together(p, r)
<1> DEFINE s == [i \in 1 .. n |-> p.containers[i]]
           B == {p.containers[i] : i \in 1 .. n}
           O == [x \in Nat \X B |-> x[1] + x[2].requests[r]]
           Loop(iter) == iter = [T \in SUBSET (DOMAIN p.containers) |->
                                   IF T = {} THEN 0
                                   ELSE iter[T \ {Max(T)}] + p.containers[Max(T)].requests[r]]
<1>1. n \in Nat /\ DOMAIN p.containers = 1 .. n /\ \A i \in 1 .. n : p.containers[i].requests \in Request
  BY DEF IsPod, IsRequest, Request
<1>2. s \in [1 .. n -> B] /\ 0 \in Nat
  BY DEF None, Request
<1>3. O \in [Nat \X B -> Nat]
  <2>1. \A x \in Nat \X B : x[1] + x[2].requests[r] \in Nat
    BY <1>1 DEF Request
  <2> QED BY <2>1
<1>4. PICK g \in [SUBSET (1 .. n) -> Nat] : Step(O, 0, s, n, g)
  <2> HIDE DEF O, s, B
  <2> QED BY <1>1, <1>2, <1>3, FoldExists
<1>5. Loop(g)
  <2>1. ASSUME NEW T \in SUBSET (1 .. n), T # {}
        PROVE  O[<<g[T \ {Max(T)}], s[Max(T)]>>] = g[T \ {Max(T)}] + p.containers[Max(T)].requests[r]
    <3>1. Max(T) \in 1 .. n
      BY <1>1, <2>1, MaxOfNumbers
    <3>2. g[T \ {Max(T)}] \in Nat
      <4>1. T \ {Max(T)} \in SUBSET (1 .. n)
        OBVIOUS
      <4> QED BY <4>1
    <3>3. s[Max(T)] = p.containers[Max(T)] /\ s[Max(T)] \in B
      BY <3>1
    <3> HIDE DEF s, B
    <3> QED BY <3>2, <3>3
  <2>2. g = [T \in SUBSET (1 .. n) |-> IF T = {} THEN 0 ELSE O[<<g[T \ {Max(T)}], s[Max(T)]>>]]
    BY <1>4 DEF Step
  <2> HIDE DEF O, s
  <2> QED BY <1>1, <2>1, <2>2
<1>6. PICK iter : Loop(iter) /\ iter[DOMAIN p.containers] = Together(p, r)
  <2>1. Together(p, r) = (CHOOSE iter : Loop(iter))[DOMAIN p.containers]
    BY DEF FoldLeft, MapThenFoldSet, Together
  <2>2. Loop(CHOOSE iter : Loop(iter))
    <3> HIDE DEF Loop
    <3> QED BY <1>5
  <2> HIDE DEF Loop
  <2> QED BY <2>1, <2>2
<1>7. \A T \in SUBSET (1 .. n) : iter[T] = IF T = {} THEN 0 ELSE iter[T \ {Max(T)}] + p.containers[Max(T)].requests[r]
  BY <1>1, <1>6
<1> DEFINE f == [j \in 0 .. n |-> iter[1 .. j]]
<1>8. f[0] = 0
  <2>1. {} \in SUBSET (1 .. n) /\ 1 .. 0 = {} /\ 0 \in 0 .. n
    BY <1>1
  <2>2. iter[{}] = 0
    BY <1>7, <2>1
  <2> QED BY <2>1, <2>2
<1>9. ASSUME NEW j \in 1 .. n
      PROVE  f[j] = f[j - 1] + p.containers[j].requests[r]
  <2>1. iter[1 .. j] = iter[1 .. j - 1] + p.containers[j].requests[r]
    <3>1. /\ 1 .. j \in SUBSET (1 .. n) /\ 1 .. j # {} /\ Max(1 .. j) = j
          /\ (1 .. j) \ {j} = 1 .. j - 1
      BY <1>1, PrefixMax
    <3> QED BY <1>7, <3>1
  <2> QED BY <1>1, <2>1
<1>10. f[n] = Together(p, r)
  <2>1. iter[1 .. n] = Together(p, r)
    BY <1>1, <1>6
  <2>2. f[n] = iter[1 .. n]
    BY <1>1
  <2> QED BY <2>1, <2>2
<1>11. f \in [0 .. n -> Nat]
  <2> DEFINE K == {k \in 0 .. n : f[k] \in Nat}
  <2>1. 0 \in K
    BY <1>1, <1>2, <1>8
  <2>2. \A k \in 0 .. n - 1 : k \in K => k + 1 \in K
    <3>1. ASSUME NEW k \in 0 .. n - 1, f[k] \in Nat
          PROVE  f[k + 1] \in Nat
      <4> HIDE DEF f
      <4>1. k + 1 \in 1 .. n /\ (k + 1) - 1 = k
        BY <1>1
      <4>2. f[k + 1] = f[k] + p.containers[k + 1].requests[r]
        BY <1>9, <4>1
      <4> QED BY <1>1, <3>1, <4>1, <4>2 DEF Request
    <3> HIDE DEF f
    <3> QED BY <1>1, <3>1
  <2>3. 0 .. n \subseteq K
    <3> HIDE DEF K
    <3> QED BY <1>1, <2>1, <2>2, UpTo
  <2> QED BY <2>3
<1> HIDE DEF f
<1> QED BY <1>8, <1>9, <1>10, <1>11

\* The sum of the requests, resource by resource.
LEMMA ContainersSum ==
  ASSUME NEW p, IsPod(p)
  PROVE  /\ ContainersRequest(p) \in Request
         /\ \A r \in Resources \ {"ephemeral-storage"} :
              Together(p, r) \in Nat /\ ContainersRequest(p)[r] = Together(p, r)
<1> DEFINE n == Len(p.containers)
<1>1. n \in Nat /\ \A i \in 1 .. n : p.containers[i].requests \in Request
  BY DEF IsPod, IsRequest, Request
<1>2. PICK f \in [0 .. n -> Request] :
        /\ f[0] = None
        /\ \A j \in 1 .. n : f[j] = Add(f[j - 1], p.containers[j].requests)
        /\ f[n] = ContainersRequest(p)
  BY ContainersLoop
<1> HIDE DEF n
<1>3. ASSUME NEW r \in Resources \ {"ephemeral-storage"}
      PROVE  Together(p, r) \in Nat /\ ContainersRequest(p)[r] = Together(p, r)
  <2>1. PICK h \in [0 .. n -> Nat] :
          /\ h[0] = 0
          /\ \A j \in 1 .. n : h[j] = h[j - 1] + p.containers[j].requests[r]
          /\ h[n] = Together(p, r)
    BY TogetherLoop DEF n
  <2> DEFINE K == {k \in 0 .. n : f[k][r] = h[k]}
  <2>2. 0 \in K
    BY <1>1, <1>2, <2>1 DEF None
  <2>3. ASSUME NEW k \in 0 .. n - 1, k \in K
        PROVE  k + 1 \in K
    <3>1. k + 1 \in 1 .. n /\ (k + 1) - 1 = k /\ k + 1 \in 0 .. n /\ k \in 0 .. n
      BY <1>1
    <3>2. f[k + 1] = Add(f[k], p.containers[k + 1].requests)
      BY <1>2, <3>1
    <3>3. f[k + 1][r] = f[k][r] + p.containers[k + 1].requests[r]
      BY <3>2 DEF Add
    <3>4. h[k + 1] = h[k] + p.containers[k + 1].requests[r]
      BY <2>1, <3>1
    <3> QED BY <2>3, <3>1, <3>3, <3>4
  <2>4. 0 .. n \subseteq K
    <3> HIDE DEF K
    <3> QED BY <1>1, <2>2, <2>3, UpTo
  <2>5. f[n][r] = h[n] /\ h[n] \in Nat
    BY <1>1, <2>4
  <2> QED BY <1>2, <2>1, <2>5
<1> QED BY <1>1, <1>2, <1>3

(***************************************************************************)
(* computePodResourceRequest asks, of every resource but ephemeral         *)
(* storage, for the largest of what the containers request together and of *)
(* what each init container requests, whatever their numbers.              *)
(***************************************************************************)
THEOREM RequestIsLargest ==
  ASSUME NEW p, IsPod(p), NEW r \in Resources \ {"ephemeral-storage"}
  PROVE  /\ ComputePodResourceRequest(p)[r] \in Nat
         /\ ComputePodResourceRequest(p)[r] >= Together(p, r)
         /\ \A init \in ToSet(p.inits) : ComputePodResourceRequest(p)[r] >= init[r]
         /\ \/ ComputePodResourceRequest(p)[r] = Together(p, r)
            \/ \E init \in ToSet(p.inits) : ComputePodResourceRequest(p)[r] = init[r]
<1> DEFINE n == Len(p.inits)
           base == ContainersRequest(p)
<1>1. /\ n \in Nat /\ DOMAIN p.inits = 1 .. n
      /\ \A i \in 1 .. n : p.inits[i] \in Request
  BY DEF IsPod, IsRequest, Request
<1>2. base \in Request /\ base[r] = Together(p, r) /\ Together(p, r) \in Nat
  BY ContainersSum
<1>3. PICK f \in [0 .. n -> Request] :
        /\ f[0] = base
        /\ \A j \in 1 .. n : f[j] = SetMaxResource(f[j - 1], p.inits[j])
        /\ f[n] = FoldLeft(SetMaxResource, base, p.inits)
  <2> HIDE DEF base
  <2> QED BY <1>2, InitsLoop
<1>4. f[n] = ComputePodResourceRequest(p)
  BY <1>3 DEF ComputePodResourceRequest
<1> HIDE DEF n, base
<1> DEFINE K == {k \in 0 .. n : /\ f[k][r] >= base[r]
                                /\ \A i \in 1 .. k : f[k][r] >= p.inits[i][r]
                                /\ f[k][r] = base[r] \/ \E i \in 1 .. k : f[k][r] = p.inits[i][r]}
<1>5. 0 \in K
  BY <1>1, <1>2, <1>3
<1>6. ASSUME NEW k \in 0 .. n - 1, k \in K
      PROVE  k + 1 \in K
  <2>1. k + 1 \in 1 .. n /\ (k + 1) - 1 = k /\ k + 1 \in 0 .. n /\ k \in 0 .. n
    BY <1>1
  <2>2. f[k + 1] = SetMaxResource(f[k], p.inits[k + 1])
    BY <1>3, <2>1
  <2> DEFINE a == f[k][r]
             b == p.inits[k + 1][r]
  <2>3. f[k + 1][r] = IF b > a THEN b ELSE a
    BY <2>2 DEF SetMaxResource
  <2>4. a \in Nat /\ b \in Nat /\ \A i \in 1 .. k + 1 : p.inits[i][r] \in Nat
    BY <1>1, <1>3, <2>1 DEF Request
  <2>5. /\ a >= base[r] /\ \A i \in 1 .. k : a >= p.inits[i][r]
        /\ a = base[r] \/ \E i \in 1 .. k : a = p.inits[i][r]
    BY <1>6
  <2>6. f[k + 1][r] \in Nat /\ f[k + 1][r] >= a /\ f[k + 1][r] >= b
    BY <2>3, <2>4
  <2>7. f[k + 1][r] >= base[r]
    BY <1>2, <2>4, <2>5, <2>6
  <2>8. \A i \in 1 .. k + 1 : f[k + 1][r] >= p.inits[i][r]
    <3>1. ASSUME NEW i \in 1 .. k + 1 PROVE f[k + 1][r] >= p.inits[i][r]
      <4>1. CASE i = k + 1
        BY <4>1, <2>6
      <4>2. CASE i \in 1 .. k
        <5>1. a >= p.inits[i][r] /\ p.inits[i][r] \in Nat
          BY <2>4, <2>5, <4>2
        <5> HIDE DEF a, b
        <5> QED BY <2>4, <2>6, <5>1
      <4> QED BY <2>1, <4>1, <4>2
    <3> QED BY <3>1
  <2>9. f[k + 1][r] = base[r] \/ \E i \in 1 .. k + 1 : f[k + 1][r] = p.inits[i][r]
    <3>1. CASE f[k + 1][r] = b
      BY <2>1, <3>1
    <3>2. CASE f[k + 1][r] = a
      <4>1. 1 .. k \subseteq 1 .. k + 1
        BY <2>1
      <4> QED BY <2>5, <3>2, <4>1
    <3> QED BY <2>3, <3>1, <3>2
  <2> QED BY <2>1, <2>7, <2>8, <2>9
<1>7. 0 .. n \subseteq K
  <2> HIDE DEF K
  <2> QED BY <1>1, <1>5, <1>6, UpTo
<1>8. /\ f[n][r] >= base[r] /\ \A i \in 1 .. n : f[n][r] >= p.inits[i][r]
      /\ f[n][r] = base[r] \/ \E i \in 1 .. n : f[n][r] = p.inits[i][r]
      /\ f[n][r] \in Nat
  BY <1>1, <1>3, <1>7 DEF Request
<1>9. ToSet(p.inits) = {p.inits[i] : i \in 1 .. n}
  BY <1>1 DEF ToSet
<1> QED BY <1>2, <1>4, <1>8, <1>9

-----------------------------------------------------------------------------
(* The pods of a node: utils.go.                                           *)

\* mergePods loses no pod that was listed, and none that the list does not have.
LEMMA MergedPods ==
  ASSUME NEW pods, NEW planned, NEW q \in pods \cup planned,
         q \in pods \/ \A l \in pods : l.ns # q.ns \/ l.name # q.name
  PROVE  q \in MergePods(pods, planned)
BY DEF MergePods

=============================================================================
