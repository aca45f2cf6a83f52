------------------------ MODULE MergeDeliveryProofs ------------------------
(* What is merged was cleared, and can be merged: the proof for any number  *)
(* of patches, processes, edits and reports.                                *)
EXTENDS MergeDelivery, FiniteSetTheorems, TLAPS

-----------------------------------------------------------------------------
(* The operators on queues.                                                 *)

LEMMA Least ==
  ASSUME NEW S, S \subseteq Nat, S # {}
  PROVE  \E n \in S : \A m \in S : n <= m
<1>1. PICK n \in S : \A m \in S : <<m, n>> \notin OpToRel(<, Nat)
  BY NatLessThanWellFounded, WFMin
<1>2. \A m \in S : ~(m < n) /\ m \in Nat /\ n \in Nat
  BY <1>1 DEF OpToRel
<1>3. \A m \in S : n <= m
  BY <1>2
<1> QED
  BY <1>3

\* A queue is its three fields.
LEMMA QueueFields ==
  ASSUME NEW q \in Queue
  PROVE  /\ q = [status |-> q.status, rank |-> q.rank, kept |-> q.kept]
         /\ q.status \in [Patch -> ItemStatus]
         /\ q.rank \in [Patch -> 0..Cardinality(Patch)]
         /\ q.kept \subseteq Patch \X Reason
  BY DEF Queue

LEMMA QueueType ==
  ASSUME NEW s \in [Patch -> ItemStatus], NEW r \in [Patch -> 0..Cardinality(Patch)],
         NEW k \in SUBSET (Patch \X Reason)
  PROVE  [status |-> s, rank |-> r, kept |-> k] \in Queue
  BY DEF Queue

\* The items that are there.
There(q) == Patch \ Item(q, "none")

\* r is q with some of its waiting items dropped.
Shrinks(q, r) ==
  /\ Waiting(r) \subseteq Waiting(q)
  /\ Item(r, "merged") = Item(q, "merged")
  /\ There(r) = There(q)
  /\ r.rank = q.rank
  /\ r.kept = q.kept

\* r is q with a conflict resolved for patch p, which waits, and some of the
\* other waiting items dropped.
Resolves(q, p, x, r) ==
  /\ Waiting(r) \subseteq Waiting(q) \cup {p}
  /\ Item(r, "merged") \subseteq Item(q, "merged")
  /\ There(r) = There(q)
  /\ r.kept = q.kept \cup {<<p, x>>}

\* r is q with one more item waiting, the last.
Grows(q, p, r) ==
  /\ Waiting(r) = Waiting(q) \cup {p}
  /\ Item(r, "merged") = Item(q, "merged") \ {p}
  /\ There(r) = There(q) \cup {p}
  /\ r.rank = [q.rank EXCEPT ![p] = 1 + Cardinality(There(q))]
  /\ r.kept = q.kept

\* r is q with all that waits merged.
Merges(q, r) ==
  /\ Waiting(r) = {}
  /\ Item(r, "merged") = Undropped(q)
  /\ There(r) = There(q)
  /\ r.kept = q.kept

\* Recomputing the conflicts of a queue moves its items between queued and
\* blocked, and nothing else.
LEMMA RecomputedKeeps ==
  ASSUME NEW q \in Queue
  PROVE  /\ Recomputed(q) \in Queue
         /\ Waiting(Recomputed(q)) = Waiting(q)
         /\ \A s \in ItemStatus \ {"queued", "blocked"} : Item(Recomputed(q), s) = Item(q, s)
         /\ Recomputed(q).rank = q.rank
         /\ Recomputed(q).kept = q.kept
         /\ Shrinks(q, Recomputed(q))
<1> DEFINE f == [p \in Patch |->
                   IF p \notin Waiting(q) THEN q.status[p]
                   ELSE IF \E c \in Conflicts(q) : p \in {c[1], c[2]} THEN "blocked" ELSE "queued"]
<1>1. Recomputed(q) = [status |-> f, rank |-> q.rank, kept |-> q.kept]
  BY QueueFields DEF Recomputed
<1> HIDE DEF f
<1>2. \A p \in Patch : /\ p \notin Waiting(q) => f[p] = q.status[p]
                       /\ p \in Waiting(q) => f[p] \in {"blocked", "queued"}
  BY DEF f
<1>3. f \in [Patch -> ItemStatus]
  BY <1>2, QueueFields DEF f, ItemStatus
<1>4. Recomputed(q) \in Queue
  BY <1>1, <1>3, QueueFields, QueueType
<1>5. \A s : Item(Recomputed(q), s) = {p \in Patch : f[p] = s}
  BY <1>1 DEF Item
<1>6. Waiting(Recomputed(q)) = Waiting(q)
  <2>1. \A p \in Patch : p \in Waiting(q) <=> q.status[p] \in {"queued", "blocked"}
    BY DEF Waiting, Item
  <2>2. Waiting(Recomputed(q)) = {p \in Patch : f[p] \in {"queued", "blocked"}}
    BY <1>5 DEF Waiting
  <2>3. Waiting(q) \subseteq Patch
    BY DEF Waiting, Item
  <2>4. \A p \in Patch : f[p] \in {"queued", "blocked"} <=> p \in Waiting(q)
    BY <1>2, <2>1
  <2> QED
    BY <2>2, <2>3, <2>4
<1>7. \A s \in ItemStatus \ {"queued", "blocked"} : Item(Recomputed(q), s) = Item(q, s)
  BY <1>2, <1>5 DEF Waiting, Item
<1>8. There(Recomputed(q)) = There(q) /\ Item(Recomputed(q), "merged") = Item(q, "merged")
  BY <1>7 DEF There, ItemStatus
<1> QED
  BY <1>1, <1>4, <1>6, <1>7, <1>8 DEF Shrinks

LEMMA EmptyQueueFacts ==
  EmptyQueue \in Queue /\ There(EmptyQueue) = {} /\ Waiting(EmptyQueue) = {}
  /\ Item(EmptyQueue, "merged") = {}
<1>1. Cardinality(Patch) \in Nat
  BY DeliveryAssumption, FS_CardinalityType DEF DeliveryAssumption
<1>2. [p \in Patch |-> "none"] \in [Patch -> ItemStatus]
      /\ [p \in Patch |-> 0] \in [Patch -> 0..Cardinality(Patch)]
  BY <1>1 DEF ItemStatus
<1>3. EmptyQueue \in Queue
  BY <1>2, QueueType DEF EmptyQueue
<1>4. There(EmptyQueue) = {} /\ Waiting(EmptyQueue) = {} /\ Item(EmptyQueue, "merged") = {}
  BY DEF EmptyQueue, There, Waiting, Item
<1> QED
  BY <1>3, <1>4

\* Without conflicts, no patch that waits shares a key with another that
\* waits, or with one that is merged, but one that is queued behind it.
LEMMA NoConflicts ==
  ASSUME NEW q \in Queue, Conflicts(q) = {},
         NEW o \in Undropped(q), NEW p \in Waiting(q), o # p
  PROVE  \/ TheRun.keys[o] \cap TheRun.keys[p] = {}
         \/ o \notin Waiting(q) /\ q.rank[p] < q.rank[o]
<1> SUFFICES ASSUME NEW k \in TheRun.keys[o] \cap TheRun.keys[p]
             PROVE  o \notin Waiting(q) /\ q.rank[p] < q.rank[o]
  OBVIOUS
<1> DEFINE items == Undropped(q)
           claims == {i \in items : k \in TheRun.keys[i]}
           ranks == {q.rank[i] : i \in claims}
<1>0. items \subseteq Patch /\ p \in items /\ Waiting(q) \subseteq Patch
      /\ \A i \in Patch : q.rank[i] \in Nat
  <2>1. \A i \in Patch : q.rank[i] \in 0..Cardinality(Patch)
    BY QueueFields
  <2> QED
    BY <2>1 DEF Undropped, Waiting, Item
<1>1. ranks \subseteq Nat /\ ranks # {}
  BY <1>0
<1>2. PICK n \in ranks : \A m \in ranks : n <= m
  BY <1>1, Least
<1>3. ASSUME NEW w \in claims, q.rank[w] = n, NEW i \in Waiting(q), i # w, k \in TheRun.keys[i]
      PROVE  FALSE
  <2>1. <<w, i>> \in items \X Waiting(q) /\ k \in TheRun.keys[w] \cap TheRun.keys[i]
    BY <1>3
  <2>2. \A j \in items : k \in TheRun.keys[j] => q.rank[w] <= q.rank[j]
    BY <1>2, <1>3
  <2>3. <<w, i>> \in Conflicts(q)
    BY <1>3, <2>1, <2>2 DEF Conflicts
  <2> QED
    BY <2>3
<1>4. q.rank[p] = n
  <2>1. PICK w \in claims : q.rank[w] = n
    BY <1>2
  <2> QED
    BY <1>3, <2>1
<1>5. o \in claims /\ p \in claims
  BY <1>0
<1>6. o \notin Waiting(q)
  BY <1>3, <1>4, <1>5
<1>7. q.rank[o] # n
  BY <1>3, <1>5
<1> QED
  BY <1>0, <1>2, <1>4, <1>5, <1>6, <1>7

\* Conversely, such patches are in no conflict.
LEMMA ApartNoConflicts ==
  ASSUME NEW q \in Queue,
         \A o \in Undropped(q), p \in Waiting(q) :
           o # p => \/ TheRun.keys[o] \cap TheRun.keys[p] = {}
                    \/ q.rank[p] < q.rank[o]
  PROVE  Conflicts(q) = {}
<1> SUFFICES ASSUME NEW c \in Conflicts(q)
             PROVE  FALSE
  OBVIOUS
<1>1. PICK o \in Undropped(q), p \in Waiting(q) :
        /\ o # p
        /\ \E k \in TheRun.keys[o] \cap TheRun.keys[p] :
             \A i \in Undropped(q) : k \in TheRun.keys[i] => q.rank[o] <= q.rank[i]
  BY DEF Conflicts
<1>2. p \in Undropped(q) /\ o \in Patch /\ p \in Patch
  BY DEF Undropped, Waiting, Item
<1>3. q.rank[o] <= q.rank[p] /\ q.rank[p] < q.rank[o]
  BY <1>1, <1>2
<1>4. q.rank[o] \in Nat /\ q.rank[p] \in Nat
  <2>1. \A i \in Patch : q.rank[i] \in 0..Cardinality(Patch)
    BY QueueFields
  <2> QED
    BY <1>2, <2>1
<1> QED
  BY <1>3, <1>4

-----------------------------------------------------------------------------
(* Types.                                                                   *)

LEMMA TheRunType == ASSUME TypeOK PROVE TheRun \in RunKind /\ TheRun.maxEdits \in Nat
  BY DeliveryAssumption DEF DeliveryAssumption, TypeOK, TheRun, RunKind

LEMMA CandidateType ==
  ASSUME NEW q \in Queue, NEW s \in Source
  PROVE  Candidate(q, s) \in Digest
<1>1. Waiting(q) \subseteq Patch
  BY DEF Waiting, Item
<1> QED
  BY <1>1, QueueFields DEF Candidate, Digest

LEMMA HeldType ==
  ASSUME NEW q \in Queue, NEW s \in Staged, NEW d \in Digest, NEW k \in ReviewKey
  PROVE  [queue |-> q, staged |-> s, digest |-> d, key |-> k] \in Held
  BY DEF Held

LEMMA NothingType ==
  /\ FirstSource \in Source
  /\ NoStaged \in Staged /\ NoDigest \in Digest /\ NoKey \in ReviewKey
  /\ Nothing \in Held
<1>1. FirstSource \in Source
  BY DeliveryAssumption DEF DeliveryAssumption, FirstSource, Source
<1>2. NoStaged \in Staged
  BY <1>1 DEF NoStaged, Staged
<1>3. NoDigest \in Digest
  BY <1>1 DEF NoDigest, Digest
<1>4. NoKey \in ReviewKey
  BY <1>3 DEF NoKey, ReviewKey
<1>5. Nothing \in Held
  BY <1>2, <1>3, <1>4, EmptyQueueFacts, HeldType DEF Nothing
<1> QED
  BY <1>1, <1>2, <1>3, <1>4, <1>5

LEMMA GotoType ==
  ASSUME TypeOK, NEW a \in Actor, NEW s \in Stage, NEW h \in Held, Goto(a, s, h)
  PROVE  pc' \in [Actor -> Stage] /\ tick' \in [Actor -> BOOLEAN] /\ held' \in [Actor -> Held]
<1>1. pc' \in [Actor -> Stage]
  BY DEF Goto, TypeOK
<1>2. tick' \in [Actor -> BOOLEAN]
  BY DEF Goto, TypeOK
<1>3. held' \in [Actor -> Held]
  BY NothingType DEF Goto, TypeOK
<1> QED
  BY <1>1, <1>2, <1>3

LEMMA BeginType ==
  ASSUME TypeOK, NEW a \in Actor, NEW s \in Stage, NEW h \in Held, NEW b, NEW n,
         Begin(a, s, h, b, n)
  PROVE  pc' \in [Actor -> Stage] /\ tick' \in [Actor -> BOOLEAN] /\ held' \in [Actor -> Held]
<1>1. pc' \in [Actor -> Stage]
  BY DEF Begin, TypeOK
<1>2. tick' \in [Actor -> BOOLEAN]
  BY DEF Begin, TypeOK
<1>3. held' \in [Actor -> Held]
  BY DEF Begin, TypeOK
<1> QED
  BY <1>1, <1>2, <1>3

-----------------------------------------------------------------------------
(* What each handler does to the queue.                                     *)

\* The queue knows no patch that was not enqueued.
Known(q) == There(q) \subseteq log.enqueue

\* A queue with other statuses of its items.
LEMMA WithStatus ==
  ASSUME NEW q \in Queue, NEW f \in [Patch -> ItemStatus]
  PROVE  /\ [q EXCEPT !.status = f] = [status |-> f, rank |-> q.rank, kept |-> q.kept]
         /\ [q EXCEPT !.status = f] \in Queue
         /\ \A s : Item([q EXCEPT !.status = f], s) = {p \in Patch : f[p] = s}
<1>1. [q EXCEPT !.status = f] = [status |-> f, rank |-> q.rank, kept |-> q.kept]
  BY QueueFields
<1>2. [q EXCEPT !.status = f] \in Queue
  BY <1>1, QueueFields, QueueType
<1> QED
  BY <1>1, <1>2 DEF Item

LEMMA EnqueueStep ==
  ASSUME TypeOK, Known(queue), NEW p \in Patch, Enqueue(p)
  PROVE  /\ p \notin log.enqueue
         /\ queue' \in Queue
         /\ Grows(queue, p, queue')
<1> DEFINE n == 1 + Cardinality(There(queue))
           f == [queue.status EXCEPT ![p] = "queued"]
           g == [queue.rank EXCEPT ![p] = n]
           r == [status |-> f, rank |-> g, kept |-> queue.kept]
<1>1. queue \in Queue /\ p \notin log.enqueue /\ p \notin There(queue)
  BY DEF Enqueue, Known, TypeOK
<1>2. n \in 0..Cardinality(Patch)
  <2>1. IsFiniteSet(Patch) /\ There(queue) \cup {p} \subseteq Patch
    BY DeliveryAssumption DEF DeliveryAssumption, There
  <2>2. IsFiniteSet(There(queue))
    BY <2>1, FS_Subset
  <2>3. Cardinality(There(queue) \cup {p}) = n
    <3>1. Cardinality(There(queue)) \in Nat
      BY <2>2, FS_CardinalityType
    <3>2. Cardinality(There(queue) \cup {p}) = Cardinality(There(queue)) + 1
      BY <1>1, <2>2, FS_AddElement
    <3> QED
      BY <3>1, <3>2
  <2>4. Cardinality(There(queue) \cup {p}) <= Cardinality(Patch)
    BY <2>1, FS_Subset
  <2>5. Cardinality(There(queue)) \in Nat /\ Cardinality(Patch) \in Nat
    BY <2>1, <2>2, FS_CardinalityType
  <2> QED
    BY <2>3, <2>4, <2>5
<1>3. f \in [Patch -> ItemStatus] /\ g \in [Patch -> 0..Cardinality(Patch)]
  BY <1>1, <1>2, QueueFields DEF ItemStatus
<1>4. r \in Queue
  BY <1>1, <1>3, QueueFields, QueueType
<1>5. queue' = Recomputed(r)
  BY DEF Enqueue, There
<1>6. \A s : Item(r, s) = {i \in Patch : f[i] = s}
  BY DEF Item
<1>7. Grows(queue, p, r)
  <2>1. \A i \in Patch : f[i] = IF i = p THEN "queued" ELSE queue.status[i]
    BY <1>1, QueueFields
  <2>2. Waiting(r) = Waiting(queue) \cup {p}
    BY <1>6, <2>1 DEF Waiting, Item
  <2>3. Item(r, "merged") = Item(queue, "merged") \ {p}
    BY <1>6, <2>1 DEF Item
  <2>4. There(r) = There(queue) \cup {p}
    BY <1>6, <2>1 DEF There, Item
  <2> QED
    BY <2>2, <2>3, <2>4 DEF Grows
<1>8. Recomputed(r) \in Queue /\ Shrinks(r, Recomputed(r)) /\ Waiting(Recomputed(r)) = Waiting(r)
  BY <1>4, RecomputedKeeps
<1>9. Grows(queue, p, queue')
  BY <1>5, <1>7, <1>8 DEF Grows, Shrinks
<1> QED
  BY <1>1, <1>5, <1>8, <1>9

\* Some of what waits is dropped.
LEMMA DropShrinks ==
  ASSUME NEW q \in Queue, NEW D, D \cap Item(q, "merged") = {}, D \subseteq There(q)
  PROVE  LET f == [o \in Patch |-> IF o \in D THEN "dropped" ELSE q.status[o]]
         IN  f \in [Patch -> ItemStatus] /\ Shrinks(q, [q EXCEPT !.status = f])
<1> DEFINE f == [o \in Patch |-> IF o \in D THEN "dropped" ELSE q.status[o]]
           r == [q EXCEPT !.status = f]
<1>1. f \in [Patch -> ItemStatus]
  BY QueueFields DEF ItemStatus
<1>2. \A s : Item(r, s) = {o \in Patch : f[o] = s}
  BY <1>1, WithStatus
<1>3. r.rank = q.rank /\ r.kept = q.kept
  BY <1>1, WithStatus
<1> HIDE DEF r
<1>4. \A o \in Patch : f[o] = IF o \in D THEN "dropped" ELSE q.status[o]
  OBVIOUS
<1> HIDE DEF f
<1>5. Waiting(r) \subseteq Waiting(q)
  BY <1>2, <1>4 DEF Waiting, Item
<1>6. Item(r, "merged") = Item(q, "merged")
  BY <1>2, <1>4 DEF Item
<1>7. There(r) = There(q)
  BY <1>2, <1>4 DEF There, Item
<1>8. Shrinks(q, r)
  BY <1>3, <1>5, <1>6, <1>7 DEF Shrinks
<1> QED
  BY <1>1, <1>8 DEF f, r

LEMMA ResolveStep ==
  ASSUME TypeOK, NEW p \in Patch, NEW x \in Reason, Resolve(p, x)
  PROVE  queue' \in Queue /\ Resolves(queue, p, x, queue')
<1> DEFINE q == Recomputed(queue)
           others == UNION {{c[1], c[2]} : c \in {d \in Conflicts(q) : p \in {d[1], d[2]}}} \ {p}
           D == others \ Item(q, "merged")
           f == [o \in Patch |-> IF o = p THEN "queued"
                                 ELSE IF o \in D THEN "dropped" ELSE q.status[o]]
           k == q.kept \cup {<<p, x>>}
           s == [status |-> f, rank |-> q.rank, kept |-> k]
<1>1. queue \in Queue /\ q \in Queue /\ Shrinks(queue, q)
  BY RecomputedKeeps DEF TypeOK
<1>2. queue' = Recomputed(s)
  BY DEF Resolve
<1>3. p \in There(q) /\ D \subseteq There(q)
  <2>1. Conflicts(q) \subseteq Undropped(q) \X Undropped(q)
    BY DEF Conflicts, Undropped
  <2>2. others # {}
    BY DEF Resolve
  <2>3. PICK c \in Conflicts(q) : p \in {c[1], c[2]}
    BY <2>2
  <2>4. p \in Undropped(q)
    BY <2>1, <2>3
  <2>5. \A o \in others : o \in Undropped(q)
    BY <2>1
  <2>6. Undropped(q) \subseteq There(q)
    BY DEF Undropped, Waiting, There, Item
  <2> QED
    BY <2>4, <2>5, <2>6
<1> HIDE DEF D
<1>4. f \in [Patch -> ItemStatus]
  <2> HIDE DEF q
  <2> QED
    BY <1>1, QueueFields DEF ItemStatus
<1>5. k \subseteq Patch \X Reason /\ q.rank \in [Patch -> 0..Cardinality(Patch)]
  <2> HIDE DEF q
  <2> QED
    BY <1>1, QueueFields
<1>6. s \in Queue
  <2> HIDE DEF q, f, k, s
  <2> QED
    BY <1>4, <1>5, QueueType DEF s
<1>7. \A o \in Patch : f[o] = IF o = p THEN "queued"
                            ELSE IF o \in D THEN "dropped" ELSE q.status[o]
  OBVIOUS
<1>8. \A y : Item(s, y) = {o \in Patch : f[o] = y}
  BY DEF Item
<1>9. s.kept = queue.kept \cup {<<p, x>>}
  BY <1>1 DEF Shrinks
<1>10. Resolves(queue, p, x, s)
  <2> HIDE DEF q, f, k, s
  <2>1. Waiting(s) \subseteq Waiting(q) \cup {p}
    BY <1>7, <1>8 DEF Waiting, Item
  <2>2. Item(s, "merged") \subseteq Item(q, "merged")
    BY <1>7, <1>8 DEF Item
  <2>3. There(s) = There(q)
    BY <1>3, <1>7, <1>8 DEF There, Item
  <2> QED
    BY <1>1, <1>9, <2>1, <2>2, <2>3 DEF Shrinks, Resolves
<1>11. Recomputed(s) \in Queue /\ Shrinks(s, Recomputed(s))
  <2> HIDE DEF s
  <2> QED
    BY <1>6, RecomputedKeeps
<1> QED
  <2> HIDE DEF q, s
  <2> QED
    BY <1>2, <1>10, <1>11 DEF Shrinks, Resolves

\* Rework drops all that waits.
LEMMA ReworkStep ==
  ASSUME TypeOK, NEW a \in Actor, Rework(a)
  PROVE  queue' \in Queue /\ Shrinks(queue, queue')
<1>1. CASE queue' = queue
  BY <1>1 DEF TypeOK, Shrinks
<1>2. CASE queue' = [queue EXCEPT !.status = [p \in Patch |->
                       IF p \in Waiting(queue) THEN "dropped" ELSE queue.status[p]]]
  <2>1. Waiting(queue) \cap Item(queue, "merged") = {} /\ Waiting(queue) \subseteq There(queue)
    BY DEF Waiting, There, Item
  <2>2. queue \in Queue
    BY DEF TypeOK
  <2> QED
    BY <1>2, <2>1, <2>2, DropShrinks, WithStatus
<1> QED
  BY <1>1, <1>2 DEF Rework

\* A queue whose items, the dropped ones apart, are all merged.
LEMMA MergeMerges ==
  ASSUME NEW q \in Queue
  PROVE  LET f == [p \in Patch |-> IF p \in Undropped(q) THEN "merged" ELSE q.status[p]]
         IN  [q EXCEPT !.status = f] \in Queue /\ Merges(q, [q EXCEPT !.status = f])
<1> DEFINE f == [p \in Patch |-> IF p \in Undropped(q) THEN "merged" ELSE q.status[p]]
           r == [q EXCEPT !.status = f]
<1>1. f \in [Patch -> ItemStatus]
  BY QueueFields DEF ItemStatus
<1>2. r \in Queue /\ r.kept = q.kept /\ \A s : Item(r, s) = {o \in Patch : f[o] = s}
  <2> HIDE DEF f
  <2>1. r = [status |-> f, rank |-> q.rank, kept |-> q.kept] /\ r \in Queue
    BY <1>1, WithStatus
  <2>2. \A s : Item(r, s) = {o \in Patch : f[o] = s}
    BY <1>1, WithStatus
  <2>3. r.kept = q.kept
    BY <2>1
  <2> QED
    BY <2>1, <2>2, <2>3
<1> HIDE DEF r
<1>3. \A o \in Patch : f[o] = IF o \in Undropped(q) THEN "merged" ELSE q.status[o]
  OBVIOUS
<1> HIDE DEF f
<1>4. Waiting(r) = {}
  BY <1>2, <1>3 DEF Undropped, Waiting, Item
<1>5. Item(r, "merged") = Undropped(q)
  BY <1>2, <1>3 DEF Undropped, Waiting, Item
<1>6. There(r) = There(q)
  BY <1>2, <1>3 DEF There, Undropped, Waiting, Item
<1>7. Merges(q, r)
  BY <1>2, <1>4, <1>5, <1>6 DEF Merges
<1> QED
  BY <1>2, <1>7 DEF f, r

-----------------------------------------------------------------------------
(* Every step keeps the types.                                              *)

LEMMA OutsideTypes ==
  ASSUME TypeOK, Known(queue), Outside, UNCHANGED policy, disturbed' \in BOOLEAN
  PROVE  TypeOK'
<1>0. TheRun' = TheRun /\ TheRun.maxEdits \in Nat
  BY TheRunType DEF TheRun
<1>1. ASSUME NEW p \in Patch, Enqueue(p)
      PROVE  TypeOK'
  <2>1. log' \in Log
    BY <1>1 DEF Enqueue, TypeOK, Log
  <2> QED
    BY <1>0, <1>1, <2>1, EnqueueStep DEF Enqueue, actorVars, TypeOK
<1>2. ASSUME NEW p \in Patch, NEW r \in Reason, Resolve(p, r)
      PROVE  TypeOK'
  <2>1. log' \in Log
    BY <1>2 DEF Resolve, TypeOK, Log
  <2> QED
    BY <1>0, <1>2, <2>1, ResolveStep DEF Resolve, actorVars, TypeOK
<1>3. ASSUME NEW b \in Base, EditSource(b)
      PROVE  TypeOK'
  <2>1. source' \in Source
    BY <1>3 DEF EditSource, TypeOK, Source
  <2>2. edits' \in 0..TheRun.maxEdits
    BY <1>0, <1>3 DEF EditSource, TypeOK
  <2> QED
    BY <1>0, <1>3, <2>1, <2>2 DEF EditSource, actorVars, TypeOK
<1>4. CASE PassExecute
  BY <1>0, <1>4 DEF PassExecute, actorVars, TypeOK, Node
<1>5. ASSUME NEW i \in approvals, Expire(i) \/ Decide(i, "approved") \/ Decide(i, "rejected")
      PROVE  TypeOK'
  <2>1. /\ [i EXCEPT !.expired = TRUE] \in Approval
        /\ \A d \in {"approved", "rejected"} : [i EXCEPT !.decision = d] \in Approval
    BY DEF TypeOK, Approval
  <2>2. approvals' \subseteq Approval
    BY <1>5, <2>1 DEF Expire, Decide, TypeOK
  <2> QED
    BY <1>0, <1>5, <2>2 DEF Expire, Decide, actorVars, TypeOK
<1> QED
  BY <1>1, <1>2, <1>3, <1>4, <1>5 DEF Outside

LEMMA VerifyTypes ==
  ASSUME TypeOK, NEW a \in Actor, Verify(a), UNCHANGED policy, disturbed' \in BOOLEAN
  PROVE  TypeOK'
<1>0. TheRun' = TheRun
  BY DEF TheRun
<1>1. CASE BeginVerification(a)
  <2>1. [Nothing EXCEPT !.queue = queue] \in Held
    BY NothingType DEF TypeOK, Held
  <2>2. pc' \in [Actor -> Stage] /\ tick' \in [Actor -> BOOLEAN] /\ held' \in [Actor -> Held]
    BY <1>1, <2>1, BeginType DEF BeginVerification, Stage
  <2> QED
    BY <1>0, <1>1, <2>2 DEF BeginVerification, storeVars, TypeOK
<1>2. CASE StagePatches(a)
  <2> DEFINE q == Recomputed(held[a].queue)
             s == [patches |-> Waiting(q), source |-> source, sound |-> Conflicts(q) = {}]
  <2>1. held[a] \in Held /\ held[a].queue \in Queue /\ source \in Source
    BY DEF TypeOK, Held
  <2>2. q \in Queue
    BY <2>1, RecomputedKeeps
  <2>3. Waiting(q) \subseteq Patch /\ (Conflicts(q) = {}) \in BOOLEAN
    BY DEF Waiting, Item
  <2>4. s \in Staged
    BY <2>1, <2>3 DEF Staged
  <2>5. [held[a] EXCEPT !.staged = s] \in Held
    BY <2>1, <2>4 DEF Held
  <2>6. queue' = q /\ Goto(a, "candidate", [held[a] EXCEPT !.staged = s])
    BY <1>2 DEF StagePatches
  <2>7. pc' \in [Actor -> Stage] /\ tick' \in [Actor -> BOOLEAN] /\ held' \in [Actor -> Held]
    BY <2>5, <2>6, GotoType DEF Stage
  <2> QED
    BY <1>0, <1>2, <2>2, <2>6, <2>7 DEF StagePatches, TypeOK
<1>3. CASE BuildCandidate(a)
  <2>1. Current \in Digest /\ held[a] \in Held
    BY CandidateType DEF TypeOK, Current
  <2>2. [held[a] EXCEPT !.digest = Current] \in Held
    BY <2>1 DEF Held
  <2>3. pc' \in [Actor -> Stage] /\ tick' \in [Actor -> BOOLEAN] /\ held' \in [Actor -> Held]
    BY <1>3, <2>2, GotoType DEF BuildCandidate, Stage
  <2> QED
    BY <1>0, <1>3, <2>3 DEF BuildCandidate, storeVars, TypeOK
<1>4. CASE CommitVerification(a)
  <2>1. PICK s \in Verdict :
          /\ \/ UNCHANGED <<verification, log>>
             \/ /\ verification' = [digest |-> held[a].digest, status |-> s,
                                    staged |-> held[a].staged]
                /\ log' = [log EXCEPT !.verify = @ \cup {verification'}]
          /\ Goto(a, IF s = "PASS" /\ tick[a] THEN "passverify" ELSE "idle", Nothing)
    BY <1>4 DEF CommitVerification
  <2>2. [digest |-> held[a].digest, status |-> s, staged |-> held[a].staged] \in Verification
    BY DEF TypeOK, Held, Verification
  <2>3. verification' \in Verification \cup {None} /\ log' \in Log
    BY <2>1, <2>2 DEF TypeOK, Log
  <2>4. pc' \in [Actor -> Stage] /\ tick' \in [Actor -> BOOLEAN] /\ held' \in [Actor -> Held]
    BY <2>1, NothingType, GotoType DEF Stage
  <2> QED
    BY <1>0, <1>4, <2>3, <2>4 DEF CommitVerification, TypeOK
<1>5. CASE PassVerify(a)
  <2>1. pc' \in [Actor -> Stage] /\ tick' \in [Actor -> BOOLEAN] /\ held' \in [Actor -> Held]
    BY <1>5, NothingType, GotoType DEF PassVerify, PassNode, Stage
  <2> QED
    BY <1>0, <1>5, <2>1 DEF PassVerify, PassNode, TypeOK, Node
<1> QED
  BY <1>1, <1>2, <1>3, <1>4, <1>5 DEF Verify

LEMMA ReviewTypes ==
  ASSUME TypeOK, NEW a \in Actor, ReviewOrRework(a), UNCHANGED policy, disturbed' \in BOOLEAN
  PROVE  TypeOK'
<1>0. TheRun' = TheRun
  BY DEF TheRun
<1>1. CASE BeginReview(a)
  <2> DEFINE key == [verified |-> "verify" \in passed, report |-> verification,
                     digest |-> Current]
  <2>1. Current \in Digest
    BY CandidateType DEF TypeOK, Current
  <2>2. key \in ReviewKey
    BY <2>1 DEF ReviewKey, TypeOK
  <2>3. [Nothing EXCEPT !.key = key] \in Held
    <3> HIDE DEF key
    <3> QED
      BY <2>2, NothingType DEF Held
  <2>4. pc' \in [Actor -> Stage] /\ tick' \in [Actor -> BOOLEAN] /\ held' \in [Actor -> Held]
    BY <1>1, <2>3, BeginType DEF BeginReview, Stage
  <2> QED
    BY <1>0, <1>1, <2>4 DEF BeginReview, storeVars, TypeOK
<1>2. CASE CommitReview(a)
  <2> DEFINE earlier == {r \in log.review : r.key = held[a].key}
  <2>1. PICK s \in Verdict, d \in {Current} \cup {r.result.digest : r \in earlier} :
          /\ \/ UNCHANGED <<queue, review, log>>
             \/ /\ queue' = Recomputed(queue)
                /\ review' = [digest |-> d, status |-> s]
                /\ log' = [log EXCEPT !.review = @ \cup {[key |-> held[a].key, result |-> review']}]
          /\ Goto(a, CASE ~tick[a] -> "idle"
                       [] tick[a] /\ s = "PASS" -> "passreview"
                       [] tick[a] /\ s = "FAIL" -> "blocked",
                  [Nothing EXCEPT !.digest = d])
    BY <1>2 DEF CommitReview
  <2>2. d \in Digest
    <3>1. Current \in Digest
      BY CandidateType DEF TypeOK, Current
    <3>2. \A r \in earlier : r.result.digest \in Digest
      BY DEF TypeOK, Log, Review
    <3> QED
      BY <3>1, <3>2
  <2>3. [Nothing EXCEPT !.digest = d] \in Held
    BY <2>2, NothingType DEF Held
  <2>4. /\ (CASE ~tick[a] -> "idle"
              [] tick[a] /\ s = "PASS" -> "passreview"
              [] tick[a] /\ s = "FAIL" -> "blocked") \in Stage
    <3>1. tick[a] \in BOOLEAN /\ s \in {"PASS", "FAIL"}
      BY DEF TypeOK, Verdict
    <3> QED
      BY <3>1 DEF Stage
  <2>5. pc' \in [Actor -> Stage] /\ tick' \in [Actor -> BOOLEAN] /\ held' \in [Actor -> Held]
    BY <2>1, <2>3, <2>4, GotoType
  <2>6. queue' \in Queue /\ review' \in Review \cup {None} /\ log' \in Log
    <3>1. CASE UNCHANGED <<queue, review, log>>
      BY <3>1 DEF TypeOK
    <3>2. CASE /\ queue' = Recomputed(queue)
               /\ review' = [digest |-> d, status |-> s]
               /\ log' = [log EXCEPT !.review = @ \cup {[key |-> held[a].key, result |-> review']}]
      <4>1. review' \in Review
        BY <2>2, <3>2 DEF Review
      <4>2. [key |-> held[a].key, result |-> review'] \in [key : ReviewKey, result : Review]
        BY <4>1 DEF TypeOK, Held
      <4>3. log' \in Log
        BY <3>2, <4>2 DEF TypeOK, Log
      <4>4. queue' \in Queue
        BY <3>2, RecomputedKeeps DEF TypeOK
      <4> QED
        BY <4>1, <4>3, <4>4
    <3> QED
      BY <2>1, <3>1, <3>2
  <2> QED
    BY <1>0, <1>2, <2>5, <2>6 DEF CommitReview, TypeOK
<1>3. CASE PassReview(a)
  <2>1. pc' \in [Actor -> Stage] /\ tick' \in [Actor -> BOOLEAN] /\ held' \in [Actor -> Held]
    BY <1>3, NothingType, GotoType DEF PassReview, PassNode, Stage
  <2> QED
    BY <1>0, <1>3, <2>1 DEF PassReview, PassNode, TypeOK, Node
<1>4. CASE Rework(a)
  <2>1. pc' \in [Actor -> Stage] /\ tick' \in [Actor -> BOOLEAN] /\ held' \in [Actor -> Held]
    BY <1>4, NothingType, GotoType DEF Rework, Stage
  <2>2. queue' \in Queue
    BY <1>4, ReworkStep
  <2>3. held[a].digest \in Digest
    BY DEF TypeOK, Held
  <2>4. log' \in Log /\ passed' \subseteq Node
    BY <1>4, <2>3 DEF Rework, TypeOK, Log
  <2> QED
    BY <1>0, <1>4, <2>1, <2>2, <2>4 DEF Rework, TypeOK
<1> QED
  BY <1>1, <1>2, <1>3, <1>4 DEF ReviewOrRework

LEMMA UndroppedType ==
  ASSUME NEW q
  PROVE  Undropped(q) \subseteq Patch /\ Waiting(q) \subseteq Patch
  BY DEF Undropped, Waiting, Item

LEMMA IntegrateTypes ==
  ASSUME TypeOK, NEW a \in Actor, Integrate(a) \/ Stop(a), UNCHANGED policy,
         disturbed' \in BOOLEAN
  PROVE  TypeOK'
<1>0. TheRun' = TheRun /\ Current \in Digest
  BY CandidateType DEF TheRun, TypeOK, Current
<1>1. CASE BeginMerge(a)
  <2>1. [queue |-> Recomputed(queue), staged |-> NoStaged, digest |-> Current, key |-> NoKey]
          \in Held
    BY <1>0, RecomputedKeeps, NothingType, HeldType DEF TypeOK
  <2>2. pc' \in [Actor -> Stage] /\ tick' \in [Actor -> BOOLEAN] /\ held' \in [Actor -> Held]
    BY <1>1, <2>1, BeginType DEF BeginMerge, Stage
  <2> QED
    BY <1>0, <1>1, <2>2 DEF BeginMerge, storeVars, TypeOK
<1>2. CASE RequestApproval(a)
  <2>0. [digest |-> Current, decision |-> "pending", expired |-> FALSE] \in Approval
    BY <1>0 DEF Approval
  <2>1. approvals' \subseteq Approval
    BY <1>2, <2>0 DEF RequestApproval, TypeOK
  <2> QED
    BY <1>0, <1>2, <2>1 DEF RequestApproval, actorVars, TypeOK
<1>3. CASE CommitMerge(a)
  <2> DEFINE q == held[a].queue
             m == [digest |-> held[a].digest, patches |-> Undropped(q)]
  <2>1. q \in Queue /\ m \in Merge
    BY UndroppedType DEF TypeOK, Held, Merge
  <2>2. pc' \in [Actor -> Stage] /\ tick' \in [Actor -> BOOLEAN] /\ held' \in [Actor -> Held]
    <3>1. Goto(a, IF tick[a] THEN "passintegrate" ELSE "idle", Nothing)
      BY <1>3 DEF CommitMerge
    <3> QED
      BY <3>1, NothingType, GotoType DEF Stage
  <2>3. CASE UNCHANGED <<queue, source, integration, log>>
    BY <1>0, <1>3, <2>2, <2>3 DEF CommitMerge, TypeOK
  <2>4. CASE /\ queue' = [q EXCEPT !.status = [p \in Patch |->
                            IF p \in Undropped(q) THEN "merged" ELSE q.status[p]]]
             /\ source' = [source EXCEPT !.merged = @ \cup Undropped(q)]
             /\ integration' = m
             /\ log' = [log EXCEPT !.merge = @ \cup {m}]
    <3>1. queue' \in Queue
      BY <2>1, <2>4, MergeMerges
    <3>2. source' \in Source
      BY <2>4, UndroppedType DEF TypeOK, Source
    <3>3. log' \in Log
      <4> HIDE DEF m
      <4> QED
        BY <2>1, <2>4 DEF TypeOK, Log
    <3> QED
      BY <1>0, <1>3, <2>1, <2>2, <2>4, <3>1, <3>2, <3>3 DEF CommitMerge, TypeOK
  <2> QED
    BY <1>3, <2>3, <2>4 DEF CommitMerge
<1>4. CASE MergeNothing(a)
  <2>1. integration' \in Merge
    BY <1>0, <1>4 DEF MergeNothing, Merge
  <2>2. pc' \in [Actor -> Stage] /\ tick' \in [Actor -> BOOLEAN] /\ held' \in [Actor -> Held]
    BY <1>4, NothingType, BeginType DEF MergeNothing, Stage
  <2> QED
    BY <1>0, <1>4, <2>1, <2>2 DEF MergeNothing, TypeOK
<1>5. CASE PassIntegrate(a)
  <2>1. pc' \in [Actor -> Stage] /\ tick' \in [Actor -> BOOLEAN] /\ held' \in [Actor -> Held]
    BY <1>5, NothingType, GotoType DEF PassIntegrate, PassNode, Stage
  <2> QED
    BY <1>0, <1>5, <2>1 DEF PassIntegrate, PassNode, TypeOK, Node
<1>6. CASE Stop(a)
  <2>1. pc' \in [Actor -> Stage] /\ tick' \in [Actor -> BOOLEAN] /\ held' \in [Actor -> Held]
    BY <1>6, NothingType, GotoType DEF Stop, Stage
  <2> QED
    BY <1>0, <1>6, <2>1 DEF Stop, storeVars, TypeOK
<1> QED
  BY <1>1, <1>2, <1>3, <1>4, <1>5, <1>6 DEF Integrate

LEMMA TypeStep ==
  ASSUME TypeOK, Known(queue), [Next]_vars
  PROVE  TypeOK'
<1>1. CASE Next
  <2>1. UNCHANGED policy /\ disturbed' \in BOOLEAN
    BY <1>1 DEF Next, Marked, TypeOK
  <2> QED
    BY <1>1, <2>1, OutsideTypes, VerifyTypes, ReviewTypes, IntegrateTypes DEF Next, Work
<1>2. CASE UNCHANGED vars
  <2>1. TheRun' = TheRun
    BY <1>2 DEF vars, runVars, TheRun
  <2> QED
    BY <1>2, <2>1 DEF vars, storeVars, actorVars, runVars, TypeOK
<1> QED
  BY <1>1, <1>2

LEMMA TypeInit == Init => TypeOK /\ Known(queue)
<1> SUFFICES ASSUME Init
             PROVE  TypeOK /\ Known(queue)
  OBVIOUS
<1>1. 0 \in 0..TheRun.maxEdits
  BY DeliveryAssumption DEF DeliveryAssumption, Init, TheRun, RunKind
<1>2. log \in Log
  BY DEF Init, Log
<1>3. queue \in Queue /\ There(queue) = {} /\ source \in Source
  BY EmptyQueueFacts, NothingType DEF Init
<1>4. held \in [Actor -> Held]
  BY NothingType DEF Init
<1>5. pc \in [Actor -> Stage]
  BY DEF Init, Stage
<1>6. TypeOK
  BY <1>1, <1>2, <1>3, <1>4, <1>5 DEF Init, TypeOK
<1> QED
  BY <1>3, <1>6 DEF Known

-----------------------------------------------------------------------------
(* The queues: the one on disk and those that processes hold.               *)

AllQueues == {queue} \cup {held[a].queue : a \in Actor}

QueueInv ==
  \A q \in AllQueues : /\ Known(q)
                       /\ Item(q, "merged") \subseteq source.merged
                       /\ q.kept \subseteq log.resolve

\* Where the queues of the next state come from.
Derived(r) ==
  \E q \in AllQueues :
    /\ There(r) \subseteq There(q)
    /\ Item(r, "merged") \subseteq Item(q, "merged") \cup source'.merged
    /\ r.kept \subseteq q.kept \cup log'.resolve

Enqueues ==
  /\ \E p \in Patch \ log.enqueue : /\ Grows(queue, p, queue')
                                    /\ log.enqueue' = log.enqueue \cup {p}
  /\ held' = held
  /\ source' = source
  /\ log.resolve' = log.resolve

Derives ==
  /\ \A r \in AllQueues' : Derived(r)
  /\ log.enqueue' = log.enqueue
  /\ source.merged \subseteq source'.merged
  /\ log.resolve \subseteq log'.resolve

LEMMA AllQueuesType == TypeOK => \A q \in AllQueues : q \in Queue
  BY DEF AllQueues, TypeOK, Held

LEMMA ShrinksDerived ==
  ASSUME NEW q \in AllQueues, NEW r, Shrinks(q, r)
  PROVE  Derived(r)
  BY DEF Shrinks, Derived

LEMMA DerivedOnes ==
  ASSUME TypeOK
  PROVE  /\ Derived(queue)
         /\ Derived(EmptyQueue)
         /\ \A a \in Actor : Derived(held[a].queue)
         /\ \A q \in AllQueues : Derived(Recomputed(q))
<1>1. queue \in AllQueues /\ \A a \in Actor : held[a].queue \in AllQueues
  BY DEF AllQueues
<1>2. \A q \in AllQueues : Derived(q)
  BY DEF Derived
<1>3. Derived(EmptyQueue)
  <2>1. EmptyQueue.kept = {}
    BY DEF EmptyQueue
  <2> QED
    BY <1>1, <2>1, EmptyQueueFacts DEF Derived
<1>4. \A q \in AllQueues : Derived(Recomputed(q))
  BY RecomputedKeeps, AllQueuesType, ShrinksDerived
<1> QED
  BY <1>1, <1>2, <1>3, <1>4

\* A process goes on with the queue it held, or with another.
LEMMA GotoQueues ==
  ASSUME TypeOK, NEW a \in Actor, NEW s, NEW h, Goto(a, s, h),
         Derived(queue'), Derived(h.queue)
  PROVE  \A r \in AllQueues' : Derived(r)
<1>1. Nothing.queue = EmptyQueue
  BY DEF Nothing
<1>2. \A b \in Actor : held'[b] \in {held[b], Nothing, h}
  BY DEF Goto, TypeOK
<1>3. \A b \in Actor : Derived(held[b].queue)
  BY DerivedOnes
<1>4. Derived(EmptyQueue)
  BY DerivedOnes
<1>5. \A b \in Actor : Derived(held'[b].queue)
  BY <1>1, <1>2, <1>3, <1>4
<1> QED
  BY <1>5 DEF AllQueues

LEMMA BeginQueues ==
  ASSUME TypeOK, NEW a \in Actor, NEW s, NEW h, NEW b, NEW n, Begin(a, s, h, b, n),
         queue' = queue, Derived(h.queue)
  PROVE  \A r \in AllQueues' : Derived(r)
<1>1. \A c \in Actor : held'[c] \in {held[c], h}
  BY DEF Begin, TypeOK
<1>2. \A c \in Actor : Derived(held[c].queue)
  BY DerivedOnes
<1>3. \A c \in Actor : Derived(held'[c].queue)
  BY <1>1, <1>2
<1>4. Derived(queue')
  BY DerivedOnes
<1> QED
  BY <1>3, <1>4 DEF AllQueues

LEMMA SameQueues ==
  ASSUME TypeOK, held' = held, Derived(queue')
  PROVE  \A r \in AllQueues' : Derived(r)
  BY DerivedOnes DEF AllQueues

LEMMA OutsideQueues ==
  ASSUME TypeOK, Known(queue), Outside
  PROVE  Enqueues \/ Derives
<1>1. ASSUME NEW p \in Patch, Enqueue(p)
      PROVE  Enqueues
  <2>1. log'.enqueue = log.enqueue \cup {p} /\ log'.resolve = log.resolve
    BY <1>1 DEF Enqueue, TypeOK, Log
  <2> QED
    BY <1>1, <2>1, EnqueueStep DEF Enqueues, Enqueue, actorVars
<1>2. ASSUME NEW p \in Patch, NEW r \in Reason, Resolve(p, r)
      PROVE  Derives
  <2>1. log'.enqueue = log.enqueue /\ log'.resolve = log.resolve \cup {<<p, r>>}
    BY <1>2 DEF Resolve, TypeOK, Log
  <2>2. Derived(queue')
    BY <1>2, <2>1, ResolveStep DEF Derived, Resolves, AllQueues
  <2> QED
    BY <1>2, <2>1, <2>2, SameQueues DEF Derives, Resolve, actorVars
<1>3. CASE UNCHANGED <<queue, log, actorVars>> /\ source.merged \subseteq source'.merged
  BY <1>3, DerivedOnes, SameQueues DEF Derives, actorVars
<1>4. ASSUME NEW b \in Base, EditSource(b)
      PROVE  UNCHANGED <<queue, log, actorVars>> /\ source.merged \subseteq source'.merged
  BY <1>4 DEF EditSource, TypeOK, Source
<1> QED
  BY <1>1, <1>2, <1>3, <1>4 DEF Outside, PassExecute, Expire, Decide

LEMMA VerifyQueues ==
  ASSUME TypeOK, NEW a \in Actor, Verify(a)
  PROVE  Derives
<1>0. Nothing.queue = EmptyQueue /\ Derived(queue) /\ Derived(EmptyQueue)
      /\ held[a] \in Held /\ Derived(held[a].queue) /\ held[a].queue \in AllQueues
  BY DerivedOnes DEF Nothing, TypeOK, AllQueues
<1>1. CASE BeginVerification(a)
  <2>1. [Nothing EXCEPT !.queue = queue].queue = queue
    BY DEF Nothing
  <2> QED
    BY <1>0, <1>1, <2>1, BeginQueues DEF Derives, BeginVerification, storeVars
<1>2. CASE StagePatches(a)
  <2> DEFINE q == Recomputed(held[a].queue)
             h == [held[a] EXCEPT !.staged =
                     [patches |-> Waiting(q), source |-> source, sound |-> Conflicts(q) = {}]]
  <2>1. queue' = q /\ Goto(a, "candidate", h) /\ UNCHANGED <<source, log>>
    BY <1>2 DEF StagePatches
  <2>2. h.queue = held[a].queue
    BY <1>0 DEF Held
  <2>3. Derived(q)
    BY <1>0, DerivedOnes
  <2> QED
    BY <1>0, <2>1, <2>2, <2>3, GotoQueues DEF Derives
<1>3. CASE BuildCandidate(a)
  <2>1. [held[a] EXCEPT !.digest = Current].queue = held[a].queue
    BY <1>0 DEF Held
  <2> QED
    BY <1>0, <1>3, <2>1, GotoQueues DEF Derives, BuildCandidate, storeVars
<1>4. CASE CommitVerification(a)
  <2>1. log'.enqueue = log.enqueue /\ log'.resolve = log.resolve
    BY <1>4 DEF CommitVerification, TypeOK, Log
  <2>2. \E s : Goto(a, s, Nothing)
    BY <1>4 DEF CommitVerification
  <2>3. UNCHANGED <<queue, source>>
    BY <1>4 DEF CommitVerification
  <2> QED
    BY <1>0, <2>1, <2>2, <2>3, GotoQueues DEF Derives
<1>5. CASE PassVerify(a)
  BY <1>0, <1>5, GotoQueues DEF Derives, PassVerify, PassNode
<1> QED
  BY <1>1, <1>2, <1>3, <1>4, <1>5 DEF Verify

LEMMA ReviewQueues ==
  ASSUME TypeOK, NEW a \in Actor, ReviewOrRework(a)
  PROVE  Derives
<1>0. Nothing.queue = EmptyQueue /\ Derived(queue) /\ Derived(EmptyQueue)
  BY DerivedOnes DEF Nothing
<1>1. CASE BeginReview(a)
  <2> DEFINE h == [Nothing EXCEPT !.key = [verified |-> "verify" \in passed,
                                           report |-> verification, digest |-> Current]]
  <2>1. h.queue = EmptyQueue
    BY DEF Nothing
  <2>2. Begin(a, "review", h, "verify", "review") /\ UNCHANGED <<queue, source, log>>
    BY <1>1 DEF BeginReview, storeVars
  <2> HIDE DEF h
  <2>3. \A r \in AllQueues' : Derived(r)
    BY <1>0, <2>1, <2>2, BeginQueues
  <2> QED
    BY <2>2, <2>3 DEF Derives
<1>2. CASE CommitReview(a)
  <2>1. log'.enqueue = log.enqueue /\ log'.resolve = log.resolve /\ UNCHANGED source
    BY <1>2 DEF CommitReview, TypeOK, Log
  <2>2. \E s, d : Goto(a, s, [Nothing EXCEPT !.digest = d])
    BY <1>2 DEF CommitReview
  <2>3. queue' \in {queue, Recomputed(queue)}
    BY <1>2 DEF CommitReview
  <2>4. Derived(queue')
    BY <1>0, <2>3, DerivedOnes DEF AllQueues
  <2>5. \A d : [Nothing EXCEPT !.digest = d].queue = EmptyQueue
    BY DEF Nothing
  <2> QED
    BY <1>0, <2>1, <2>2, <2>4, <2>5, GotoQueues DEF Derives
<1>3. CASE PassReview(a)
  BY <1>0, <1>3, GotoQueues DEF Derives, PassReview, PassNode
<1>4. CASE Rework(a)
  <2>1. Derived(queue')
    BY <1>4, ReworkStep, ShrinksDerived DEF AllQueues
  <2>2. log'.enqueue = log.enqueue /\ log'.resolve = log.resolve /\ UNCHANGED source
        /\ Goto(a, "idle", Nothing)
    BY <1>4 DEF Rework, TypeOK, Log
  <2> QED
    BY <1>0, <2>1, <2>2, GotoQueues DEF Derives
<1> QED
  BY <1>1, <1>2, <1>3, <1>4 DEF ReviewOrRework

LEMMA IntegrateQueues ==
  ASSUME TypeOK, NEW a \in Actor, Integrate(a) \/ Stop(a)
  PROVE  Derives
<1>0. Nothing.queue = EmptyQueue /\ Derived(queue) /\ Derived(EmptyQueue)
      /\ Derived(Recomputed(queue)) /\ held[a].queue \in AllQueues /\ held[a].queue \in Queue
  BY DerivedOnes DEF Nothing, AllQueues, TypeOK, Held
<1>1. CASE BeginMerge(a)
  BY <1>0, <1>1, BeginQueues DEF Derives, BeginMerge, storeVars
<1>2. CASE RequestApproval(a)
  BY <1>0, <1>2, SameQueues DEF Derives, RequestApproval, actorVars
<1>3. CASE CommitMerge(a)
  <2> DEFINE q == held[a].queue
             f == [p \in Patch |-> IF p \in Undropped(q) THEN "merged" ELSE q.status[p]]
  <2>1. PICK s : Goto(a, s, Nothing)
    BY <1>3 DEF CommitMerge
  <2>2. log'.enqueue = log.enqueue /\ log'.resolve = log.resolve
    BY <1>3 DEF CommitMerge, TypeOK, Log
  <2>3. CASE UNCHANGED <<queue, source, integration, log>>
    BY <1>0, <2>1, <2>2, <2>3, GotoQueues DEF Derives
  <2>4. CASE /\ queue' = [q EXCEPT !.status = f]
             /\ source' = [source EXCEPT !.merged = @ \cup Undropped(q)]
    <3>1. source'.merged = source.merged \cup Undropped(q)
      BY <2>4 DEF TypeOK, Source
    <3>2. Merges(q, queue')
      BY <1>0, <2>4, MergeMerges
    <3>3. Derived(queue')
      BY <1>0, <3>1, <3>2 DEF Derived, Merges
    <3> QED
      BY <1>0, <2>1, <2>2, <3>1, <3>3, GotoQueues DEF Derives
  <2> QED
    BY <1>3, <2>3, <2>4 DEF CommitMerge
<1>4. CASE MergeNothing(a)
  BY <1>0, <1>4, BeginQueues DEF Derives, MergeNothing
<1>5. CASE PassIntegrate(a)
  BY <1>0, <1>5, GotoQueues DEF Derives, PassIntegrate, PassNode
<1>6. CASE Stop(a)
  BY <1>0, <1>6, GotoQueues DEF Derives, Stop, storeVars
<1> QED
  BY <1>1, <1>2, <1>3, <1>4, <1>5, <1>6 DEF Integrate

LEMMA QueueSteps ==
  ASSUME TypeOK, Known(queue), [Next]_vars
  PROVE  Enqueues \/ Derives
<1>1. CASE Next
  BY <1>1, OutsideQueues, VerifyQueues, ReviewQueues, IntegrateQueues DEF Next, Work
<1>2. CASE UNCHANGED vars
  BY <1>2, DerivedOnes, SameQueues DEF Derives, vars, storeVars, actorVars
<1> QED
  BY <1>1, <1>2

LEMMA QueueInit == Init => QueueInv
<1> SUFFICES ASSUME Init
             PROVE  QueueInv
  OBVIOUS
<1>1. \A q \in AllQueues : q = EmptyQueue
  BY DEF Init, AllQueues, Nothing
<1>2. EmptyQueue.kept = {}
  BY DEF EmptyQueue
<1> QED
  BY <1>1, <1>2, EmptyQueueFacts DEF QueueInv, Known

LEMMA WaitingIsThere ==
  ASSUME NEW q
  PROVE  Waiting(q) \subseteq There(q) /\ Item(q, "merged") \subseteq There(q)
  BY DEF Waiting, There, Item

LEMMA QueueDerives ==
  ASSUME QueueInv, Derives
  PROVE  QueueInv'
<1>1. ASSUME NEW r \in AllQueues'
      PROVE  /\ There(r) \subseteq log'.enqueue
             /\ Item(r, "merged") \subseteq source'.merged
             /\ r.kept \subseteq log'.resolve
  <2>1. PICK q \in AllQueues :
          /\ There(r) \subseteq There(q)
          /\ Item(r, "merged") \subseteq Item(q, "merged") \cup source'.merged
          /\ r.kept \subseteq q.kept \cup log'.resolve
    BY DEF Derives, Derived
  <2>2. There(q) \subseteq log.enqueue /\ Item(q, "merged") \subseteq source.merged
        /\ q.kept \subseteq log.resolve
    BY DEF QueueInv, Known
  <2> QED
    BY <2>1, <2>2 DEF Derives
<1> QED
  BY <1>1 DEF QueueInv, Known

LEMMA QueueEnqueues ==
  ASSUME QueueInv, Enqueues
  PROVE  QueueInv'
<1>1. PICK p \in Patch \ log.enqueue :
             Grows(queue, p, queue') /\ log'.enqueue = log.enqueue \cup {p}
  BY DEF Enqueues
<1>2. held' = held /\ source' = source /\ log'.resolve = log.resolve /\ queue \in AllQueues
  BY DEF Enqueues, AllQueues
<1>3. \A q \in AllQueues' : q = queue' \/ q \in AllQueues
  BY <1>2 DEF AllQueues
<1>4. ASSUME NEW q \in AllQueues'
      PROVE  /\ There(q) \subseteq log'.enqueue
             /\ Item(q, "merged") \subseteq source'.merged
             /\ q.kept \subseteq log'.resolve
  BY <1>1, <1>2, <1>3 DEF QueueInv, Known, Grows
<1> QED
  BY <1>4 DEF QueueInv, Known

LEMMA QueueStep == ASSUME TypeOK, QueueInv, [Next]_vars PROVE QueueInv'
<1>1. Known(queue)
  BY DEF QueueInv, AllQueues
<1> QED
  BY <1>1, QueueSteps, QueueDerives, QueueEnqueues

\* What a step does to the queue on disk.
QueueMoves ==
  \/ Shrinks(queue, queue')
  \/ \E p \in Patch \ log.enqueue : Grows(queue, p, queue')
  \/ \E p, x : <<p, x>> \notin log.resolve /\ Resolves(queue, p, x, queue')
  \/ \E a \in Actor : pc[a] = "stage" /\ Shrinks(held[a].queue, queue')
  \/ \E a \in Actor : pc[a] = "merge" /\ Merges(held[a].queue, queue')

LEMMA QueueMove ==
  ASSUME TypeOK, Known(queue), [Next]_vars
  PROVE  QueueMoves
<1>1. CASE queue' = queue
  BY <1>1 DEF QueueMoves, Shrinks
<1>2. ASSUME NEW p \in Patch, Enqueue(p)
      PROVE  QueueMoves
  BY <1>2, EnqueueStep DEF QueueMoves
<1>3. ASSUME NEW p \in Patch, NEW r \in Reason, Resolve(p, r)
      PROVE  QueueMoves
  <2>1. <<p, r>> \notin log.resolve
    BY <1>3 DEF Resolve
  <2> QED
    BY <1>3, <2>1, ResolveStep DEF QueueMoves
<1>4. CASE Outside
  BY <1>1, <1>2, <1>3, <1>4 DEF Outside, EditSource, PassExecute, Expire, Decide
<1>5. ASSUME NEW a \in Actor, StagePatches(a)
      PROVE  QueueMoves
  <2>1. held[a].queue \in Queue /\ queue' = Recomputed(held[a].queue) /\ pc[a] = "stage"
    BY <1>5 DEF StagePatches, TypeOK, Held
  <2> QED
    BY <2>1, RecomputedKeeps DEF QueueMoves
<1>6. ASSUME NEW a \in Actor, CommitReview(a), queue' # queue
      PROVE  QueueMoves
  <2>1. queue' = Recomputed(queue) /\ queue \in Queue
    BY <1>6 DEF CommitReview, TypeOK
  <2> QED
    BY <2>1, RecomputedKeeps DEF QueueMoves
<1>7. ASSUME NEW a \in Actor, Rework(a)
      PROVE  QueueMoves
  BY <1>7, ReworkStep DEF QueueMoves
<1>8. ASSUME NEW a \in Actor, CommitMerge(a), queue' # queue
      PROVE  QueueMoves
  <2>1. held[a].queue \in Queue
    BY DEF TypeOK, Held
  <2>2. Merges(held[a].queue, queue') /\ pc[a] = "merge"
    BY <1>8, <2>1, MergeMerges DEF CommitMerge
  <2> QED
    BY <2>2 DEF QueueMoves
<1>9. ASSUME NEW a \in Actor, Work(a) \/ Stop(a), queue' # queue
      PROVE  StagePatches(a) \/ CommitReview(a) \/ Rework(a) \/ CommitMerge(a)
  BY <1>9 DEF Work, Verify, ReviewOrRework, Integrate, BeginVerification, BuildCandidate,
              CommitVerification, PassVerify, BeginReview, PassReview, BeginMerge,
              RequestApproval, MergeNothing, PassIntegrate, Stop, PassNode, storeVars
<1> QED
  BY <1>1, <1>4, <1>5, <1>6, <1>7, <1>8, <1>9 DEF Next, vars, storeVars

-----------------------------------------------------------------------------
(* Who writes the reports and what is kept of them.                         *)

ReportsKept ==
  /\ UNCHANGED <<verification, log.verify>> \/ \E a \in Actor : CommitVerification(a)
  /\ UNCHANGED <<review, log.review>> \/ \E a \in Actor : CommitReview(a)
  /\ UNCHANGED <<integration, log.merge>> \/ \E a \in Actor : CommitMerge(a) \/ MergeNothing(a)

LEMMA OutsideKeeps ==
  ASSUME TypeOK, Outside
  PROVE  /\ UNCHANGED <<verification, log.verify, review, log.review, integration, log.merge>>
         /\ actorVars' = actorVars
<1>1. CASE UNCHANGED <<verification, review, integration, log, actorVars>>
  BY <1>1
<1>2. ASSUME NEW p \in Patch, Enqueue(p)
      PROVE  UNCHANGED <<verification, log.verify, review, log.review, integration, log.merge>>
             /\ actorVars' = actorVars
  BY <1>2 DEF Enqueue, TypeOK, Log
<1>3. ASSUME NEW p \in Patch, NEW r \in Reason, Resolve(p, r)
      PROVE  UNCHANGED <<verification, log.verify, review, log.review, integration, log.merge>>
             /\ actorVars' = actorVars
  BY <1>3 DEF Resolve, TypeOK, Log
<1> QED
  BY <1>1, <1>2, <1>3 DEF Outside, EditSource, PassExecute, Expire, Decide

LEMMA StepsKeep == ASSUME TypeOK, [Next]_vars PROVE ReportsKept
<1>1. CASE UNCHANGED vars
  BY <1>1 DEF ReportsKept, vars, storeVars
<1>2. CASE Outside
  BY <1>2, OutsideKeeps DEF ReportsKept
<1>3. ASSUME NEW a \in Actor, Verify(a)
      PROVE  ReportsKept
  <2>1. CASE UNCHANGED <<verification, review, integration, log>>
    BY <2>1 DEF ReportsKept
  <2>2. CASE CommitVerification(a)
    <3>1. UNCHANGED <<review, integration, log.review, log.merge>>
      BY <2>2 DEF CommitVerification, TypeOK, Log
    <3> QED
      BY <2>2, <3>1 DEF ReportsKept
  <2> QED
    BY <1>3, <2>1, <2>2 DEF Verify, BeginVerification, StagePatches, BuildCandidate, PassVerify,
                            PassNode, storeVars
<1>4. ASSUME NEW a \in Actor, ReviewOrRework(a)
      PROVE  ReportsKept
  <2>1. CASE UNCHANGED <<verification, review, integration, log>>
    BY <2>1 DEF ReportsKept
  <2>2. CASE CommitReview(a)
    <3>1. UNCHANGED <<verification, integration, log.verify, log.merge>>
      BY <2>2 DEF CommitReview, TypeOK, Log
    <3> QED
      BY <2>2, <3>1 DEF ReportsKept
  <2>3. CASE Rework(a)
    BY <2>3 DEF Rework, TypeOK, Log, ReportsKept
  <2> QED
    BY <1>4, <2>1, <2>2, <2>3 DEF ReviewOrRework, BeginReview, PassReview, PassNode, storeVars
<1>5. ASSUME NEW a \in Actor, Integrate(a) \/ Stop(a)
      PROVE  ReportsKept
  <2>1. CASE UNCHANGED <<verification, review, integration, log>>
    BY <2>1 DEF ReportsKept
  <2>2. CASE CommitMerge(a) \/ MergeNothing(a)
    <3>1. UNCHANGED <<verification, review, log.verify, log.review>>
      BY <2>2 DEF CommitMerge, MergeNothing, TypeOK, Log
    <3> QED
      BY <2>2, <3>1 DEF ReportsKept
  <2> QED
    BY <1>5, <2>1, <2>2 DEF Integrate, BeginMerge, RequestApproval, PassIntegrate, PassNode,
                            Stop, storeVars
<1> QED
  BY <1>1, <1>2, <1>3, <1>4, <1>5 DEF Next, Work

\* What is committed stays committed.
LEMMA LogGrows ==
  ASSUME TypeOK, [Next]_vars
  PROVE  log.verify \subseteq log'.verify /\ log.review \subseteq log'.review
<1>1. ASSUME NEW a \in Actor, CommitVerification(a)
      PROVE  log.verify \subseteq log'.verify
  BY <1>1 DEF CommitVerification, TypeOK, Log
<1>2. ASSUME NEW a \in Actor, CommitReview(a)
      PROVE  log.review \subseteq log'.review
  BY <1>2 DEF CommitReview, TypeOK, Log
<1> QED
  BY <1>1, <1>2, StepsKeep DEF ReportsKept

-----------------------------------------------------------------------------
(* A review that passed is of patches that are in no conflict, and as long  *)
(* as no conflict is resolved, none of them waits behind a merged patch     *)
(* that it conflicts with: whatever is merged, they can still be merged.  A *)
(* patch that is merged waits again only when it is kept in a resolution,   *)
(* which no review before is of.                                            *)

Disjoint(o, p) == o # p => TheRun.keys[o] \cap TheRun.keys[p] = {}

Mergeable(d) ==
  /\ d.patches \subseteq log.enqueue
  /\ d.kept \subseteq log.resolve
  /\ \A o, p \in d.patches : Disjoint(o, p)
  /\ d.kept = queue.kept =>
       \A o \in Item(queue, "merged"), p \in Waiting(queue) \cap d.patches :
         Disjoint(o, p) \/ queue.rank[p] < queue.rank[o]

PassedReviews == {r \in log.review : r.result.status = "PASS"}

ReviewInv ==
  /\ review # None => \E r \in log.review : r.result = review
  /\ \A r \in PassedReviews : Mergeable(r.result.digest)

\* A verification that is under way was begun before anything was merged.
StageInv == \A a \in Actor : pc[a] = "stage" => Item(held[a].queue, "merged") = {}

LEMMA SamePolicy == ASSUME [Next]_vars PROVE UNCHANGED policy /\ TheRun' = TheRun
  BY DEF Next, Marked, vars, runVars, TheRun

LEMMA MergeableStays ==
  ASSUME TypeOK, QueueInv, StageInv, [Next]_vars, NEW d, Mergeable(d)
  PROVE  Mergeable(d)'
<1> DEFINE ahead(q) == \A o \in Item(q, "merged"), p \in Waiting(q) \cap d.patches :
                         Disjoint(o, p) \/ q.rank[p] < q.rank[o]
<1>0. TheRun' = TheRun
  BY SamePolicy
<1>1. Known(queue) /\ queue.kept \subseteq log.resolve
  BY DEF QueueInv, AllQueues
<1>2. log.enqueue \subseteq log'.enqueue /\ log.resolve \subseteq log'.resolve
  BY <1>1, QueueSteps DEF Enqueues, Derives
<1>3. ASSUME d.kept = queue'.kept
      PROVE  ahead(queue')
  <2>1. CASE Shrinks(queue, queue')
    BY <1>3, <2>1 DEF Shrinks, Mergeable
  <2>2. ASSUME NEW n \in Patch \ log.enqueue, Grows(queue, n, queue')
        PROVE  ahead(queue')
    <3>1. Waiting(queue') \cap d.patches \subseteq Waiting(queue) \cap d.patches /\ n \notin d.patches
      BY <2>2 DEF Grows, Mergeable
    <3>2. \A i \in Patch \ {n} : queue'.rank[i] = queue.rank[i]
      BY <2>2, QueueFields DEF Grows, TypeOK
    <3>3. Item(queue', "merged") \subseteq Item(queue, "merged") \ {n} /\ d.kept = queue.kept
      BY <1>3, <2>2 DEF Grows
    <3>4. Item(queue', "merged") \subseteq Patch /\ Waiting(queue') \subseteq Patch
      BY DEF Waiting, Item
    <3> QED
      BY <3>1, <3>2, <3>3, <3>4 DEF Mergeable
  <2>3. ASSUME NEW i, NEW x, <<i, x>> \notin log.resolve, Resolves(queue, i, x, queue')
        PROVE  FALSE
    BY <1>3, <2>3 DEF Resolves, Mergeable
  <2>4. ASSUME NEW a \in Actor, pc[a] = "stage", Shrinks(held[a].queue, queue')
        PROVE  ahead(queue')
    BY <2>4 DEF Shrinks, StageInv
  <2>5. ASSUME NEW a \in Actor, Merges(held[a].queue, queue')
        PROVE  ahead(queue')
    BY <2>5 DEF Merges
  <2> QED
    BY <1>1, <2>1, <2>2, <2>3, <2>4, <2>5, QueueMove DEF QueueMoves
<1> QED
  BY <1>0, <1>2, <1>3 DEF Mergeable, Disjoint

\* What a review may pass is mergeable.
LEMMA ReviewableMergeable ==
  ASSUME TypeOK, QueueInv, NEW a \in Actor, Reviewable(a)
  PROVE  Mergeable(Current)
<1>1. queue \in Queue /\ queue \in AllQueues /\ Conflicts(queue) = {}
  BY DEF TypeOK, AllQueues, Reviewable
<1>2. Current.patches = Waiting(queue) /\ Current.kept = queue.kept
  BY DEF Current, Candidate
<1>3. \A o \in Undropped(queue), p \in Waiting(queue) :
        \/ Disjoint(o, p)
        \/ o \notin Waiting(queue) /\ queue.rank[p] < queue.rank[o]
  BY <1>1, NoConflicts DEF Disjoint
<1>4. Waiting(queue) \subseteq log.enqueue /\ queue.kept \subseteq log.resolve
  BY <1>1, WaitingIsThere DEF QueueInv, Known
<1> QED
  BY <1>2, <1>3, <1>4 DEF Mergeable, Undropped

LEMMA ReviewStep ==
  ASSUME TypeOK, QueueInv, StageInv, ReviewInv, [Next]_vars
  PROVE  ReviewInv'
<1>1. CASE UNCHANGED <<review, log.review>>
  <2>1. \A r \in PassedReviews : Mergeable(r.result.digest)'
    BY MergeableStays DEF ReviewInv
  <2>2. PassedReviews' = PassedReviews
    BY <1>1 DEF PassedReviews
  <2> QED
    BY <1>1, <2>1, <2>2 DEF ReviewInv
<1>2. ASSUME NEW a \in Actor, CommitReview(a), ~UNCHANGED <<review, log.review>>
      PROVE  ReviewInv'
  <2>1. PICK s \in Verdict, d \in {Current} :
          /\ d = Current
          /\ s = "PASS" => Reviewable(a)
          /\ review' = [digest |-> d, status |-> s]
          /\ log' = [log EXCEPT !.review = @ \cup {[key |-> held[a].key, result |-> review']}]
    BY <1>2 DEF CommitReview
  <2> DEFINE new == [key |-> held[a].key, result |-> review']
  <2>2. log'.review = log.review \cup {new} /\ new.result = review'
    BY <2>1 DEF TypeOK, Log
  <2>3. \A r \in PassedReviews : Mergeable(r.result.digest)'
    BY MergeableStays DEF ReviewInv
  <2>4. s = "PASS" => Mergeable(d)'
    BY <2>1, ReviewableMergeable, MergeableStays
  <2>5. new.result.digest = d /\ new.result.status = s
    BY <2>1
  <2> HIDE DEF new
  <2>6. \A r \in PassedReviews' : Mergeable(r.result.digest)'
    <3> SUFFICES ASSUME NEW r \in PassedReviews'
                 PROVE  Mergeable(r.result.digest)'
      OBVIOUS
    <3>1. CASE r = new
      BY <2>4, <2>5, <3>1 DEF PassedReviews
    <3>2. CASE r \in PassedReviews
      BY <2>3, <3>2
    <3> QED
      BY <2>2, <3>1, <3>2 DEF PassedReviews
  <2> QED
    BY <2>2, <2>6 DEF ReviewInv
<1> QED
  BY <1>1, <1>2, StepsKeep DEF ReportsKept

-----------------------------------------------------------------------------
(* A process at a time.                                                     *)

LEMMA GotoOne ==
  ASSUME TypeOK, NEW a \in Actor, NEW s, NEW h, Goto(a, s, h)
  PROVE  /\ pc'[a] = s
         /\ s # "idle" => held'[a] = h
         /\ \A b \in Actor \ {a} : pc'[b] = pc[b] /\ held'[b] = held[b]
  BY DEF Goto, TypeOK

LEMMA BeginOne ==
  ASSUME TypeOK, NEW a \in Actor, NEW s, NEW h, NEW m, NEW n, Begin(a, s, h, m, n)
  PROVE  /\ pc[a] = "idle" /\ pc'[a] = s /\ held'[a] = h
         /\ \A b \in Actor \ {a} : pc'[b] = pc[b] /\ held'[b] = held[b]
  BY DEF Begin, TypeOK

\* The stages in which a process holds what another may disturb.
Exposed == {"stage", "candidate", "check", "merge"}

ActorMoves(b) ==
  \/ pc'[b] = pc[b] /\ held'[b] = held[b]
  \/ pc'[b] \notin Exposed
  \/ BeginVerification(b) \/ StagePatches(b) \/ BuildCandidate(b) \/ BeginMerge(b)

LEMMA ActorSteps ==
  ASSUME TypeOK, [Next]_vars, NEW b \in Actor
  PROVE  ActorMoves(b)
<1>1. CASE actorVars' = actorVars
  BY <1>1 DEF actorVars, ActorMoves
<1>2. ASSUME NEW a \in Actor, NEW s, NEW h, Goto(a, s, h), s \notin Exposed
      PROVE  ActorMoves(b)
  BY <1>2, GotoOne DEF ActorMoves
<1>3. ASSUME NEW a \in Actor, NEW s, NEW h, NEW m, NEW n, Begin(a, s, h, m, n), s \notin Exposed
      PROVE  ActorMoves(b)
  BY <1>3, BeginOne DEF ActorMoves
<1>4. ASSUME NEW a \in Actor, NEW s, NEW h, NEW m, NEW n, Begin(a, s, h, m, n), a # b
      PROVE  ActorMoves(b)
  BY <1>4, BeginOne DEF ActorMoves
<1>5. ASSUME NEW a \in Actor, NEW s, NEW h, Goto(a, s, h), a # b
      PROVE  ActorMoves(b)
  BY <1>5, GotoOne DEF ActorMoves
<1>6. CASE Outside
  BY <1>1, <1>6, OutsideKeeps
<1>7. ASSUME NEW a \in Actor, Verify(a)
      PROVE  ActorMoves(b)
  <2>1. CASE a # b
    BY <1>4, <1>5, <1>7, <2>1 DEF Verify, BeginVerification, StagePatches, BuildCandidate,
                                  CommitVerification, PassVerify, PassNode
  <2>2. CASE CommitVerification(a) \/ PassVerify(a)
    BY <1>2, <2>2 DEF CommitVerification, PassVerify, PassNode, Exposed
  <2> QED
    BY <1>7, <2>1, <2>2 DEF Verify, ActorMoves
<1>8. ASSUME NEW a \in Actor, ReviewOrRework(a)
      PROVE  ActorMoves(b)
  <2>1. CASE BeginReview(a)
    BY <1>3, <2>1 DEF BeginReview, Exposed
  <2>2. CASE PassReview(a) \/ Rework(a)
    BY <1>2, <2>2 DEF PassReview, PassNode, Rework, Exposed
  <2>3. CASE CommitReview(a)
    <3>1. PICK s \in Verdict : \E h : Goto(a, CASE ~tick[a] -> "idle"
                       [] tick[a] /\ s = "PASS" -> "passreview"
                       [] tick[a] /\ s = "FAIL" -> "blocked", h)
      BY <2>3 DEF CommitReview
    <3>2. (CASE ~tick[a] -> "idle"
             [] tick[a] /\ s = "PASS" -> "passreview"
             [] tick[a] /\ s = "FAIL" -> "blocked") \notin Exposed
      BY DEF TypeOK, Verdict, Exposed
    <3> QED
      BY <1>2, <3>1, <3>2
  <2> QED
    BY <1>8, <2>1, <2>2, <2>3 DEF ReviewOrRework
<1>9. ASSUME NEW a \in Actor, Integrate(a) \/ Stop(a)
      PROVE  ActorMoves(b)
  <2>1. CASE BeginMerge(a)
    BY <1>4, <2>1 DEF BeginMerge, ActorMoves
  <2>2. CASE RequestApproval(a)
    BY <1>1, <2>2 DEF RequestApproval
  <2>3. CASE MergeNothing(a)
    BY <1>3, <2>3 DEF MergeNothing, Exposed
  <2>4. CASE CommitMerge(a) \/ PassIntegrate(a) \/ Stop(a)
    BY <1>2, <2>4 DEF CommitMerge, PassIntegrate, PassNode, Stop, Exposed
  <2> QED
    BY <1>9, <2>1, <2>2, <2>3, <2>4 DEF Integrate
<1> QED
  BY <1>1, <1>6, <1>7, <1>8, <1>9 DEF Next, Work, vars

-----------------------------------------------------------------------------
(* A run that has patches to merge never looks like a run that has none.    *)

HasWork ==
  ~TheRun.evidence =>
    /\ log.enqueue # {} => There(queue) # {}
    /\ "execute" \in passed \/ PassedReviews # {} => log.enqueue # {}
    /\ \A a \in Actor : pc[a] \in {"stage", "merge"} => There(held[a].queue) # {}

LEMMA EmptyIsNothingThere == ASSUME NEW q PROVE QueueIsEmpty(q) <=> There(q) = {}
  BY DEF QueueIsEmpty, There, Item

\* The queue loses items only to a process that writes back an older one.
LEMMA QueueFrom ==
  ASSUME TypeOK, Known(queue), [Next]_vars
  PROVE  \/ There(queue) \subseteq There(queue')
         \/ \E a \in Actor : pc[a] \in {"stage", "merge"} /\ There(queue') = There(held[a].queue)
  BY QueueMove DEF QueueMoves, Shrinks, Grows, Resolves, Merges

LEMMA ExecutePasses ==
  ASSUME [Next]_vars, "execute" \in passed', "execute" \notin passed
  PROVE  PassExecute
<1>1. ASSUME NEW a \in Actor, NEW s, NEW n, PassNode(a, s, n), n # "execute"
      PROVE  FALSE
  BY <1>1 DEF PassNode
<1>2. ASSUME NEW a \in Actor, Verify(a)
      PROVE  FALSE
  BY <1>1, <1>2 DEF Verify, BeginVerification, StagePatches, BuildCandidate, CommitVerification,
                    PassVerify, storeVars
<1>3. ASSUME NEW a \in Actor, ReviewOrRework(a)
      PROVE  FALSE
  BY <1>1, <1>3 DEF ReviewOrRework, BeginReview, CommitReview, PassReview, Rework, storeVars
<1>4. ASSUME NEW a \in Actor, Integrate(a) \/ Stop(a)
      PROVE  FALSE
  BY <1>1, <1>4 DEF Integrate, BeginMerge, RequestApproval, CommitMerge, MergeNothing,
                    PassIntegrate, Stop, storeVars
<1> QED
  BY <1>2, <1>3, <1>4 DEF Next, Work, Outside, Enqueue, Resolve, EditSource, Expire, Decide,
                          vars, storeVars

LEMMA EnqueueGrows ==
  ASSUME TypeOK, Known(queue), [Next]_vars
  PROVE  log.enqueue \subseteq log'.enqueue
  BY QueueSteps DEF Enqueues, Derives

LEMMA WorkStep ==
  ASSUME TypeOK, QueueInv, QueueInv', HasWork, [Next]_vars
  PROVE  HasWork'
<1> SUFFICES ASSUME ~TheRun.evidence
             PROVE  /\ log'.enqueue # {} => There(queue') # {}
                    /\ "execute" \in passed' \/ PassedReviews' # {} => log'.enqueue # {}
                    /\ \A a \in Actor : pc'[a] \in {"stage", "merge"} => There(held'[a].queue) # {}
  BY SamePolicy DEF HasWork
<1>0. Known(queue) /\ There(queue') \subseteq log'.enqueue
  BY DEF QueueInv, AllQueues, Known
<1>1. ASSUME log'.enqueue # {}
      PROVE  There(queue') # {}
  <2>1. CASE log.enqueue # {}
    BY <1>0, <2>1, QueueFrom DEF HasWork
  <2>2. CASE log'.enqueue # log.enqueue
    <3>1. Enqueues
      BY <1>0, <2>2, QueueSteps DEF Derives
    <3> QED
      BY <3>1 DEF Enqueues, Grows
  <2> QED
    BY <1>1, <2>1, <2>2
<1>2. ASSUME "execute" \in passed'
      PROVE  log'.enqueue # {}
  <2>1. CASE "execute" \in passed
    BY <1>0, <2>1, EnqueueGrows DEF HasWork
  <2>2. CASE PassExecute
    <3>1. Undropped(queue) # {}
      BY <2>2 DEF PassExecute
    <3>2. Undropped(queue) \subseteq There(queue)
      BY WaitingIsThere DEF Undropped
    <3> QED
      BY <1>0, <3>1, <3>2, EnqueueGrows DEF Known
  <2> QED
    BY <1>2, <2>1, <2>2, ExecutePasses
<1>3. ASSUME PassedReviews' # {}
      PROVE  log'.enqueue # {}
  <2>1. CASE PassedReviews # {}
    BY <1>0, <2>1, EnqueueGrows DEF HasWork
  <2>2. ASSUME NEW a \in Actor, CommitReview(a), Reviewable(a)
        PROVE  log'.enqueue # {}
    <3>1. There(queue) # {}
      BY <2>2, EmptyIsNothingThere DEF Reviewable
    <3> QED
      BY <1>0, <3>1, EnqueueGrows DEF Known
  <2>3. ASSUME NEW a \in Actor, CommitReview(a), ~Reviewable(a)
        PROVE  PassedReviews' \subseteq PassedReviews
    <3>1. CASE log' = log
      BY <3>1 DEF PassedReviews
    <3>2. CASE log' # log
      <4>1. PICK s : /\ s # "PASS"
                     /\ review'.status = s
                     /\ log' = [log EXCEPT !.review = @ \cup {[key |-> held[a].key, result |-> review']}]
        BY <2>3, <3>2 DEF CommitReview
      <4>2. log'.review = log.review \cup {[key |-> held[a].key, result |-> review']}
        BY <4>1 DEF TypeOK, Log
      <4> QED
        BY <4>1, <4>2 DEF PassedReviews
    <3> QED
      BY <3>1, <3>2
  <2> QED
    BY <1>3, <2>1, <2>2, <2>3, StepsKeep DEF ReportsKept, PassedReviews
<1>4. ASSUME NEW a \in Actor, pc'[a] \in {"stage", "merge"}
      PROVE  There(held'[a].queue) # {}
  <2>1. CASE pc'[a] = pc[a] /\ held'[a] = held[a]
    BY <1>4, <2>1 DEF HasWork
  <2>2. CASE BeginVerification(a)
    <3>1. held'[a] = [Nothing EXCEPT !.queue = queue] /\ "execute" \in passed
      BY <2>2, BeginOne DEF BeginVerification
    <3>2. held'[a].queue = queue
      BY <3>1 DEF Nothing
    <3> QED
      BY <3>1, <3>2 DEF HasWork
  <2>3. CASE BeginMerge(a)
    <3>1. held'[a].queue = Recomputed(queue) /\ ~QueueIsEmpty(queue)
      BY <2>3, BeginOne DEF BeginMerge
    <3> QED
      BY <3>1, RecomputedKeeps, EmptyIsNothingThere DEF Shrinks, TypeOK
  <2>4. CASE StagePatches(a) \/ BuildCandidate(a)
    BY <1>4, <2>4, GotoOne DEF StagePatches, BuildCandidate
  <2> QED
    BY <1>4, <2>1, <2>2, <2>3, <2>4, ActorSteps DEF ActorMoves, Exposed
<1> QED
  BY <1>1, <1>2, <1>3, <1>4

LEMMA Mergeables == TypeOK /\ QueueInv /\ ReviewInv /\ HasWork => ClearedIsMergeable
<1> SUFFICES ASSUME TypeOK, QueueInv, ReviewInv, HasWork, Cleared
             PROVE  Conflicts(queue) = {} /\ (QueueIsEmpty(queue) => TheRun.evidence)
  BY DEF ClearedIsMergeable
<1>1. PICK r \in log.review : r.result = review
  BY DEF ReviewInv, Cleared
<1>2. r \in PassedReviews /\ r.result.digest = Current
  BY <1>1 DEF PassedReviews, Cleared
<1>3. Mergeable(Current)
  BY <1>2 DEF ReviewInv
<1>4. Current.patches = Waiting(queue) /\ Current.kept = queue.kept /\ queue \in Queue
  BY DEF Current, Candidate, TypeOK
<1>5. \A o \in Undropped(queue), p \in Waiting(queue) :
        Disjoint(o, p) \/ queue.rank[p] < queue.rank[o]
  BY <1>3, <1>4 DEF Mergeable, Undropped
<1>6. Conflicts(queue) = {}
  BY <1>4, <1>5, ApartNoConflicts DEF Disjoint
<1>7. QueueIsEmpty(queue) => TheRun.evidence
  BY <1>2, EmptyIsNothingThere DEF HasWork
<1> QED
  BY <1>6, <1>7

-----------------------------------------------------------------------------
(* What a merge was decided on stays on record while it is under way.       *)

VerifiedAs(d) == \E v \in log.verify : v.digest = d /\ v.status = "PASS"

ReviewedAs(d) == \E r \in log.review : r.result = [digest |-> d, status |-> "PASS"]

ApprovedAs(d) == \E i \in approvals : i.digest = d /\ i.decision = "approved"

ClearedFor(d) == VerifiedAs(d) /\ ReviewedAs(d) /\ (TheRun.approval => ApprovedAs(d))

ClearInv ==
  /\ verification # None => verification \in log.verify
  /\ \A a \in Actor : pc[a] = "merge" => ClearedFor(held[a].digest)
  /\ MergedWasCleared

LEMMA ApprovedStays ==
  ASSUME TypeOK, [Next]_vars, NEW d, ApprovedAs(d)
  PROVE  ApprovedAs(d)'
<1>1. PICK i \in approvals : i.digest = d /\ i.decision = "approved"
  BY DEF ApprovedAs
<1>2. CASE approvals \subseteq approvals'
  BY <1>1, <1>2 DEF ApprovedAs
<1>3. ASSUME NEW j \in approvals, Expire(j)
      PROVE  ApprovedAs(d)'
  <2>1. j \in Approval
    BY DEF TypeOK
  <2>2. /\ [j EXCEPT !.expired = TRUE].digest = j.digest
        /\ [j EXCEPT !.expired = TRUE].decision = j.decision
    BY <2>1 DEF Approval
  <2> QED
    BY <1>1, <1>3, <2>2 DEF Expire, ApprovedAs
<1>4. ASSUME NEW j \in approvals, NEW n, Decide(j, n)
      PROVE  approvals \ {j} \subseteq approvals' /\ j # i
  BY <1>1, <1>4 DEF Decide
<1>5. ASSUME NEW a \in Actor, Work(a) \/ Stop(a)
      PROVE  approvals \subseteq approvals'
  BY <1>5 DEF Work, Verify, ReviewOrRework, Integrate, BeginVerification, StagePatches,
              BuildCandidate, CommitVerification, PassVerify, BeginReview, CommitReview,
              PassReview, Rework, BeginMerge, RequestApproval, CommitMerge, MergeNothing,
              PassIntegrate, Stop, PassNode, storeVars
<1>6. CASE Outside
  <2>1. CASE approvals' = approvals
    BY <1>2, <2>1
  <2>2. ASSUME NEW j \in approvals, NEW n, Decide(j, n)
        PROVE  ApprovedAs(d)'
    BY <1>1, <1>4, <2>2 DEF ApprovedAs
  <2> QED
    BY <1>3, <1>6, <2>1, <2>2 DEF Outside, Enqueue, Resolve, EditSource, PassExecute
<1> QED
  BY <1>2, <1>5, <1>6 DEF Next, vars, storeVars

LEMMA ClearedStays ==
  ASSUME TypeOK, [Next]_vars, NEW d
  PROVE  /\ VerifiedAs(d) => VerifiedAs(d)'
         /\ ReviewedAs(d) => ReviewedAs(d)'
         /\ ClearedFor(d) => ClearedFor(d)'
<1>1. VerifiedAs(d) => VerifiedAs(d)'
  BY LogGrows DEF VerifiedAs
<1>2. ReviewedAs(d) => ReviewedAs(d)'
  BY LogGrows DEF ReviewedAs
<1> QED
  BY <1>1, <1>2, ApprovedStays, SamePolicy DEF ClearedFor

\* The checks of merge apply are of what is on record.
LEMMA ClearedIsOnRecord ==
  ASSUME TypeOK, ReviewInv, ClearInv, Cleared
  PROVE  VerifiedAs(Current) /\ ReviewedAs(Current)
<1>1. VerifiedAs(Current)
  BY DEF ClearInv, Cleared, VerifiedAs
<1>2. PICK r \in log.review : r.result = review
  BY DEF ReviewInv, Cleared
<1>3. review \in Review
  BY DEF TypeOK, Cleared
<1>4. review = [digest |-> Current, status |-> "PASS"]
  BY <1>3 DEF Cleared, Review
<1> QED
  BY <1>1, <1>2, <1>4 DEF ReviewedAs

LEMMA ClearStep ==
  ASSUME TypeOK, ReviewInv, ClearInv, [Next]_vars
  PROVE  ClearInv'
<1>1. verification' # None => verification' \in log'.verify
  <2>1. CASE UNCHANGED <<verification, log.verify>>
    BY <2>1 DEF ClearInv
  <2>2. ASSUME NEW a \in Actor, CommitVerification(a), ~UNCHANGED <<verification, log.verify>>
        PROVE  verification' \in log'.verify
    BY <2>2 DEF CommitVerification, TypeOK, Log
  <2> QED
    BY <2>1, <2>2, StepsKeep DEF ReportsKept
<1>2. ASSUME NEW a \in Actor, pc'[a] = "merge"
      PROVE  ClearedFor(held[a].digest)'
  <2>1. CASE pc'[a] = pc[a] /\ held'[a] = held[a]
    <3>1. ClearedFor(held[a].digest)
      BY <1>2, <2>1 DEF ClearInv
    <3>2. PICK e : e = held[a].digest
      OBVIOUS
    <3>3. ClearedFor(e)'
      BY <3>1, <3>2, ClearedStays
    <3> QED
      BY <2>1, <3>2, <3>3 DEF ClearedFor, VerifiedAs, ReviewedAs, ApprovedAs
  <2>2. CASE BeginMerge(a)
    <3>1. held'[a].digest = Current /\ Cleared /\ (TheRun.approval => Approved(Current))
      BY <2>2, BeginOne DEF BeginMerge
    <3>2. Approved(Current) => ApprovedAs(Current)
      BY DEF Approved, ApprovalsOf, ApprovedAs
    <3>3. PICK e : e = Current
      OBVIOUS
    <3>4. ClearedFor(e)
      BY <3>1, <3>2, <3>3, ClearedIsOnRecord DEF ClearedFor
    <3>5. ClearedFor(e)'
      BY <3>4, ClearedStays
    <3> QED
      BY <3>1, <3>3, <3>5 DEF ClearedFor, VerifiedAs, ReviewedAs, ApprovedAs
  <2>3. CASE BeginVerification(a) \/ StagePatches(a) \/ BuildCandidate(a)
    BY <1>2, <2>3, BeginOne, GotoOne DEF BeginVerification, StagePatches, BuildCandidate
  <2> QED
    BY <1>2, <2>1, <2>2, <2>3, ActorSteps DEF ActorMoves, Exposed
<1>3. MergedWasCleared'
  <2> DEFINE ok(m) == /\ VerifiedAs(m.digest) /\ ReviewedAs(m.digest)
                      /\ TheRun.approval /\ m.patches # {} => ApprovedAs(m.digest)
             merges == log.merge \cup ({integration} \ {None})
  <2>1. \A m \in merges : ok(m)
    BY DEF ClearInv, MergedWasCleared, VerifiedAs, ReviewedAs, ApprovedAs
  <2>2. ASSUME NEW m, ok(m)
        PROVE  ok(m)'
    BY <2>2, ClearedStays, ApprovedStays, SamePolicy
  <2>3. ASSUME NEW m \in merges'
        PROVE  ok(m)'
    <3>1. CASE m \in merges
      BY <2>1, <2>2, <3>1
    <3>2. ASSUME NEW a \in Actor, CommitMerge(a), m \notin merges
          PROVE  ok(m)'
      <4>1. pc[a] = "merge" /\ m.digest = held[a].digest
        <5>1. PICK n : /\ n.digest = held[a].digest
                       /\ \/ integration' = n /\ log' = [log EXCEPT !.merge = @ \cup {n}]
                          \/ UNCHANGED <<integration, log>>
          BY <3>2 DEF CommitMerge
        <5>2. log'.merge \subseteq log.merge \cup {n}
          BY <5>1 DEF TypeOK, Log
        <5> QED
          BY <2>3, <3>2, <5>1, <5>2 DEF CommitMerge
      <4>2. ClearedFor(m.digest)
        BY <4>1 DEF ClearInv
      <4>3. ok(m)
        BY <4>2 DEF ClearedFor
      <4> QED
        BY <2>2, <4>3
    <3>3. ASSUME NEW a \in Actor, MergeNothing(a), m \notin merges
          PROVE  ok(m)'
      <4>1. m.digest = Current /\ m.patches = {} /\ Cleared
        BY <2>3, <3>3 DEF MergeNothing
      <4>2. ok(m)
        BY <4>1, ClearedIsOnRecord
      <4> QED
        BY <2>2, <4>2
    <3> QED
      BY <2>3, <3>1, <3>2, <3>3, StepsKeep DEF ReportsKept
  <2> HIDE DEF merges
  <2>4. merges' = log'.merge \cup ({integration'} \ {None})
    BY DEF merges
  <2> QED
    BY <2>3, <2>4 DEF MergedWasCleared, VerifiedAs, ReviewedAs, ApprovedAs
<1> QED
  BY <1>1, <1>2, <1>3 DEF ClearInv

-----------------------------------------------------------------------------
(* Before the first merge nothing is merged.                                *)

FirstMerge == integration = None => source.merged = {}

LEMMA MergedBy ==
  ASSUME TypeOK, [Next]_vars, source'.merged # source.merged
  PROVE  \E a \in Actor : CommitMerge(a)
<1>1. ASSUME NEW b \in Base, EditSource(b)
      PROVE  FALSE
  BY <1>1 DEF EditSource, TypeOK, Source
<1> QED
  BY <1>1 DEF Next, Outside, Enqueue, Resolve, PassExecute, Expire, Decide, Work, Verify,
              ReviewOrRework, Integrate, BeginVerification, StagePatches, BuildCandidate,
              CommitVerification, PassVerify, BeginReview, CommitReview, PassReview, Rework,
              BeginMerge, RequestApproval, MergeNothing, PassIntegrate, Stop, PassNode,
              vars, storeVars

LEMMA FirstMergeStep ==
  ASSUME TypeOK, TypeOK', FirstMerge, [Next]_vars
  PROVE  FirstMerge'
<1>1. ASSUME NEW m, integration' = m, m \in Merge
      PROVE  FirstMerge'
  BY <1>1, NoReport DEF FirstMerge
<1>2. ASSUME NEW a \in Actor, CommitMerge(a), source'.merged # source.merged
      PROVE  FirstMerge'
  <2>1. [digest |-> held[a].digest, patches |-> Undropped(held[a].queue)] \in Merge
    BY UndroppedType DEF TypeOK, Held, Merge
  <2> QED
    BY <1>1, <1>2, <2>1 DEF CommitMerge
<1>3. ASSUME UNCHANGED integration, source'.merged = source.merged
      PROVE  FirstMerge'
  BY <1>3 DEF FirstMerge
<1>4. ASSUME integration' # integration
      PROVE  integration' \in Merge
  <2>1. ASSUME NEW a \in Actor, MergeNothing(a)
        PROVE  integration' # None
    <3>1. Current \in Digest
      BY CandidateType DEF TypeOK, Current
    <3>2. [digest |-> Current, patches |-> {}] \in Merge
      BY <3>1 DEF Merge
    <3> QED
      BY <2>1, <3>2, NoReport DEF MergeNothing
  <2>2. ASSUME NEW a \in Actor, CommitMerge(a)
        PROVE  integration' # None
    <3>1. [digest |-> held[a].digest, patches |-> Undropped(held[a].queue)] \in Merge
      BY UndroppedType DEF TypeOK, Held, Merge
    <3> QED
      BY <1>4, <2>2, <3>1, NoReport DEF CommitMerge
  <2> QED
    BY <1>4, <2>1, <2>2, StepsKeep DEF ReportsKept, TypeOK
<1> QED
  BY <1>1, <1>2, <1>3, <1>4, MergedBy

LEMMA StageStep ==
  ASSUME TypeOK, QueueInv, FirstMerge, StageInv, [Next]_vars
  PROVE  StageInv'
<1> SUFFICES ASSUME NEW a \in Actor, pc'[a] = "stage"
             PROVE  Item(held'[a].queue, "merged") = {}
  BY DEF StageInv, Item
<1>1. CASE pc'[a] = pc[a] /\ held'[a] = held[a]
  BY <1>1 DEF StageInv
<1>2. CASE BeginVerification(a)
  <2>1. held'[a] = [Nothing EXCEPT !.queue = queue] /\ integration = None
    BY <1>2, BeginOne DEF BeginVerification
  <2>2. held'[a].queue = queue
    BY <2>1 DEF Nothing
  <2> QED
    BY <2>1, <2>2 DEF FirstMerge, QueueInv, AllQueues
<1>3. CASE StagePatches(a) \/ BuildCandidate(a) \/ BeginMerge(a)
  BY <1>3, GotoOne, BeginOne DEF StagePatches, BuildCandidate, BeginMerge
<1> QED
  BY <1>1, <1>2, <1>3, ActorSteps DEF ActorMoves, Exposed

-----------------------------------------------------------------------------
(* Undisturbed, a process goes on with what still holds: the queue it read  *)
(* is the queue, the copy it staged is of the queue and of the source, and  *)
(* what it is about to merge is the candidate of now, before any merge.     *)

Unmerged == source.merged = {}

StageIsFresh(a) == held[a].queue = queue /\ Unmerged

CandidateIsFresh(a) ==
  held[a].staged.patches = Waiting(queue) /\ held[a].staged.source = source /\ Unmerged

Matches(v) ==
  /\ v.staged.patches = v.digest.patches
  /\ v.staged.source = v.digest.source
  /\ v.digest.source.merged = {}

MergeIsFresh(a) ==
  /\ held[a].queue = Recomputed(queue)
  /\ held[a].digest = Current
  /\ Unmerged
  /\ \A o, p \in Waiting(queue) : Disjoint(o, p)

Undisturbed ==
  /\ QueuedStaysQueued
  /\ NoConflictIsMerged
  /\ MergedIsTheCandidate
  /\ \A v \in log.verify : v.status = "PASS" => Matches(v)
  /\ \A a \in Actor : /\ pc[a] = "stage" => StageIsFresh(a)
                      /\ pc[a] = "candidate" => CandidateIsFresh(a)
                      /\ pc[a] = "check" => Matches(held[a])
                      /\ pc[a] = "merge" => MergeIsFresh(a)

DeliveryInv ==
  /\ TypeOK
  /\ QueueInv
  /\ ReviewInv
  /\ HasWork
  /\ ClearInv
  /\ FirstMerge
  /\ StageInv
  /\ ~disturbed => Undisturbed

LEMMA QuietStep ==
  ASSUME TypeOK, [Next]_vars, ~disturbed', NEW b \in Actor,
         pc[b] \in {"stage", "candidate", "merge"}, pc'[b] = pc[b]
  PROVE  queue' = queue /\ source' = source
  BY DEF Next, Marked, Disturbs, vars, storeVars

LEMMA QuietBefore == ASSUME TypeOK, [Next]_vars, ~disturbed' PROVE ~disturbed
  BY DEF Next, Marked, vars, runVars, TypeOK

\* What a verification passes was staged from what it is of.
LEMMA UndisturbedActors ==
  ASSUME DeliveryInv, TypeOK', [Next]_vars, ~disturbed', NEW b \in Actor
  PROVE  /\ pc'[b] = "stage" => StageIsFresh(b)'
         /\ pc'[b] = "candidate" => CandidateIsFresh(b)'
         /\ pc'[b] = "check" => Matches(held[b])'
         /\ pc'[b] = "merge" => MergeIsFresh(b)'
<1>0. ~disturbed /\ Undisturbed /\ TypeOK /\ TheRun' = TheRun
  BY QuietBefore, SamePolicy DEF DeliveryInv
<1>1. CASE pc'[b] = pc[b] /\ held'[b] = held[b]
  <2>1. pc[b] = "check" => Matches(held[b])'
    BY <1>0, <1>1 DEF Undisturbed, Matches
  <2>2. ASSUME pc[b] \in {"stage", "candidate", "merge"}
        PROVE  queue' = queue /\ source' = source
    BY <1>0, <1>1, <2>2, QuietStep
  <2>3. pc[b] = "stage" => StageIsFresh(b)'
    BY <1>0, <1>1, <2>2 DEF Undisturbed, StageIsFresh, Unmerged
  <2>4. pc[b] = "candidate" => CandidateIsFresh(b)'
    BY <1>0, <1>1, <2>2 DEF Undisturbed, CandidateIsFresh, Unmerged, Waiting, Item
  <2>5. pc[b] = "merge" => MergeIsFresh(b)'
    <3> SUFFICES ASSUME pc[b] = "merge"
                 PROVE  MergeIsFresh(b)'
      OBVIOUS
    <3>1. queue' = queue /\ source' = source /\ MergeIsFresh(b)
      BY <1>0, <2>2 DEF Undisturbed
    <3>2. Recomputed(queue)' = Recomputed(queue) /\ Current' = Current /\ Waiting(queue)' = Waiting(queue)
      BY <1>0, <3>1 DEF Recomputed, Conflicts, Undropped, Waiting, Item, Current, Candidate
    <3> QED
      BY <1>0, <1>1, <3>1, <3>2 DEF MergeIsFresh, Unmerged, Disjoint
  <2> QED
    BY <1>1, <2>1, <2>3, <2>4, <2>5
<1>2. CASE pc'[b] \notin Exposed
  BY <1>2 DEF Exposed
<1>3. CASE BeginVerification(b)
  <2>1. pc'[b] = "stage" /\ held'[b] = [Nothing EXCEPT !.queue = queue]
    BY <1>0, <1>3, BeginOne DEF BeginVerification
  <2>2. held'[b].queue = queue /\ queue' = queue /\ source' = source
    BY <1>3, <2>1 DEF Nothing, BeginVerification, storeVars
  <2>3. source.merged = {}
    BY <1>3 DEF BeginVerification, DeliveryInv, FirstMerge
  <2> QED
    BY <2>1, <2>2, <2>3 DEF StageIsFresh, Unmerged
<1>4. CASE StagePatches(b)
  <2> DEFINE q == Recomputed(held[b].queue)
             s == [patches |-> Waiting(q), source |-> source, sound |-> Conflicts(q) = {}]
  <2>1. pc'[b] = "candidate" /\ held'[b] = [held[b] EXCEPT !.staged = s]
        /\ queue' = q /\ source' = source
    BY <1>0, <1>4, GotoOne DEF StagePatches
  <2>2. held'[b].staged = s
    BY <1>0, <2>1 DEF TypeOK, Held
  <2>3. Unmerged
    BY <1>0, <1>4 DEF Undisturbed, StageIsFresh, StagePatches
  <2>4. s.patches = Waiting(queue') /\ s.source = source
    BY <2>1
  <2> HIDE DEF s, q
  <2> QED
    BY <2>1, <2>2, <2>3, <2>4 DEF CandidateIsFresh, Unmerged, Waiting, Item
<1>5. CASE BuildCandidate(b)
  <2>1. pc'[b] = "check" /\ held'[b] = [held[b] EXCEPT !.digest = Current]
    BY <1>0, <1>5, GotoOne DEF BuildCandidate
  <2>2. held'[b].digest = Current /\ held'[b].staged = held[b].staged
    BY <1>0, <2>1 DEF TypeOK, Held
  <2>3. CandidateIsFresh(b)
    BY <1>0, <1>5 DEF Undisturbed, BuildCandidate
  <2>4. Current.patches = Waiting(queue) /\ Current.source = source
    BY DEF Current, Candidate
  <2> QED
    BY <2>1, <2>2, <2>3, <2>4 DEF Matches, CandidateIsFresh, Unmerged
<1>6. CASE BeginMerge(b)
  <2>1. /\ pc'[b] = "merge" /\ queue' = queue /\ source' = source
        /\ held'[b] = [queue |-> Recomputed(queue), staged |-> NoStaged, digest |-> Current, key |-> NoKey]
    BY <1>0, <1>6, BeginOne DEF BeginMerge, storeVars
  <2>2. Cleared
    BY <1>6 DEF BeginMerge
  <2>3. verification \in log.verify /\ verification.status = "PASS" /\ verification.digest = Current
    BY <2>2 DEF Cleared, DeliveryInv, ClearInv
  <2>4. Current.source = source /\ Current.patches = Waiting(queue)
    BY DEF Current, Candidate
  <2>5. Unmerged
    BY <1>0, <2>3, <2>4 DEF Undisturbed, Matches, Unmerged
  <2>6. PICK r \in log.review : r.result = review
    BY <2>2 DEF Cleared, DeliveryInv, ReviewInv
  <2>7. Mergeable(Current)
    BY <2>2, <2>6 DEF Cleared, DeliveryInv, ReviewInv, PassedReviews
  <2>8. \A o, p \in Waiting(queue) : Disjoint(o, p)
    BY <2>4, <2>7 DEF Mergeable
  <2>9. Recomputed(queue)' = Recomputed(queue) /\ Current' = Current /\ Waiting(queue)' = Waiting(queue)
    BY <1>0, <2>1 DEF Recomputed, Conflicts, Undropped, Waiting, Item, Current, Candidate
  <2>10. MergeIsFresh(b)'
    BY <1>0, <2>1, <2>5, <2>8, <2>9 DEF MergeIsFresh, Unmerged, Disjoint
  <2> QED
    BY <2>1, <2>10
<1> QED
  BY <1>0, <1>1, <1>2, <1>3, <1>4, <1>5, <1>6, ActorSteps DEF ActorMoves

\* What a merge writes and applies when nothing disturbed it.
LEMMA UndisturbedMerge ==
  ASSUME DeliveryInv, ~disturbed, NEW a \in Actor, CommitMerge(a)
  PROVE  LET q == held[a].queue
             m == [digest |-> held[a].digest, patches |-> Undropped(q)]
         IN /\ There(queue') = There(queue)
            /\ \/ UNCHANGED <<source, integration, log>>
               \/ /\ source'.merged = Undropped(q)
                  /\ integration' = m
                  /\ log'.merge = log.merge \cup {m}
                  /\ log'.enqueue = log.enqueue
            /\ Undropped(q) = Waiting(queue)
            /\ m.digest.patches = m.patches
            /\ \A o, p \in Waiting(queue) : Disjoint(o, p)
<1> DEFINE q == held[a].queue
           m == [digest |-> held[a].digest, patches |-> Undropped(q)]
<1>1. TypeOK /\ MergeIsFresh(a) /\ queue \in AllQueues
  BY DEF DeliveryInv, Undisturbed, CommitMerge, AllQueues
<1>2. queue \in Queue /\ q = Recomputed(queue)
  BY <1>1 DEF TypeOK, MergeIsFresh
<1>3. Waiting(q) = Waiting(queue) /\ Item(q, "merged") = Item(queue, "merged")
      /\ There(q) = There(queue) /\ q \in Queue
  BY <1>2, RecomputedKeeps DEF Shrinks
<1>4. Item(queue, "merged") = {}
  BY <1>1 DEF DeliveryInv, QueueInv, MergeIsFresh, Unmerged
<1>5. Undropped(q) = Waiting(queue)
  BY <1>3, <1>4 DEF Undropped
<1>6. m.digest.patches = m.patches
  BY <1>1, <1>5 DEF MergeIsFresh, Current, Candidate
<1>7. \A o, p \in Waiting(queue) : Disjoint(o, p)
  BY <1>1 DEF MergeIsFresh
<1>8. There(queue') = There(queue)
  <2>1. CASE queue' = queue
    BY <2>1
  <2>2. CASE queue' # queue
    <3>1. Merges(q, queue')
      BY <1>3, <2>2, MergeMerges DEF CommitMerge
    <3> QED
      BY <1>3, <3>1 DEF Merges
  <2> QED
    BY <2>1, <2>2
<1>9. \/ UNCHANGED <<source, integration, log>>
      \/ /\ source'.merged = Undropped(q)
         /\ integration' = m
         /\ log'.merge = log.merge \cup {m}
         /\ log'.enqueue = log.enqueue
  <2>1. CASE /\ source' = [source EXCEPT !.merged = @ \cup Undropped(q)]
             /\ integration' = m
             /\ log' = [log EXCEPT !.merge = @ \cup {m}]
    <3>1. source'.merged = source.merged \cup Undropped(q)
      BY <1>1, <2>1 DEF TypeOK, Source
    <3>2. log'.merge = log.merge \cup {m} /\ log'.enqueue = log.enqueue
      BY <1>1, <2>1 DEF TypeOK, Log
    <3>3. source.merged = {}
      BY <1>1 DEF MergeIsFresh, Unmerged
    <3> HIDE DEF m, q
    <3> QED
      BY <2>1, <3>1, <3>2, <3>3
  <2> QED
    BY <2>1 DEF CommitMerge
<1> HIDE DEF m, q
<1> QED
  BY <1>5, <1>6, <1>7, <1>8, <1>9 DEF m, q

LEMMA UndisturbedStep ==
  ASSUME DeliveryInv, TypeOK', QueueInv', [Next]_vars, ~disturbed'
  PROVE  Undisturbed'
<1>0. /\ ~disturbed /\ Undisturbed /\ TypeOK /\ QueueInv /\ TheRun' = TheRun
      /\ Known(queue) /\ queue \in AllQueues
  BY QuietBefore, SamePolicy DEF DeliveryInv, QueueInv, AllQueues
<1>1. \A p \in Patch : p \in There(queue) <=> queue.status[p] # "none"
  BY DEF There, Item
<1>2. log.enqueue \subseteq There(queue)
  BY <1>0, <1>1 DEF Undisturbed, QueuedStaysQueued, TypeOK, Log
<1>3. QueuedStaysQueued'
  <2>1. There(queue) \subseteq There(queue')
    <3>1. ASSUME NEW a \in Actor, pc[a] \in {"stage", "merge"}
          PROVE  There(held[a].queue) = There(queue)
      BY <1>0, <3>1, RecomputedKeeps DEF Undisturbed, StageIsFresh, MergeIsFresh, Shrinks, TypeOK
    <3> QED
      BY <1>0, <3>1, QueueFrom
  <2>2. log'.enqueue \subseteq There(queue')
    <3>1. CASE Enqueues
      BY <1>2, <2>1, <3>1 DEF Enqueues, Grows
    <3>2. CASE Derives
      BY <1>2, <2>1, <3>2 DEF Derives
    <3> QED
      BY <1>0, <3>1, <3>2, QueueSteps
  <2> QED
    BY <2>2 DEF QueuedStaysQueued, There, Item
<1>4. NoConflictIsMerged'
  <2>1. CASE source'.merged = source.merged
    BY <1>0, <2>1 DEF Undisturbed, NoConflictIsMerged
  <2>2. ASSUME NEW a \in Actor, CommitMerge(a), source'.merged # source.merged
        PROVE  NoConflictIsMerged'
    <3>1. source'.merged = Waiting(queue) /\ \A o, p \in Waiting(queue) : Disjoint(o, p)
      BY <1>0, <2>2, UndisturbedMerge
    <3> QED
      BY <1>0, <3>1 DEF NoConflictIsMerged, Disjoint
  <2> QED
    BY <1>0, <2>1, <2>2, MergedBy
<1>5. MergedIsTheCandidate'
  <2> DEFINE merges == log.merge \cup ({integration} \ {None})
  <2>1. \A m \in merges : m.digest.patches = m.patches
    BY <1>0 DEF Undisturbed, MergedIsTheCandidate
  <2>2. CASE UNCHANGED <<integration, log.merge>>
    BY <2>1, <2>2 DEF MergedIsTheCandidate
  <2>3. ASSUME NEW a \in Actor, CommitMerge(a)
        PROVE  MergedIsTheCandidate'
    <3> DEFINE m == [digest |-> held[a].digest, patches |-> Undropped(held[a].queue)]
    <3>1. \/ UNCHANGED <<integration, log>>
          \/ integration' = m /\ log'.merge = log.merge \cup {m}
      BY <1>0, <2>3, UndisturbedMerge
    <3>2. m.digest.patches = m.patches
      BY <1>0, <2>3, UndisturbedMerge
    <3> HIDE DEF m
    <3> QED
      BY <2>1, <3>1, <3>2 DEF MergedIsTheCandidate
  <2>4. ASSUME NEW a \in Actor, MergeNothing(a)
        PROVE  MergedIsTheCandidate'
    <3>1. Waiting(queue) = {}
      BY <2>4, EmptyIsNothingThere, WaitingIsThere DEF MergeNothing
    <3>2. integration' = [digest |-> Current, patches |-> {}] /\ log' = log
      BY <2>4 DEF MergeNothing
    <3>3. integration'.digest.patches = integration'.patches
      BY <3>1, <3>2 DEF Current, Candidate
    <3> QED
      BY <2>1, <3>2, <3>3 DEF MergedIsTheCandidate
  <2> QED
    BY <1>0, <2>2, <2>3, <2>4, StepsKeep DEF ReportsKept
<1>6. \A v \in log'.verify : v.status = "PASS" => Matches(v)
  <2>1. CASE log'.verify = log.verify
    BY <1>0, <2>1 DEF Undisturbed
  <2>2. ASSUME NEW a \in Actor, CommitVerification(a), log'.verify # log.verify
        PROVE  \A v \in log'.verify : v.status = "PASS" => Matches(v)
    <3>1. PICK s \in Verdict :
            /\ verification' = [digest |-> held[a].digest, status |-> s, staged |-> held[a].staged]
            /\ log' = [log EXCEPT !.verify = @ \cup {verification'}]
      BY <2>2 DEF CommitVerification
    <3>2. log'.verify = log.verify \cup {verification'}
      BY <1>0, <3>1 DEF TypeOK, Log
    <3>3. Matches(held[a])
      BY <1>0, <2>2 DEF Undisturbed, CommitVerification
    <3>4. Matches(verification')
      BY <3>1, <3>3 DEF Matches
    <3> QED
      BY <1>0, <3>2, <3>4 DEF Undisturbed
  <2> QED
    BY <1>0, <2>1, <2>2, StepsKeep DEF ReportsKept
<1> QED
  BY <1>3, <1>4, <1>5, <1>6, UndisturbedActors DEF Undisturbed, Matches

LEMMA DeliveryInit == Init => DeliveryInv
<1> SUFFICES ASSUME Init
             PROVE  DeliveryInv
  OBVIOUS
<1>1. TypeOK /\ QueueInv
  BY TypeInit, QueueInit
<1>2. ReviewInv
  BY DEF Init, ReviewInv, PassedReviews
<1>3. HasWork
  BY DEF Init, HasWork, PassedReviews
<1>4. ClearInv
  BY DEF Init, ClearInv, MergedWasCleared
<1>5. FirstMerge
  BY DEF Init, FirstMerge, FirstSource
<1>6. StageInv
  BY DEF Init, StageInv
<1>7. Undisturbed
  BY DEF Init, FirstSource, Undisturbed, QueuedStaysQueued, NoConflictIsMerged,
         MergedIsTheCandidate
<1> QED
  BY <1>1, <1>2, <1>3, <1>4, <1>5, <1>6, <1>7 DEF DeliveryInv

LEMMA DeliveryStep == DeliveryInv /\ [Next]_vars => DeliveryInv'
<1> SUFFICES ASSUME DeliveryInv, [Next]_vars
             PROVE  DeliveryInv'
  OBVIOUS
<1>1. QueueInv /\ Known(queue)
  BY DEF DeliveryInv, QueueInv, AllQueues
<1>2. TypeOK'
  BY <1>1, TypeStep DEF DeliveryInv
<1>3. QueueInv'
  BY QueueStep DEF DeliveryInv
<1>4. ReviewInv'
  BY ReviewStep DEF DeliveryInv
<1>5. HasWork'
  BY <1>3, WorkStep DEF DeliveryInv
<1>6. ClearInv'
  BY ClearStep DEF DeliveryInv
<1>7. FirstMerge'
  BY <1>2, FirstMergeStep DEF DeliveryInv
<1>8. StageInv'
  BY StageStep DEF DeliveryInv
<1>9. ~disturbed' => Undisturbed'
  BY <1>2, <1>3, UndisturbedStep
<1> QED
  BY <1>2, <1>3, <1>4, <1>5, <1>6, <1>7, <1>8, <1>9 DEF DeliveryInv

\* The invariant of the delivery holds in every state.
LEMMA DeliveryHolds == Spec => []DeliveryInv
  BY DeliveryInit, DeliveryStep, PTL DEF Spec

\* The variables of the delivery keep their types.
THEOREM DeliveryTypes == Spec => []TypeOK
<1>1. DeliveryInv => TypeOK
  BY DEF DeliveryInv
<1> QED
  BY <1>1, DeliveryHolds, PTL

\* What passes the checks of merge apply has no conflict and, but in a run of
\* evidence, is not empty: the two BLOCKED reports of integration.mjs are never
\* written.
THEOREM ClearedCanBeMerged == Spec => []ClearedIsMergeable
<1>1. DeliveryInv => ClearedIsMergeable
  BY Mergeables DEF DeliveryInv
<1> QED
  BY <1>1, DeliveryHolds, PTL

\* Whatever was merged, its digest had been verified, reviewed and approved.
THEOREM MergesAreCleared == Spec => []MergedWasCleared
<1>1. DeliveryInv => MergedWasCleared
  BY DEF DeliveryInv, ClearInv
<1> QED
  BY <1>1, DeliveryHolds, PTL

\* Nothing but another's write between a command's reading and its writing
\* makes a report lie about what was checked or merged, loses a patch or
\* merges two that conflict.
THEOREM DeliveryBreaksByRacesOnly == Spec => []OnlyRacesBreakTheDelivery
<1>1. DeliveryInv => OnlyRacesBreakTheDelivery
  BY DEF DeliveryInv, Undisturbed, Matches, OnlyRacesBreakTheDelivery, StagedMatchesDigest
<1> QED
  BY <1>1, DeliveryHolds, PTL
=============================================================================
