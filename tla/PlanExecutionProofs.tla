------------------------ MODULE PlanExecutionProofs ------------------------
(***************************************************************************)
(* The safety properties of PlanExecution, for every intake and any number *)
(* of processes, users and workers.                                        *)
(*                                                                         *)
(* PlansAreValid, CapabilitiesAreBound: after k capabilities the bindings  *)
(* are well (BoundWell), from which the validation follows part by part.   *)
(* The least-number principle for a set, LeastIsIn, takes the place of the *)
(* induction on k.                                                         *)
(*                                                                         *)
(* OneWorkerPerNode: the generations of a node are numbered without a gap, *)
(* so that who creates one counted the newest, and knows of all workers it *)
(* did not miss (DispatchInv).                                             *)
(*                                                                         *)
(* BarriersHold: whatever was created or is about to be waits for nothing  *)
(* (WaitInv), and through the nodes between the dependencies reach every   *)
(* earlier barrier.                                                        *)
(***************************************************************************)
EXTENDS PlanExecution, FiniteSetTheorems, WellFoundedInduction, TLAPS

-----------------------------------------------------------------------------
(* Lists of nodes.                                                         *)

\* A list without repetitions.
Listed(s) == s \in Seq(ToSet(s)) /\ IsInjective(s)

\* Its length is the number of its elements.
LEMMA ListedCounts ==
  ASSUME NEW s, Listed(s)
  PROVE  IsFiniteSet(ToSet(s)) /\ Cardinality(ToSet(s)) = Len(s)
<1>1. PICK L \in Nat : L = Len(s)
  BY DEF Listed
<1>2. s \in [1 .. L -> ToSet(s)] /\ DOMAIN s = 1 .. L
  BY <1>1 DEF Listed
<1>3. \A x \in ToSet(s) : \E j \in 1 .. L : s[j] = x
  BY <1>2 DEF ToSet
<1>4. s \in Surjection(1 .. L, ToSet(s)) /\ s \in Injection(1 .. L, ToSet(s))
  BY <1>2, <1>3 DEF Listed, Surjection, Injection
<1>5. IsFiniteSet(1 .. L) /\ Cardinality(1 .. L) = L
  BY FS_Interval
<1>6. ExistsBijection(1 .. L, ToSet(s))
  BY <1>4 DEF ExistsBijection, Bijection
<1> QED
  BY <1>1, <1>5, <1>6, FS_Bijection

\* Two lists that have nothing in common make one.
LEMMA ListedBoth ==
  ASSUME NEW s, NEW t, Listed(s), Listed(t), ToSet(s) \cap ToSet(t) = {}
  PROVE  /\ Listed(s \o t)
         /\ ToSet(s \o t) = ToSet(s) \cup ToSet(t)
         /\ Len(s \o t) = Len(s) + Len(t)
<1>1. PICK S : S = ToSet(s) \cup ToSet(t)
  OBVIOUS
<1>2. PICK K, L \in Nat : K = Len(s) /\ L = Len(t)
  BY DEF Listed
<1>3. s \in Seq(S) /\ t \in Seq(S)
  BY <1>1 DEF Listed
<1>4. PICK u : u = s \o t
  OBVIOUS
<1>5. u \in Seq(S) /\ Len(u) = K + L
  BY <1>2, <1>3, <1>4
<1>6. /\ \A j \in 1 .. K : u[j] = s[j]
      /\ \A j \in 1 .. L : u[K + j] = t[j]
  BY <1>2, <1>3, <1>4
<1>7. DOMAIN u = 1 .. K + L /\ DOMAIN s = 1 .. K /\ DOMAIN t = 1 .. L
  BY <1>2, <1>3, <1>5
<1>8. \A j \in 1 .. K + L : j \in 1 .. K \/ (j - K \in 1 .. L /\ j = K + (j - K))
  OBVIOUS
<1>9. \A j \in 1 .. K + L :
        \/ j \in 1 .. K /\ u[j] = s[j] /\ s[j] \in ToSet(s)
        \/ j - K \in 1 .. L /\ u[j] = t[j - K] /\ t[j - K] \in ToSet(t)
  BY <1>6, <1>7, <1>8 DEF ToSet
<1>10. ToSet(u) \subseteq S
  BY <1>1, <1>7, <1>9 DEF ToSet
<1>11. S \subseteq ToSet(u)
  <2>1. ASSUME NEW x \in ToSet(s)  PROVE x \in ToSet(u)
    <3>1. PICK j \in 1 .. K : s[j] = x
      BY <1>7 DEF ToSet
    <3>2. j \in 1 .. K + L /\ u[j] = x
      BY <1>6, <3>1
    <3> QED
      BY <1>7, <3>2 DEF ToSet
  <2>2. ASSUME NEW x \in ToSet(t)  PROVE x \in ToSet(u)
    <3>1. PICK j \in 1 .. L : t[j] = x
      BY <1>7 DEF ToSet
    <3>2. K + j \in 1 .. K + L /\ u[K + j] = x
      BY <1>6, <3>1
    <3> QED
      BY <1>7, <3>2 DEF ToSet
  <2> QED
    BY <1>1, <2>1, <2>2
<1>12. ASSUME NEW a \in 1 .. K + L, NEW b \in 1 .. K + L, u[a] = u[b]  PROVE a = b
  <2>1. CASE a \in 1 .. K /\ b \in 1 .. K
    BY <1>6, <1>7, <1>12, <2>1 DEF Listed, IsInjective
  <2>2. CASE a - K \in 1 .. L /\ b - K \in 1 .. L
    <3>1. t[a - K] = t[b - K]
      BY <1>6, <1>8, <1>12, <2>2
    <3>2. a - K = b - K
      BY <1>7, <2>2, <3>1 DEF Listed, IsInjective
    <3> QED
      BY <3>2
  <2>3. CASE ~(a \in 1 .. K /\ b \in 1 .. K) /\ ~(a - K \in 1 .. L /\ b - K \in 1 .. L)
    <3>1. (u[a] \in ToSet(s) /\ u[b] \in ToSet(t)) \/ (u[a] \in ToSet(t) /\ u[b] \in ToSet(s))
      BY <1>8, <1>9, <2>3
    <3> QED
      BY <1>12, <3>1
  <2> QED
    BY <2>1, <2>2, <2>3
<1>13. IsInjective(u)
  BY <1>7, <1>12 DEF IsInjective
<1>14. ToSet(u) = S
  BY <1>10, <1>11
<1> QED
  BY <1>1, <1>2, <1>4, <1>5, <1>13, <1>14 DEF Listed

\* A list of one, and of none.
LEMMA OneListed ==
  ASSUME NEW x
  PROVE  /\ Listed(<<x>>) /\ ToSet(<<x>>) = {x} /\ Len(<<x>>) = 1
         /\ Listed(<<>>) /\ ToSet(<<>>) = {} /\ Len(<<>>) = 0
<1>1. ToSet(<<x>>) = {x} /\ ToSet(<<>>) = {}
  BY DEF ToSet
<1>2. <<x>> \in Seq({x}) /\ <<>> \in Seq({})
  OBVIOUS
<1> QED
  BY <1>1, <1>2 DEF Listed, IsInjective

\* The nodes of each workflow, each of them once.
LEMMA NodesOfPlan ==
  ASSUME NEW i
  PROVE  /\ ToSet(PlanNodes("quick", i)) = {"implementation", "review"}
         /\ ToSet(PlanNodes("disciplined", i)) = {"design", "implementation", "verification", "review"}
         /\ ToSet(PlanNodes("phase_context", i)) =
              {"context", "design", "implementation", "verification", "review"}
         /\ ToSet(PlanNodes("governed", i)) =
              {"context", "risk", "design", "implementation", "tests", "verification", "review"}
         /\ ToSet(PlanNodes("governed_v2", i)) =
              {"design", "implementation", "review"}
                \cup (IF i.challenge THEN {"challenger"} ELSE {})
                \cup (IF SplitTests(i) THEN {"tests"} ELSE {})
         /\ Listed(PlanNodes("governed_v2", i)) /\ Len(PlanNodes("governed_v2", i)) >= 3
<1>1. ToSet(PlanNodes("quick", i)) = {"implementation", "review"}
  BY DEF PlanNodes, ToSet
<1>2. ToSet(PlanNodes("disciplined", i)) = {"design", "implementation", "verification", "review"}
  BY DEF PlanNodes, ToSet
<1>3. ToSet(PlanNodes("phase_context", i)) =
        {"context", "design", "implementation", "verification", "review"}
  BY DEF PlanNodes, ToSet
<1>4. ToSet(PlanNodes("governed", i)) =
        {"context", "risk", "design", "implementation", "tests", "verification", "review"}
  BY DEF PlanNodes, ToSet
<1>5. PICK a, b, c, d, e :
        /\ a = <<"design">> /\ b = (IF i.challenge THEN <<"challenger">> ELSE <<>>)
        /\ c = <<"implementation">> /\ d = (IF SplitTests(i) THEN <<"tests">> ELSE <<>>)
        /\ e = <<"review">>
  OBVIOUS
<1>6. PICK ab, abc, abcd : ab = a \o b /\ abc = ab \o c /\ abcd = abc \o d
  OBVIOUS
<1>7. PlanNodes("governed_v2", i) = abcd \o e
  BY <1>5, <1>6 DEF PlanNodes
<1>8. /\ Listed(a) /\ ToSet(a) = {"design"} /\ Len(a) = 1
      /\ Listed(b) /\ ToSet(b) = (IF i.challenge THEN {"challenger"} ELSE {}) /\ Len(b) \in 0 .. 1
      /\ Listed(c) /\ ToSet(c) = {"implementation"} /\ Len(c) = 1
      /\ Listed(d) /\ ToSet(d) = (IF SplitTests(i) THEN {"tests"} ELSE {}) /\ Len(d) \in 0 .. 1
      /\ Listed(e) /\ ToSet(e) = {"review"} /\ Len(e) = 1
  <2>1. Len(a) = 1 /\ Len(c) = 1 /\ Len(e) = 1 /\ Len(b) \in 0 .. 1 /\ Len(d) \in 0 .. 1
    BY <1>5
  <2> QED
    BY <1>5, <2>1, OneListed
<1>9. Listed(ab) /\ ToSet(ab) = ToSet(a) \cup ToSet(b) /\ Len(ab) = Len(a) + Len(b)
  <2>1. ToSet(a) \cap ToSet(b) = {}
    BY <1>8
  <2>2. Listed(a) /\ Listed(b)
    BY <1>8
  <2> QED
    BY <1>6, <2>1, <2>2, ListedBoth
<1>10. Listed(abc) /\ ToSet(abc) = ToSet(ab) \cup ToSet(c) /\ Len(abc) = Len(ab) + Len(c)
  <2>1. ToSet(ab) \cap ToSet(c) = {}
    BY <1>8, <1>9
  <2>2. Listed(ab) /\ Listed(c)
    BY <1>8, <1>9
  <2> QED
    BY <1>6, <2>1, <2>2, ListedBoth
<1>11. Listed(abcd) /\ ToSet(abcd) = ToSet(abc) \cup ToSet(d) /\ Len(abcd) = Len(abc) + Len(d)
  BY <1>6, <1>8, <1>9, <1>10, ListedBoth
<1>12. /\ Listed(abcd \o e) /\ ToSet(abcd \o e) = ToSet(abcd) \cup ToSet(e)
       /\ Len(abcd \o e) = Len(abcd) + Len(e)
  <2>1. ToSet(abcd) \cap ToSet(e) = {}
    BY <1>8, <1>9, <1>10, <1>11
  <2>2. Listed(abcd) /\ Listed(e)
    BY <1>8, <1>11
  <2> QED
    BY <2>1, <2>2, ListedBoth
<1>13. Len(abcd \o e) >= 3
  BY <1>8, <1>9, <1>10, <1>11, <1>12
<1>14. ToSet(abcd \o e) = ToSet(a) \cup ToSet(b) \cup ToSet(c) \cup ToSet(d) \cup ToSet(e)
  BY <1>9, <1>10, <1>11, <1>12
<1> QED
  BY <1>1, <1>2, <1>3, <1>4, <1>7, <1>8, <1>12, <1>13, <1>14

\* A plan lists its nodes, and has those its pack asks for.
LEMMA PlanIsListed ==
  ASSUME NEW i, NEW w \in {"quick", "disciplined", "phase_context", "governed", "governed_v2"}
  PROVE  Listed(PlanNodes(w, i)) /\ Len(PlanNodes(w, i)) >= MinimumNodes(w)
<1>1. CASE w = "quick"
  <2>1. PlanNodes(w, i) = <<"implementation", "review">>
    BY <1>1 DEF PlanNodes
  <2>2. PICK s : s = PlanNodes(w, i)
    OBVIOUS
  <2>3. Len(s) = 2 /\ DOMAIN s = 1 .. 2
    BY <2>1, <2>2
  <2>4. s \in Seq(ToSet(s))
    BY <1>1, <2>1, <2>2, <2>3, NodesOfPlan
  <2>5. IsInjective(s)
    BY <2>1, <2>2, <2>3 DEF IsInjective
  <2>6. MinimumNodes(w) = 2
    BY <1>1 DEF MinimumNodes
  <2> QED
    BY <2>2, <2>3, <2>4, <2>5, <2>6 DEF Listed
<1>2. CASE w = "disciplined"
  <2>1. PlanNodes(w, i) = <<"design", "implementation", "verification", "review">>
    BY <1>2 DEF PlanNodes
  <2>2. PICK s : s = PlanNodes(w, i)
    OBVIOUS
  <2>3. Len(s) = 4 /\ DOMAIN s = 1 .. 4
    BY <2>1, <2>2
  <2>4. s \in Seq(ToSet(s))
    BY <1>2, <2>1, <2>2, <2>3, NodesOfPlan
  <2>5. IsInjective(s)
    BY <2>1, <2>2, <2>3 DEF IsInjective
  <2>6. MinimumNodes(w) = 4
    BY <1>2 DEF MinimumNodes
  <2> QED
    BY <2>2, <2>3, <2>4, <2>5, <2>6 DEF Listed
<1>3. CASE w = "phase_context"
  <2>1. PlanNodes(w, i) = <<"context", "design", "implementation", "verification", "review">>
    BY <1>3 DEF PlanNodes
  <2>2. PICK s : s = PlanNodes(w, i)
    OBVIOUS
  <2>3. Len(s) = 5 /\ DOMAIN s = 1 .. 5
    BY <2>1, <2>2
  <2>4. s \in Seq(ToSet(s))
    BY <1>3, <2>1, <2>2, <2>3, NodesOfPlan
  <2>5. IsInjective(s)
    BY <2>1, <2>2, <2>3 DEF IsInjective
  <2>6. MinimumNodes(w) = 5
    BY <1>3 DEF MinimumNodes
  <2> QED
    BY <2>2, <2>3, <2>4, <2>5, <2>6 DEF Listed
<1>4. CASE w = "governed"
  <2>1. PlanNodes(w, i) = <<"context", "risk", "design", "implementation", "tests",
                            "verification", "review">>
    BY <1>4 DEF PlanNodes
  <2>2. PICK s : s = PlanNodes(w, i)
    OBVIOUS
  <2>3. Len(s) = 7 /\ DOMAIN s = 1 .. 7
    BY <2>1, <2>2
  <2>4. s \in Seq(ToSet(s))
    BY <1>4, <2>1, <2>2, <2>3, NodesOfPlan
  <2>5. IsInjective(s)
    BY <2>1, <2>2, <2>3 DEF IsInjective
  <2>6. MinimumNodes(w) = 7
    BY <1>4 DEF MinimumNodes
  <2> QED
    BY <2>2, <2>3, <2>4, <2>5, <2>6 DEF Listed
<1>5. CASE w = "governed_v2"
  BY <1>5, NodesOfPlan DEF MinimumNodes
<1> QED
  BY <1>1, <1>2, <1>3, <1>4, <1>5

-----------------------------------------------------------------------------
(* The bindings.                                                           *)

\* The least-number principle, for a set: what takes the place of induction here, where
\* a theorem with a predicate as its parameter cannot be used.
LEMMA LeastIsIn ==
  ASSUME NEW S \in SUBSET Nat, S # {}
  PROVE  \E n \in S : \A m \in S : n <= m
<1>1. PICK R : R = OpToRel(<, Nat)
  BY Zenon
<1>2. IsWellFoundedOn(R, Nat)
  BY <1>1, NatLessThanWellFounded, Zenon
<1>3. R = {ss \in Nat \X Nat : ss[1] < ss[2]}
  BY <1>1, Zenon DEF OpToRel
<1>4. PICK n \in S : \A m \in S : ~(<<m, n>> \in R)
  BY <1>2, WFMin, Zenon
<1>5. \A m \in S : ~(m < n)
  BY <1>3, <1>4
<1> QED
  BY <1>5

\* The least of a set of numbers is in it, ...
LEMMA MinIsIn ==
  ASSUME NEW S \in SUBSET Nat, S # {}
  PROVE  Min(S) \in S
<1>1. PICK n \in S : \A m \in S : n <= m
  BY LeastIsIn
<1> QED
  BY <1>1 DEF Min

\* ... and the greatest of a bounded one is in it.
LEMMA MaxIsIn ==
  ASSUME NEW S \in SUBSET Nat, S # {}, NEW b \in Nat, \A m \in S : m <= b
  PROVE  Max(S) \in S
<1> DEFINE U == {n \in Nat : \A m \in S : m <= n}
<1>1. U \in SUBSET Nat /\ U # {}
  OBVIOUS
<1>2. PICK u \in U : \A n \in U : u <= n
  BY <1>1, LeastIsIn
<1>3. u \in S
  <2>1. SUFFICES ASSUME u \notin S  PROVE FALSE
    OBVIOUS
  <2>2. \A m \in S : m < u
    BY <1>2, <2>1
  <2>3. u # 0
    <3>1. PICK m \in S : TRUE
      OBVIOUS
    <3>2. m < u /\ m \in Nat
      BY <2>2, <3>1
    <3> QED
      BY <3>2
  <2>4. u - 1 \in U
    BY <1>2, <2>2, <2>3
  <2> QED
    BY <1>2, <2>4
<1>4. \E x \in S : \A y \in S : x >= y
  BY <1>2, <1>3
<1> QED
  BY <1>4 DEF Max

\* Where nothing is bound yet, ...
Unbound == [ok |-> TRUE, kernel |-> {}, bound |-> {}]

\* ... and what is, in general.
Binding(nodes, routed) ==
  [ok : BOOLEAN, kernel : SUBSET ToSet(routed), bound : SUBSET (ToSet(nodes) \X ToSet(routed))]

\* What becomes of a capability.
BindNext(workflow, nodes, b, c) == IF b.ok THEN BindCapability(workflow, nodes, b, c) ELSE b

\* The bindings go from capability to capability.
Linked(workflow, nodes, routed, bindings) ==
  \A k \in 1 .. Len(routed) :
    bindings[k] = BindNext(workflow, nodes, bindings[k - 1], routed[k])

ToKernel(b, c, next) ==
  next.ok = b.ok /\ next.kernel = b.kernel \cup {c} /\ next.bound = b.bound

ToNode(workflow, b, c, n, next) ==
  /\ Compatible(c, n) /\ HasRoom(workflow, Carried(b, n), c.category)
  /\ next.ok = b.ok /\ next.kernel = b.kernel /\ next.bound = b.bound \cup {<<n, c>>}

ToNobody(b, next) == ~next.ok /\ next.kernel = b.kernel /\ next.bound = b.bound

\* A capability is given to the kernel, to a node that can carry it and has room for it,
\* or to nobody.
LEMMA BindNextIs ==
  ASSUME NEW workflow, NEW nodes, NEW routed, NEW c, NEW b, NEW next,
         nodes \in Seq(ToSet(nodes)), c \in ToSet(routed), b \in Binding(nodes, routed),
         next = BindNext(workflow, nodes, b, c)
  PROVE  /\ next \in Binding(nodes, routed)
         /\ \/ ToKernel(b, c, next)
            \/ \E n \in ToSet(nodes) : ToNode(workflow, b, c, n, next)
            \/ ToNobody(b, next)
<1> DEFINE candidates == Candidates(c, nodes)
           roomy == {j \in candidates : HasRoom(workflow, Carried(b, nodes[j]), c.category)}
           at == SelectInSeq(nodes, LAMBDA n : n = Target(c, nodes))
           onward == {j \in roomy : at <= j}
           chosen == IF onward # {} THEN Min(onward) ELSE Max(roomy)
<1>1. CASE ~b.ok
  BY <1>1 DEF BindNext, ToNobody
<1>2. CASE b.ok /\ candidates = {} /\ workflow = "governed_v2" /\ c.class = "deterministic_check"
  <2>1. next = [b EXCEPT !.kernel = b.kernel \cup {c}]
    BY <1>2 DEF BindNext, BindCapability
  <2> QED
    BY <2>1 DEF Binding, ToKernel
<1>3. CASE b.ok /\ roomy # {}
  <2>1. roomy \subseteq 1 .. Len(nodes) /\ Len(nodes) \in Nat
    BY DEF Candidates
  <2>2. chosen \in roomy
    <3>1. onward # {} => Min(onward) \in onward
      <4>1. onward \in SUBSET Nat
        <5> HIDE DEF at
        <5> QED
          BY <2>1
      <4> HIDE DEF onward
      <4> QED
        BY <4>1, MinIsIn
    <3>2. Max(roomy) \in roomy
      <4>1. roomy \in SUBSET Nat /\ \A m \in roomy : m <= Len(nodes)
        BY <2>1
      <4> HIDE DEF roomy
      <4> QED
        BY <1>3, <2>1, <4>1, MaxIsIn
    <3> QED
      BY <3>1, <3>2
  <2>3. candidates # {}
    BY <1>3
  <2>4. next = [b EXCEPT !.bound = b.bound \cup {<<nodes[chosen], c>>}]
    BY <1>3, <2>3 DEF BindNext, BindCapability
  <2>5. /\ nodes[chosen] \in ToSet(nodes) /\ Compatible(c, nodes[chosen])
        /\ HasRoom(workflow, Carried(b, nodes[chosen]), c.category)
    <3> HIDE DEF chosen
    <3> QED
      BY <2>1, <2>2 DEF Candidates, ToSet
  <2> HIDE DEF chosen
  <2>6. PICK n \in ToSet(nodes) :
          /\ Compatible(c, n) /\ HasRoom(workflow, Carried(b, n), c.category)
          /\ next = [b EXCEPT !.bound = b.bound \cup {<<n, c>>}]
    BY <2>4, <2>5
  <2>7. b.bound \cup {<<n, c>>} \in SUBSET (ToSet(nodes) \X ToSet(routed))
    BY DEF Binding
  <2>8. next \in Binding(nodes, routed)
    BY <2>6, <2>7 DEF Binding
  <2>9. next.ok = b.ok /\ next.kernel = b.kernel /\ next.bound = b.bound \cup {<<n, c>>}
    BY <2>6 DEF Binding
  <2> QED
    BY <2>6, <2>8, <2>9 DEF ToNode
<1>4. CASE /\ b.ok /\ roomy = {}
           /\ ~(candidates = {} /\ workflow = "governed_v2" /\ c.class = "deterministic_check")
  <2>1. next = [b EXCEPT !.ok = FALSE]
    BY <1>4 DEF BindNext, BindCapability
  <2> QED
    BY <2>1 DEF Binding, ToNobody
<1> QED
  BY <1>1, <1>2, <1>3, <1>4

-----------------------------------------------------------------------------
\* The recursion has a solution, whatever is routed: Bindings goes from capability to
\* capability.
LEMMA BindingsAre ==
  ASSUME NEW workflow, NEW nodes, NEW routed,
         nodes \in Seq(ToSet(nodes)), routed \in Seq(ToSet(routed))
  PROVE  /\ Bindings(workflow, nodes, routed) \in [0 .. Len(routed) -> Binding(nodes, routed)]
         /\ Bindings(workflow, nodes, routed)[0] = Unbound
         /\ Linked(workflow, nodes, routed, Bindings(workflow, nodes, routed))
<1> DEFINE Step(b, k) == BindNext(workflow, nodes, b, routed[k])
           Upto(n, f) == /\ f \in [0 .. n -> Binding(nodes, routed)] /\ f[0] = Unbound
                         /\ \A k \in 1 .. n : f[k] = Step(f[k - 1], k)
<1>1. PICK L \in Nat : L = Len(routed)
  OBVIOUS
<1>2. Unbound \in Binding(nodes, routed)
  BY DEF Unbound, Binding
<1>3. ASSUME NEW b \in Binding(nodes, routed), NEW k \in 1 .. L
      PROVE  Step(b, k) \in Binding(nodes, routed)
  <2>1. routed[k] \in ToSet(routed)
    BY <1>1 DEF ToSet
  <2> QED
    BY <2>1, BindNextIs
<1> HIDE DEF Step
<1>4. \E f : Upto(0, f)
  <2>1. Upto(0, [k \in 0 .. 0 |-> Unbound])
    BY <1>2
  <2> QED
    BY <2>1
<1>5. ASSUME NEW n \in Nat, n < L, NEW f, Upto(n, f)
      PROVE  \E g : Upto(n + 1, g)
  <2> DEFINE g == [k \in 0 .. n + 1 |-> IF k = n + 1 THEN Step(f[n], n + 1) ELSE f[k]]
  <2>1. f[n] \in Binding(nodes, routed) /\ n + 1 \in 1 .. L
    BY <1>5
  <2>2. Step(f[n], n + 1) \in Binding(nodes, routed)
    BY <1>3, <2>1
  <2>3. g \in [0 .. n + 1 -> Binding(nodes, routed)]
    BY <1>5, <2>2
  <2>4. g[0] = Unbound
    BY <1>5
  <2>5. ASSUME NEW k \in 1 .. n + 1  PROVE g[k] = Step(g[k - 1], k)
    <3>1. k - 1 \in 0 .. n /\ g[k - 1] = f[k - 1]
      OBVIOUS
    <3>2. CASE k = n + 1
      BY <3>1, <3>2
    <3>3. CASE k # n + 1
      <4>1. k \in 1 .. n /\ g[k] = f[k]
        BY <3>3
      <4> QED
        BY <1>5, <3>1, <4>1
    <3> QED
      BY <3>2, <3>3
  <2>6. Upto(n + 1, g)
    <3> HIDE DEF g
    <3> QED
      BY <2>3, <2>4, <2>5
  <2> QED
    BY <2>6
<1>6. PICK f : Upto(L, f)
  <2> HIDE DEF Upto
  <2> DEFINE S == {n \in 0 .. L : ~ \E f : Upto(n, f)}
  <2>1. SUFFICES ASSUME S # {}  PROVE FALSE
    BY <1>1
  <2>2. S \in SUBSET Nat
    BY <1>1
  <2>3. PICK m \in S : \A n \in S : m <= n
    BY <2>1, <2>2, LeastIsIn
  <2>4. m # 0 /\ m \in 0 .. L
    BY <1>4, <2>3
  <2>5. m - 1 \in 0 .. L /\ ~(m <= m - 1)
    BY <2>4
  <2>6. PICK f : Upto(m - 1, f)
    BY <2>3, <2>5
  <2>7. m - 1 \in Nat /\ m - 1 < L
    BY <2>4
  <2>8. \E g : Upto(m - 1 + 1, g)
    BY <1>5, <2>6, <2>7
  <2> QED
    BY <2>3, <2>4, <2>8
<1> DEFINE Recursion(g) ==
      g = [k \in 0 .. Len(routed) |->
             IF k = 0 THEN [ok |-> TRUE, kernel |-> {}, bound |-> {}]
             ELSE IF g[k - 1].ok THEN BindCapability(workflow, nodes, g[k - 1], routed[k])
                  ELSE g[k - 1]]
<1>7. ASSUME NEW g, Recursion(g)
      PROVE  /\ DOMAIN g = 0 .. L /\ g = [k \in DOMAIN g |-> g[k]] /\ g[0] = Unbound
             /\ \A k \in 1 .. L : g[k] = Step(g[k - 1], k)
  <2>1. DOMAIN g = 0 .. L
    BY <1>1, <1>7
  <2>2. g = [k \in DOMAIN g |-> g[k]]
    BY <1>7
  <2>3. ASSUME NEW k \in 0 .. L
        PROVE  g[k] = IF k = 0 THEN Unbound ELSE Step(g[k - 1], k)
    BY <1>1, <1>7 DEF Step, BindNext, Unbound
  <2> QED
    BY <2>1, <2>2, <2>3
<1>8. Recursion(f)
  <2>1. f = [k \in 0 .. L |-> IF k = 0 THEN Unbound ELSE Step(f[k - 1], k)]
    BY <1>6
  <2> QED
    BY <1>1, <2>1 DEF Step, BindNext, Unbound
<1>9. PICK h : h = Bindings(workflow, nodes, routed)
  OBVIOUS
<1>10. h = CHOOSE g : Recursion(g)
  BY <1>9 DEF Bindings
<1> HIDE DEF Recursion
<1>11. Recursion(h)
  BY <1>8, <1>10
<1>12. /\ DOMAIN h = 0 .. L /\ h = [k \in DOMAIN h |-> h[k]] /\ h[0] = Unbound
       /\ \A k \in 1 .. L : h[k] = Step(h[k - 1], k)
  BY <1>7, <1>11
<1>13. \A k \in 0 .. L : h[k] \in Binding(nodes, routed)
  <2> DEFINE S == {k \in 0 .. L : h[k] \notin Binding(nodes, routed)}
  <2>1. SUFFICES ASSUME S # {}  PROVE FALSE
    OBVIOUS
  <2>2. S \in SUBSET Nat
    OBVIOUS
  <2>3. PICK m \in S : \A n \in S : m <= n
    BY <2>1, <2>2, LeastIsIn
  <2>4. m # 0 /\ m \in 0 .. L
    BY <1>2, <1>12, <2>3
  <2>5. m - 1 \in 0 .. L /\ ~(m <= m - 1) /\ m \in 1 .. L
    BY <2>4
  <2>6. h[m - 1] \in Binding(nodes, routed)
    BY <2>3, <2>5
  <2> QED
    BY <1>3, <1>12, <2>3, <2>5, <2>6
<1> QED
  BY <1>1, <1>9, <1>12, <1>13 DEF Step, Linked

-----------------------------------------------------------------------------
\* Who carries a capability.
Holders(nodes, b, c) == {n \in ToSet(nodes) : <<n, c>> \in b.bound}

\* One node carries it, or the kernel runs it.
Once(nodes, b, c) ==
  \/ c \in b.kernel /\ Holders(nodes, b, c) = {}
  \/ c \notin b.kernel /\ \E n : Holders(nodes, b, c) = {n}

\* The capabilities of a category that a node carries.
Load(b, n, category) == {c \in Carried(b, n) : c.category = category}

\* What holds of the bindings after k capabilities: each is where it can be carried,
\* there is room for all, those to come are nowhere yet, and each of the others is
\* somewhere, once.
BoundWell(workflow, nodes, routed, b, k) ==
  /\ \A x \in b.bound : Compatible(x[2], x[1])
  /\ \A n \in ToSet(nodes), category \in {"core", "conditional"} :
       Cardinality(Load(b, n, category)) <= Limits(workflow)[category]
  /\ \A j \in k + 1 .. Len(routed) :
       routed[j] \notin b.kernel /\ Holders(nodes, b, routed[j]) = {}
  /\ b.ok => \A j \in 1 .. k : Once(nodes, b, routed[j])

\* Both kinds of workflow limit the same two categories.
LEMMA LimitsAre ==
  ASSUME NEW workflow
  PROVE  /\ DOMAIN Limits(workflow) = {"core", "conditional"}
         /\ \A category \in {"core", "conditional"} : Limits(workflow)[category] \in Nat
  BY DEF Limits

\* A node carries finitely many capabilities.
LEMMA LoadIsFinite ==
  ASSUME NEW nodes, NEW routed, routed \in Seq(ToSet(routed)),
         NEW b \in Binding(nodes, routed), NEW n, NEW category
  PROVE  IsFiniteSet(Load(b, n, category))
<1>1. PICK L \in Nat : L = Len(routed)
  OBVIOUS
<1>2. /\ routed \in [1 .. L -> ToSet(routed)]
      /\ \A c \in ToSet(routed) : \E i \in 1 .. L : routed[i] = c
  BY <1>1 DEF ToSet
<1>3. routed \in Surjection(1 .. L, ToSet(routed))
  BY <1>2 DEF Surjection
<1>4. IsFiniteSet(ToSet(routed))
  BY <1>3, FS_Interval, FS_Surjection
<1>5. Load(b, n, category) \subseteq ToSet(routed)
  BY DEF Load, Carried, Binding
<1> QED
  BY <1>4, <1>5, FS_Subset

\* One more capability leaves all well.
LEMMA BindNextWell ==
  ASSUME NEW workflow, NEW nodes, NEW routed,
         nodes \in Seq(ToSet(nodes)), routed \in Seq(ToSet(routed)), IsInjective(routed),
         NEW b \in Binding(nodes, routed), NEW k \in 1 .. Len(routed),
         BoundWell(workflow, nodes, routed, b, k - 1),
         NEW next, next = BindNext(workflow, nodes, b, routed[k])
  PROVE  BoundWell(workflow, nodes, routed, next, k)
<1>1. PICK L \in Nat : L = Len(routed)
  OBVIOUS
<1>2. PICK c : c = routed[k]
  OBVIOUS
<1>3. c \in ToSet(routed) /\ DOMAIN routed = 1 .. L
  BY <1>1, <1>2 DEF ToSet
<1>4. \A j \in 1 .. L : j # k => routed[j] # c
  BY <1>1, <1>2, <1>3 DEF IsInjective
<1>5. /\ next \in Binding(nodes, routed)
      /\ \/ ToKernel(b, c, next)
         \/ \E n \in ToSet(nodes) : ToNode(workflow, b, c, n, next)
         \/ ToNobody(b, next)
  <2>1. next = BindNext(workflow, nodes, b, c)
    BY <1>2
  <2> QED
    BY <1>3, <2>1, BindNextIs, Zenon
<1>6. \A j \in k .. L : routed[j] \notin b.kernel /\ Holders(nodes, b, routed[j]) = {}
  <2>1. \A j \in k - 1 + 1 .. Len(routed) :
          routed[j] \notin b.kernel /\ Holders(nodes, b, routed[j]) = {}
    BY DEF BoundWell
  <2>2. k - 1 + 1 = k
    OBVIOUS
  <2> QED
    BY <1>1, <2>1, <2>2
<1>7. c \notin b.kernel /\ Holders(nodes, b, c) = {}
  <2>1. k \in k .. L
    BY <1>1
  <2> QED
    BY <1>2, <1>6, <2>1
<1>8. \A j \in k + 1 .. L : j \in k .. L /\ routed[j] # c
  BY <1>1, <1>4
<1>9. CASE ToKernel(b, c, next)
  <2>1. next.ok = b.ok /\ next.kernel = b.kernel \cup {c} /\ next.bound = b.bound
    BY <1>9 DEF ToKernel
  <2>2. \A n, category : Load(next, n, category) = Load(b, n, category)
    BY <2>1 DEF Load, Carried
  <2>3. \A d : Holders(nodes, next, d) = Holders(nodes, b, d)
    BY <2>1 DEF Holders
  <2>4. \A j \in k + 1 .. L : routed[j] \notin next.kernel /\ Holders(nodes, next, routed[j]) = {}
    BY <1>6, <1>8, <2>1, <2>3
  <2>5. ASSUME next.ok, NEW j \in 1 .. k  PROVE Once(nodes, next, routed[j])
    <3>1. CASE j = k
      BY <1>2, <1>7, <2>1, <2>3, <3>1 DEF Once
    <3>2. CASE j # k
      <4>1. Once(nodes, b, routed[j]) /\ routed[j] # c
        BY <1>1, <1>4, <2>1, <2>5, <3>2 DEF BoundWell
      <4> QED
        BY <2>1, <2>3, <4>1 DEF Once
    <3> QED
      BY <3>1, <3>2
  <2> QED
    BY <1>1, <2>1, <2>2, <2>4, <2>5 DEF BoundWell
<1>10. ASSUME NEW n \in ToSet(nodes), ToNode(workflow, b, c, n, next)
      PROVE  BoundWell(workflow, nodes, routed, next, k)
  <2>1. /\ next.ok = b.ok /\ next.kernel = b.kernel /\ next.bound = b.bound \cup {<<n, c>>}
        /\ Compatible(c, n) /\ HasRoom(workflow, Carried(b, n), c.category)
    BY <1>10 DEF ToNode
  <2>2. \A x \in next.bound : Compatible(x[2], x[1])
    BY <2>1 DEF BoundWell
  <2>3. \A d : d # c => Holders(nodes, next, d) = Holders(nodes, b, d)
    BY <2>1 DEF Holders
  <2>4. Holders(nodes, next, c) = {n}
    BY <1>7, <2>1 DEF Holders
  <2>5. ASSUME NEW m \in ToSet(nodes), NEW category \in {"core", "conditional"}
        PROVE  Cardinality(Load(next, m, category)) <= Limits(workflow)[category]
    <3>1. /\ Cardinality(Load(b, m, category)) <= Limits(workflow)[category]
          /\ Limits(workflow)[category] \in Nat
      BY LimitsAre DEF BoundWell
    <3>2. CASE m = n /\ c.category = category
      <4>1. Carried(next, m) = Carried(b, m) \cup {c}
        <5>1. {x \in next.bound : x[1] = m} = {x \in b.bound : x[1] = m} \cup {<<n, c>>}
          BY <2>1, <3>2
        <5>2. PICK A : A = {x \in b.bound : x[1] = m}
          OBVIOUS
        <5>3. \A d : d \in {x[2] : x \in A \cup {<<n, c>>}} <=> d \in {x[2] : x \in A} \/ d = c
          <6>1. \A d : d \in {x[2] : x \in A} => d \in {x[2] : x \in A \cup {<<n, c>>}}
            OBVIOUS
          <6>2. c \in {x[2] : x \in A \cup {<<n, c>>}}
            <7>1. <<n, c>> \in A \cup {<<n, c>>} /\ <<n, c>>[2] = c
              OBVIOUS
            <7> QED
              BY <7>1, Zenon
          <6>3. ASSUME NEW x \in A \cup {<<n, c>>}  PROVE x[2] \in {y[2] : y \in A} \/ x[2] = c
            OBVIOUS
          <6> QED
            BY <6>1, <6>2, <6>3
        <5>4. /\ Carried(next, m) = {x[2] : x \in A \cup {<<n, c>>}}
              /\ Carried(b, m) = {x[2] : x \in A}
          BY <5>1, <5>2 DEF Carried
        <5> QED
          BY <5>3, <5>4
      <4>2. Load(next, m, category) = Load(b, m, category) \cup {c}
        BY <3>2, <4>1 DEF Load
      <4>3. Cardinality(Load(b, m, category)) < Limits(workflow)[category]
        BY <2>1, <3>2, LimitsAre DEF HasRoom, Load
      <4>4. /\ IsFiniteSet(Load(b, m, category))
            /\ Cardinality(Load(b, m, category)) \in Nat
        BY LoadIsFinite, FS_CardinalityType
      <4>5. Cardinality(Load(next, m, category)) <= Cardinality(Load(b, m, category)) + 1
        <5>1. CASE c \in Load(b, m, category)
          <6>1. Load(next, m, category) = Load(b, m, category)
            BY <4>2, <5>1
          <6> QED
            BY <4>4, <6>1
        <5>2. CASE c \notin Load(b, m, category)
          <6>1. Cardinality(Load(b, m, category) \cup {c}) = Cardinality(Load(b, m, category)) + 1
            BY <4>4, <5>2, FS_AddElement
          <6> QED
            BY <4>2, <4>4, <6>1
        <5> QED
          BY <5>1, <5>2
      <4>6. Cardinality(Load(next, m, category)) \in Nat
        BY <1>5, LoadIsFinite, FS_CardinalityType
      <4> QED
        BY <3>1, <4>3, <4>4, <4>5, <4>6
    <3>3. CASE ~(m = n /\ c.category = category)
      <4>1. Load(next, m, category) = Load(b, m, category)
        BY <2>1, <3>3 DEF Load, Carried
      <4> QED
        BY <3>1, <4>1
    <3> QED
      BY <3>2, <3>3
  <2>6. \A j \in k + 1 .. L : routed[j] \notin next.kernel /\ Holders(nodes, next, routed[j]) = {}
    BY <1>6, <1>8, <2>1, <2>3
  <2>7. ASSUME next.ok, NEW j \in 1 .. k  PROVE Once(nodes, next, routed[j])
    <3>1. CASE j = k
      BY <1>2, <1>7, <2>1, <2>4, <3>1 DEF Once
    <3>2. CASE j # k
      <4>1. Once(nodes, b, routed[j]) /\ routed[j] # c
        BY <1>1, <1>4, <2>1, <2>7, <3>2 DEF BoundWell
      <4> QED
        BY <2>1, <2>3, <4>1 DEF Once
    <3> QED
      BY <3>1, <3>2
  <2> QED
    BY <1>1, <2>2, <2>5, <2>6, <2>7 DEF BoundWell
<1>11. CASE ToNobody(b, next)
  <2>0. ~next.ok /\ next.kernel = b.kernel /\ next.bound = b.bound
    BY <1>11 DEF ToNobody
  <2>1. \A m, category : Load(next, m, category) = Load(b, m, category)
    BY <2>0 DEF Load, Carried
  <2>2. \A d : Holders(nodes, next, d) = Holders(nodes, b, d)
    BY <2>0 DEF Holders
  <2>3. \A j \in k + 1 .. L : routed[j] \notin next.kernel /\ Holders(nodes, next, routed[j]) = {}
    BY <1>6, <2>0, <1>8, <2>2
  <2> QED
    BY <1>1, <2>0, <2>1, <2>3 DEF BoundWell
<1> QED
  BY <1>5, <1>9, <1>10, <1>11

\* All is well in the end.
LEMMA BindingsWell ==
  ASSUME NEW workflow, NEW nodes, NEW routed,
         nodes \in Seq(ToSet(nodes)), routed \in Seq(ToSet(routed)), IsInjective(routed)
  PROVE  BoundWell(workflow, nodes, routed, Bindings(workflow, nodes, routed)[Len(routed)],
                   Len(routed))
<1>1. PICK h : h = Bindings(workflow, nodes, routed)
  OBVIOUS
<1>2. PICK L \in Nat : L = Len(routed)
  OBVIOUS
<1>3. /\ \A k \in 0 .. L : h[k] \in Binding(nodes, routed)
      /\ h[0] = Unbound
      /\ \A k \in 1 .. L : h[k] = BindNext(workflow, nodes, h[k - 1], routed[k])
  <2>1. /\ Bindings(workflow, nodes, routed) \in [0 .. Len(routed) -> Binding(nodes, routed)]
        /\ Bindings(workflow, nodes, routed)[0] = Unbound
        /\ Linked(workflow, nodes, routed, Bindings(workflow, nodes, routed))
    BY BindingsAre
  <2> QED
    BY <1>1, <1>2, <2>1 DEF Linked
<1>4. BoundWell(workflow, nodes, routed, h[0], 0)
  <2>1. h[0].bound = {} /\ h[0].kernel = {}
    BY <1>3 DEF Unbound
  <2>2. \A n, category : Load(h[0], n, category) = {}
    BY <2>1 DEF Load, Carried
  <2>3. \A c : Holders(nodes, h[0], c) = {}
    BY <2>1 DEF Holders
  <2>4. \A n, category : Cardinality(Load(h[0], n, category)) = 0
    BY <2>2, FS_EmptySet
  <2>5. \A category \in {"core", "conditional"} : 0 <= Limits(workflow)[category]
    BY LimitsAre
  <2> QED
    BY <2>1, <2>3, <2>4, <2>5 DEF BoundWell
<1> DEFINE Well(k) == BoundWell(workflow, nodes, routed, h[k], k)
           S == {k \in 0 .. L : ~Well(k)}
<1>5. Well(0)
  BY <1>4
<1>6. ASSUME NEW k \in 1 .. L, Well(k - 1)  PROVE Well(k)
  <2>1. h[k - 1] \in Binding(nodes, routed) /\ h[k] = BindNext(workflow, nodes, h[k - 1], routed[k])
    BY <1>3
  <2> QED
    BY <1>2, <1>6, <2>1, BindNextWell
<1> HIDE DEF Well
<1>7. ASSUME S # {}  PROVE FALSE
  <2>1. S \in SUBSET Nat
    OBVIOUS
  <2>2. PICK m \in S : \A n \in S : m <= n
    BY <1>7, <2>1, LeastIsIn
  <2>3. m \in 1 .. L
    BY <1>5, <2>2
  <2>4. m - 1 \in 0 .. L /\ ~(m <= m - 1)
    BY <2>3
  <2>5. Well(m - 1)
    BY <2>2, <2>4
  <2> QED
    BY <1>6, <2>2, <2>3, <2>5
<1>8. Well(L)
  BY <1>7
<1> QED
  BY <1>1, <1>2, <1>8 DEF Well

-----------------------------------------------------------------------------
(* The plan, and its validation.                                           *)

\* What the later nodes of a plan wait for, as far as the plan has it.
LEMMA PlanDependencies ==
  ASSUME NEW p, NEW n
  PROVE  /\ n = "review" => Dependencies(p, n) =
              (IF Workflow(p.pack) \in {"quick", "governed_v2"} THEN {"implementation", "tests"}
                                                                ELSE {"verification"}) \cap ToSet(p.nodes)
         /\ n = "verification" => Dependencies(p, n) = {"implementation", "tests"} \cap ToSet(p.nodes)
         /\ n \in {"implementation", "tests"} =>
              Dependencies(p, n) = {"design", "challenger"} \cap ToSet(p.nodes)
         /\ n = "design" /\ Workflow(p.pack) = "governed" =>
              Dependencies(p, n) = {"context", "risk"} \cap ToSet(p.nodes)
         /\ n = "design" /\ Workflow(p.pack) = "phase_context" =>
              Dependencies(p, n) = {"context"} \cap ToSet(p.nodes)
  BY DEF Dependencies, WaitsFor

\* What Bind makes of a pack.
LEMMA BindHas ==
  ASSUME NEW pack, NEW i, NEW p, p = Bind(pack, i)
  PROVE  /\ p.pack = pack /\ p.nodes = PlanNodes(Workflow(pack), i)
         /\ p.ok = Bindings(Workflow(pack), p.nodes, i.routed)[Len(i.routed)].ok
         /\ p.kernel = Bindings(Workflow(pack), p.nodes, i.routed)[Len(i.routed)].kernel
         /\ p.bound = Bindings(Workflow(pack), p.nodes, i.routed)[Len(i.routed)].bound
  BY Zenon DEF Bind

\* What a plan is bound to is bound well.
LEMMA PlanBoundWell ==
  ASSUME NEW i \in Intakes, NEW pack \in Packs, NEW p, p = Bind(pack, i)
  PROVE  /\ BoundWell(Workflow(pack), p.nodes, i.routed, p, Len(i.routed))
         /\ p.bound \subseteq ToSet(p.nodes) \X ToSet(i.routed)
<1>1. PICK w, nodes, routed, h :
        /\ w = Workflow(pack) /\ nodes = p.nodes /\ routed = i.routed
        /\ h = Bindings(w, nodes, routed)[Len(routed)]
  OBVIOUS
<1>2. p.ok = h.ok /\ p.kernel = h.kernel /\ p.bound = h.bound
  BY <1>1, BindHas
<1>3. w \in {"quick", "disciplined", "phase_context", "governed", "governed_v2"}
  BY <1>1 DEF Packs, Workflow
<1>4. nodes \in Seq(ToSet(nodes))
  BY <1>1, <1>3, BindHas, PlanIsListed DEF Listed
<1>5. routed \in Seq(ToSet(routed)) /\ IsInjective(routed)
  BY <1>1, PlanExecutionAssumption
<1>6. BoundWell(w, nodes, routed, h, Len(routed))
  BY <1>1, <1>4, <1>5, BindingsWell
<1>7. /\ \A n, category : Load(p, n, category) = Load(h, n, category)
      /\ \A c : Holders(nodes, p, c) = Holders(nodes, h, c)
  BY <1>2 DEF Load, Carried, Holders
<1>8. \A c : Once(nodes, p, c) <=> Once(nodes, h, c)
  BY <1>2, <1>7 DEF Once
<1>9. BoundWell(w, nodes, routed, p, Len(routed))
  BY <1>2, <1>6, <1>7, <1>8 DEF BoundWell
<1>10. p.bound \subseteq ToSet(nodes) \X ToSet(routed)
  <2>1. Bindings(w, nodes, routed) \in [0 .. Len(routed) -> Binding(nodes, routed)]
    BY <1>4, <1>5, BindingsAre
  <2>2. Len(routed) \in Nat
    BY <1>5
  <2> QED
    BY <1>1, <1>2, <2>1, <2>2 DEF Binding
<1> QED
  BY <1>1, <1>9, <1>10

\* What is written, by whom.
LEMMA Writes ==
  ASSUME NEW w, NEW i
  PROVE  /\ WriteScope(w, i, "tests") = i.tests
         /\ WriteScope(w, i, "implementation") =
              IF w = "governed" \/ (w = "governed_v2" /\ SplitTests(i))
              THEN i.impl ELSE i.impl \cup i.tests
         /\ WriteScope(w, i, "verification") # {}
         /\ \A n \in {"context", "risk", "design", "challenger"} : WriteScope(w, i, n) = {}
  BY DEF WriteScope

\* The nodes with something to write have it.
LEMMA SomethingToWrite ==
  ASSUME NEW w, NEW i, i.tests # {}, i.impl = {} => w # "governed",
         NEW n \in {"context", "risk", "challenger", "design", "implementation",
                    "tests", "verification", "review"},
         ExecutionClass(n) # "cognitive"
  PROVE  WriteScope(w, i, n) # {}
<1>1. n \in {"implementation", "tests", "verification"}
  BY DEF ExecutionClass
<1>2. SplitTests(i) => i.impl # {}
  BY DEF SplitTests
<1> QED
  BY <1>1, <1>2, Writes

\* Of the nodes of a lane only the implementation and the tests write, and what they write
\* is apart.
LEMMA LanesApart ==
  ASSUME NEW w, NEW i, Disjoint(ScopesOverlap, i.impl, i.tests),
         NEW nodes \in SUBSET {"context", "risk", "challenger", "design", "implementation",
                               "tests", "verification", "review"},
         "tests" \in nodes => w = "governed" \/ (w = "governed_v2" /\ SplitTests(i)),
         NEW m \in nodes, NEW n \in nodes, m # n, Lane(m) = Lane(n)
  PROVE  Disjoint(ScopesOverlap, WriteScope(w, i, m), WriteScope(w, i, n))
<1>1. \/ m \in {"context", "risk", "design", "challenger"}
      \/ m = "implementation" /\ n = "tests"
      \/ m = "tests" /\ n = "implementation"
  BY DEF Lane
<1>2. CASE m \in {"context", "risk", "design", "challenger"}
  BY <1>2, Writes DEF Disjoint
<1>3. CASE m = "implementation" /\ n = "tests"
  <2>1. WriteScope(w, i, m) = i.impl /\ WriteScope(w, i, n) = i.tests
    BY <1>3, Writes
  <2> QED
    BY <2>1
<1>4. CASE m = "tests" /\ n = "implementation"
  <2>1. WriteScope(w, i, m) = i.tests /\ WriteScope(w, i, n) = i.impl
    BY <1>4, Writes
  <2>2. \A s, t : ScopesOverlap(s, t) <=> ScopesOverlap(t, s)
    BY DEF ScopesOverlap
  <2> QED
    BY <2>1, <2>2 DEF Disjoint
<1> QED
  BY <1>1, <1>2, <1>3, <1>4

\* Of every set of nodes one waits for none of it: that which comes first.
LEMMA FirstWaitsForNone ==
  ASSUME NEW p,
         Workflow(p.pack) \in {"quick", "disciplined", "phase_context", "governed", "governed_v2"},
         ToSet(p.nodes) \subseteq {"context", "risk", "challenger", "design", "implementation",
                                   "tests", "verification", "review"}
  PROVE  Acyclic(p)
<1>1. SUFFICES ASSUME NEW S \in SUBSET ToSet(p.nodes), S # {}
               PROVE  \E n \in S : Dependencies(p, n) \cap S = {}
  BY DEF Acyclic
<1>2. CASE \E n \in S : n \in {"context", "risk", "challenger"}
  <2>1. PICK n \in S : n \in {"context", "risk", "challenger"}
    BY <1>2
  <2>2. Dependencies(p, n) = {}
    BY <2>1 DEF Dependencies, WaitsFor
  <2> QED
    BY <2>1, <2>2
<1>3. CASE S \cap {"context", "risk", "challenger"} = {} /\ "design" \in S
  <2>1. PICK n \in S : n = "design"
    BY <1>3
  <2>2. Dependencies(p, n) \subseteq {"context", "risk"}
    BY <2>1 DEF Dependencies, WaitsFor
  <2> QED
    BY <1>3, <2>1, <2>2
<1>4. CASE /\ S \cap {"context", "risk", "challenger", "design"} = {}
           /\ S \cap {"implementation", "tests"} # {}
  <2>1. PICK n \in S : n \in {"implementation", "tests"}
    BY <1>4
  <2>2. Dependencies(p, n) \subseteq {"design", "challenger"}
    BY <2>1, PlanDependencies
  <2> QED
    BY <1>4, <2>1, <2>2
<1>5. CASE S \cap {"implementation", "tests"} = {} /\ "verification" \in S
  <2>1. PICK n \in S : n = "verification"
    BY <1>5
  <2>2. Dependencies(p, n) \subseteq {"implementation", "tests"}
    BY <2>1, PlanDependencies
  <2> QED
    BY <1>5, <2>1, <2>2
<1>6. CASE S = {"review"}
  <2>1. PICK n \in S : n = "review"
    BY <1>6
  <2>2. Dependencies(p, n) \subseteq {"implementation", "tests", "verification"}
    BY <2>1, PlanDependencies
  <2> QED
    BY <1>6, <2>1, <2>2
<1> QED
  BY <1>1, <1>2, <1>3, <1>4, <1>5, <1>6

\* The validation has nothing to say of a plan, unless the implementation and the
\* tests overlap, or there is nothing to implement and the pack asks for it.
LEMMA BoundPlanIsValid ==
  ASSUME NEW i \in Intakes, NEW pack \in Packs, NEW p, p = Bind(pack, i),
         Disjoint(ScopesOverlap, i.impl, i.tests), i.impl = {} => pack # "governed-v1"
  PROVE  ValidatePlanGraph(p, i)
<1>1. PICK w, nodes : w = Workflow(pack) /\ nodes = ToSet(p.nodes)
  OBVIOUS
<1>2. /\ w \in {"quick", "disciplined", "phase_context", "governed", "governed_v2"}
      /\ w = "governed" => pack = "governed-v1"
  BY <1>1 DEF Packs, Workflow
<1>3. p.pack = pack /\ p.nodes = PlanNodes(w, i)
  BY <1>1, BindHas
<1>4. /\ nodes \subseteq {"context", "risk", "challenger", "design", "implementation",
                          "tests", "verification", "review"}
      /\ "tests" \in nodes => w = "governed" \/ (w = "governed_v2" /\ SplitTests(i))
  <2>1. nodes = ToSet(PlanNodes(w, i))
    BY <1>1, <1>3
  <2>2. CASE w = "quick"
    BY <2>1, <2>2, NodesOfPlan
  <2>3. CASE w = "disciplined"
    BY <2>1, <2>3, NodesOfPlan
  <2>4. CASE w = "phase_context"
    BY <2>1, <2>4, NodesOfPlan
  <2>5. CASE w = "governed"
    BY <2>1, <2>5, NodesOfPlan
  <2>6. CASE w = "governed_v2"
    BY <2>1, <2>6, NodesOfPlan
  <2> QED
    BY <1>2, <2>2, <2>3, <2>4, <2>5, <2>6
<1>5. Len(p.nodes) >= MinimumNodes(w) /\ Cardinality(nodes) = Len(p.nodes)
  BY <1>1, <1>2, <1>3, PlanIsListed, ListedCounts
<1>6. i.tests # {}
  BY PlanExecutionAssumption
<1>7. \A n \in nodes : ExecutionClass(n) # "cognitive" => WriteScope(w, i, n) # {}
  BY <1>2, <1>4, <1>6, SomethingToWrite
<1>8. \A n : \A c \in Carried(p, n) : Compatible(c, n)
  <2>1. \A x \in p.bound : Compatible(x[2], x[1])
    BY PlanBoundWell DEF BoundWell
  <2> QED
    BY <2>1 DEF Carried
<1>9. WriteScopesApart(p, i)
  BY <1>1, <1>3, <1>4, LanesApart DEF WriteScopesApart
<1>10. Acyclic(p)
  BY <1>1, <1>2, <1>3, <1>4, FirstWaitsForNone
<1> QED
  BY <1>1, <1>3, <1>5, <1>7, <1>8, <1>9, <1>10 DEF ValidatePlanGraph

\* The plan is what the intake gives.
Planned == intake \in Intakes /\ plan = Plan(intake)

\* A plan is built from a pack, chosen or fallen back to.
BuiltFrom(pack, i, p) ==
  p = Bind(pack, i) /\ (pack = "governed-v1" => i.explicit = "governed-v1")

\* BuildTaskPlanGraph builds it from one.
LEMMA PlanIsBuilt ==
  ASSUME NEW i \in Intakes, NEW p, p = BuildTaskPlanGraph(i)
  PROVE  \E pack \in Packs : BuiltFrom(pack, i, p)
<1>1. MethodPack(i) \in Packs /\ (MethodPack(i) = "governed-v1" => i.explicit = "governed-v1")
  BY PlanExecutionAssumption DEF MethodPack, Packs
<1> QED
  BY <1>1 DEF BuildTaskPlanGraph, Packs, BuiltFrom

\* No plan that is built is refused, but for the two reasons.
LEMMA PlannedIsValid == Planned => PlansAreValid
<1> SUFFICES ASSUME Planned, BuildTaskPlanGraph(intake).ok,
                    Disjoint(ScopesOverlap, intake.impl, intake.tests),
                    ~(intake.impl = {} /\ intake.explicit = "governed-v1")
             PROVE  plan # None
  BY DEF PlansAreValid
<1>1. intake \in Intakes /\ plan = Plan(intake)
  BY DEF Planned
<1>2. PICK p : p = BuildTaskPlanGraph(intake)
  OBVIOUS
<1>3. PICK pack \in Packs : BuiltFrom(pack, intake, p)
  BY <1>1, <1>2, PlanIsBuilt
<1>4. ValidatePlanGraph(p, intake)
  BY <1>1, <1>3, BoundPlanIsValid DEF BuiltFrom
<1>5. plan = p
  BY <1>1, <1>2, <1>4 DEF Plan
<1> QED
  BY <1>1, <1>2, <1>5, PlanExecutionAssumption

\* A plan that stands binds every capability.
LEMMA PlannedIsBound == Planned => CapabilitiesAreBound
<1> SUFFICES ASSUME Planned, plan # None
             PROVE  /\ \A c \in ToSet(intake.routed) :
                         Cardinality({n \in ToSet(plan.nodes) : c \in Carried(plan, n)})
                           + (IF c \in plan.kernel THEN 1 ELSE 0) = 1
                    /\ \A n \in ToSet(plan.nodes) : \A c \in Carried(plan, n) :
                         /\ Compatible(c, n)
                         /\ c.category \in {"core", "conditional"} =>
                              Cardinality({d \in Carried(plan, n) : d.category = c.category})
                                <= Limits(Workflow(plan.pack))[c.category]
  BY DEF CapabilitiesAreBound
<1>1. intake \in Intakes /\ plan = BuildTaskPlanGraph(intake) /\ plan.ok
  BY DEF Planned, Plan
<1>2. PICK pack \in Packs : plan = Bind(pack, intake)
  BY <1>1, PlanIsBuilt DEF BuiltFrom
<1>3. PICK nodes, L : nodes = plan.nodes /\ L = Len(intake.routed)
  OBVIOUS
<1>4. /\ plan.pack = pack /\ BoundWell(Workflow(pack), nodes, intake.routed, plan, L)
      /\ plan.bound \subseteq ToSet(nodes) \X ToSet(intake.routed)
  BY <1>1, <1>2, <1>3, BindHas, PlanBoundWell
<1>5. ASSUME NEW c \in ToSet(intake.routed)
      PROVE  Cardinality({n \in ToSet(nodes) : c \in Carried(plan, n)})
               + (IF c \in plan.kernel THEN 1 ELSE 0) = 1
  <2>1. {n \in ToSet(nodes) : c \in Carried(plan, n)} = Holders(nodes, plan, c)
    <3>1. \A n : c \in Carried(plan, n) => <<n, c>> \in plan.bound
      BY <1>4 DEF Carried
    <3>2. \A n : <<n, c>> \in plan.bound => c \in Carried(plan, n)
      <4>1. \A n : <<n, c>>[1] = n /\ <<n, c>>[2] = c
        OBVIOUS
      <4> QED
        BY <4>1, Zenon DEF Carried
    <3> QED
      BY <3>1, <3>2 DEF Holders
  <2>2. PICK j \in 1 .. L : c = intake.routed[j]
    BY <1>1, <1>3, PlanExecutionAssumption DEF ToSet
  <2>3. Once(nodes, plan, c)
    BY <1>1, <1>4, <2>2 DEF BoundWell
  <2>4. CASE c \in plan.kernel /\ Holders(nodes, plan, c) = {}
    BY <2>1, <2>4, FS_EmptySet
  <2>5. CASE c \notin plan.kernel /\ \E n : Holders(nodes, plan, c) = {n}
    <3>1. PICK n : Holders(nodes, plan, c) = {n}
      BY <2>5
    <3>2. Cardinality({n}) = 1
      BY FS_Singleton
    <3> QED
      BY <2>1, <2>5, <3>1, <3>2
  <2> QED
    BY <2>3, <2>4, <2>5 DEF Once
<1>6. ASSUME NEW n \in ToSet(nodes), NEW c \in Carried(plan, n)
      PROVE  Compatible(c, n)
  BY <1>4 DEF BoundWell, Carried
<1>7. ASSUME NEW n \in ToSet(nodes), NEW category \in {"core", "conditional"}
      PROVE  Cardinality({d \in Carried(plan, n) : d.category = category})
               <= Limits(Workflow(pack))[category]
  BY <1>4 DEF BoundWell, Load
<1> QED
  BY <1>3, <1>4, <1>5, <1>6, <1>7

\* Init plans.
LEMMA InitPlanned == Init => Planned
  BY DEF Init, Planned

\* The intake and the plan stay.
LEMMA StepPlanned == Planned /\ [Next]_vars => Planned'
<1> SUFFICES ASSUME Planned, [Next]_vars  PROVE Planned'
  OBVIOUS
<1>1. UNCHANGED <<plan, intake>>
  BY DEF Next, Dispatch, DispatchRead, CreateRead, CountGeneration, ReplayCreate, CreateWorker,
         CreateThrows, Claim, Submit, Fail, Cancel, DropPatch, Retry, EditProject, VerifyAgain,
         HaltBlockedRun, Stages, CompleteExecute, VerifyReadyRun, PassReview, RefuseReview,
         ReopenCandidate, vars
<1> QED
  BY <1>1 DEF Planned

\* For every intake, whatever its scopes and its capabilities: the validation refuses
\* no plan that could be built, but where implementation and tests overlap or the old
\* governed pack has nothing to implement (validateTaskPlanGraph, plan-graph.mjs).
THEOREM PlansStayValid == Spec => []PlansAreValid
<1> QED
  BY InitPlanned, StepPlanned, PlannedIsValid, PTL DEF Spec

\* For every routing: one node carries each capability, can carry it and has room
\* for it, or the kernel runs it (applyCapabilityBindings, plan-graph.mjs).
THEOREM CapabilitiesStayBound == Spec => []CapabilitiesAreBound
<1> QED
  BY InitPlanned, StepPlanned, PlannedIsBound, PTL DEF Spec

-----------------------------------------------------------------------------
(* Dispatch.                                                               *)

\* The nodes of the plan that is executed.
Nodes == IF plan = None THEN {} ELSE ToSet(plan.nodes)

\* What a reviewer may have been shown.
Candidate == [patches : SUBSET Nat, edited : BOOLEAN]

\* What is kept of each worker, ...
Worker ==
  [node : Nodes, generation : Nat,
   status : {"active", "claimed", "done", "queued", "blocked", "cancelled", "dropped"},
   attempt : Nat, saw : {None} \cup Candidate,
   posture : {"none", "approve", "block"}, by : {"dispatch", "user"}, stale : BOOLEAN]

\* ... and of each dispatching process.
Dispatching ==
  [todo : SUBSET Nodes, node : Nodes \cup {None}, generation : Nat, seen : Nat,
   stale : BOOLEAN, by : {"dispatch", "user"}]

\* The state of execute, verify and review.
NodeState == [{"execute", "verify", "review"} -> {"pending", "passed", "halted"}]

\* The types of what dispatch, workers and the stages of nodes are kept in.
DispatchTypeOK ==
  /\ node \in NodeState
  /\ workers \in Seq(Worker)
  /\ pc \in [Proc -> Dispatching]
  /\ edited \in BOOLEAN

\* The generations of a node are numbered from 1, without a gap.
Numbered ==
  \A n \in Nodes : \A g \in 1 .. Cardinality(Of(n)) :
    \E w \in Of(n) : workers[w].generation = g

\* No worker of the node counts for the present candidate.
Free(n) == node["review"] = "pending" => Of(n) \cap Counting = {}

\* A process that has seen all workers goes through free nodes.
Chosen(p) ==
  /\ pc[p].seen <= Len(workers)
  /\ pc[p].seen = Len(workers) => \A n \in pc[p].todo : Free(n)

\* One that has counted the newest generation, after such a look, is at a
\* free node.
Counted(p) ==
  LET n == pc[p].node IN
  n # None =>
    /\ n \notin pc[p].todo
    /\ pc[p].generation \in 1 .. Cardinality(Of(n)) + 1
    /\ ~pc[p].stale /\ pc[p].generation = Cardinality(Of(n)) + 1 => Free(n)

\* The inductive invariant for OneWorkerPerNode.
DispatchInv ==
  /\ DispatchTypeOK
  /\ Numbered
  /\ \A p \in Proc : Chosen(p) /\ Counted(p)
  /\ OneWorkerPerNode

-----------------------------------------------------------------------------
(* The workers of a node.                                                   *)

\* Created is the domain of workers, each of which is a record.
LEMMA WorkersAre ==
  ASSUME DispatchTypeOK
  PROVE  /\ Len(workers) \in Nat /\ Created = 1 .. Len(workers)
         /\ workers \in [Created -> Worker]
  BY DEF DispatchTypeOK, Created

\* There are finitely many workers of a node.
LEMMA OfIsFinite ==
  ASSUME DispatchTypeOK, NEW n
  PROVE  /\ Of(n) \subseteq Created
         /\ IsFiniteSet(Of(n)) /\ Cardinality(Of(n)) \in Nat
<1>1. Of(n) \subseteq Created /\ IsFiniteSet(Created)
  BY WorkersAre, FS_Interval DEF Of
<1> QED
  BY <1>1, FS_Subset, FS_CardinalityType

\* A step that keeps what a worker is for and takes back none that counts keeps the
\* numbers and what the processes know.
LEMMA QuietStep ==
  ASSUME DispatchInv, DispatchTypeOK', UNCHANGED <<plan, pc>>,
         Len(workers') = Len(workers),
         \A w \in Created : /\ workers'[w].node = workers[w].node
                            /\ workers'[w].generation = workers[w].generation
                            /\ workers'[w].stale = workers[w].stale,
         node'["review"] = "pending" => node["review"] = "pending" /\ Counting' \subseteq Counting
  PROVE  DispatchInv'
<1>1. Created' = Created
  BY DEF Created
<1>2. \A n : Of(n)' = Of(n)
  BY <1>1 DEF Of
<1>3. Nodes' = Nodes
  BY DEF Nodes
<1>4. \A n : Free(n) => Free(n)'
  BY <1>2 DEF Free
<1>5. Numbered'
  <2>1. SUFFICES ASSUME NEW n \in Nodes, NEW g \in 1 .. Cardinality(Of(n))
                 PROVE  \E w \in Of(n) : workers'[w].generation = g
    BY <1>2, <1>3 DEF Numbered
  <2>2. PICK w \in Of(n) : workers[w].generation = g
    BY DEF DispatchInv, Numbered
  <2> QED
    BY <2>2 DEF Of
<1>6. ASSUME NEW p \in Proc  PROVE Chosen(p)' /\ Counted(p)'
  <2>1. Chosen(p) /\ Counted(p)
    BY DEF DispatchInv
  <2>2. Chosen(p)'
    BY <1>4, <2>1 DEF Chosen
  <2>3. Counted(p)'
    BY <1>2, <1>4, <2>1 DEF Counted
  <2> QED
    BY <2>2, <2>3
<1>7. OneWorkerPerNode'
  <2>1. SUFFICES ASSUME node'["review"] = "pending", NEW v \in Counting', NEW w \in Counting',
                        v < w, workers'[v].node = workers'[w].node
                 PROVE  workers'[w].stale
    BY DEF OneWorkerPerNode
  <2>2. v \in Counting /\ w \in Counting
    BY <2>1
  <2>3. v \in Created /\ w \in Created
    BY <2>2 DEF Counting
  <2>4. workers[w].stale
    BY <2>1, <2>2, <2>3 DEF DispatchInv, OneWorkerPerNode
  <2> QED
    BY <2>3, <2>4
<1> QED
  BY <1>5, <1>6, <1>7 DEF DispatchInv

\* The records of the workers but one stay.
LEMMA WorkerChanged ==
  ASSUME DispatchTypeOK, NEW w \in Created, NEW u \in Worker,
         u.node = workers[w].node, u.generation = workers[w].generation,
         u.stale = workers[w].stale,
         workers' = [workers EXCEPT ![w] = u], Nodes' = Nodes
  PROVE  /\ workers' \in Seq(Worker') /\ Len(workers') = Len(workers)
         /\ \A v \in Created : /\ workers'[v].node = workers[v].node
                               /\ workers'[v].generation = workers[v].generation
                               /\ workers'[v].stale = workers[v].stale
<1>1. Worker' = Worker
  BY DEF Worker
<1>2. workers \in Seq(Worker) /\ Created = 1 .. Len(workers)
  BY DEF DispatchTypeOK, Created
<1>3. workers' \in Seq(Worker) /\ Len(workers') = Len(workers)
  BY <1>2
<1> QED
  BY <1>1, <1>2, <1>3

\* While the stages stay, the same workers count.
LEMMA SameCount ==
  ASSUME UNCHANGED <<plan, rework, verification>>, Len(workers') = Len(workers),
         \A w \in Created : workers'[w].node = workers[w].node
  PROVE  Counting' = Counting
<1>1. Created' = Created
  BY DEF Created
<1>2. ReviewsLast' = ReviewsLast
  BY DEF ReviewsLast
<1>3. \A w \in Created : Counts(w)' <=> Counts(w)
  BY <1>2 DEF Counts
<1> QED
  BY <1>1, <1>3 DEF Counting

\* A step of one worker, which leaves what it is for.
LEMMA WorkerStep ==
  ASSUME DispatchInv, NEW w \in Created,
         UNCHANGED <<plan, node, pc, edited, rework, verification>>,
         NEW u \in Worker, u.node = workers[w].node, u.generation = workers[w].generation,
         u.stale = workers[w].stale,
         workers' = [workers EXCEPT ![w] = u]
  PROVE  DispatchInv'
<1>1. DispatchTypeOK
  BY DEF DispatchInv
<1>2. Nodes' = Nodes
  BY DEF Nodes
<1>3. /\ workers' \in Seq(Worker') /\ Len(workers') = Len(workers)
      /\ \A v \in Created : /\ workers'[v].node = workers[v].node
                            /\ workers'[v].generation = workers[v].generation
                            /\ workers'[v].stale = workers[v].stale
  BY <1>1, <1>2, WorkerChanged
<1>4. Counting' = Counting
  BY <1>3, SameCount
<1>5. DispatchTypeOK'
  <2>1. Dispatching' = Dispatching
    BY <1>2 DEF Dispatching
  <2> QED
    BY <1>1, <1>3, <2>1 DEF DispatchTypeOK
<1> QED
  BY <1>3, <1>4, <1>5, QuietStep

\* Its status is set.
LEMMA StatusStep ==
  ASSUME DispatchInv, NEW w \in Created,
         UNCHANGED <<plan, node, pc, edited, rework, verification>>,
         NEW s \in {"active", "claimed", "done", "queued", "blocked", "cancelled", "dropped"},
         Becomes(w, s)
  PROVE  DispatchInv'
<1>1. PICK r, u : r = workers[w] /\ u = [r EXCEPT !.status = s]
  OBVIOUS
<1>2. r \in Worker
  BY <1>1, WorkersAre DEF DispatchInv
<1>3. u \in Worker /\ u.node = r.node /\ u.generation = r.generation /\ u.stale = r.stale
  BY <1>1, <1>2 DEF Worker
<1>4. workers' = [workers EXCEPT ![w] = u]
  BY <1>1 DEF Becomes
<1> QED
  BY <1>1, <1>3, <1>4, WorkerStep

\* A reviewer is shown the candidate as it is.
LEMMA DigestIsOne == DispatchTypeOK => Digest \in Candidate
  BY WorkersAre DEF Digest, Candidate, DispatchTypeOK

\* The worker steps.
LEMMA WorkerSteps ==
  ASSUME DispatchInv, NEW w \in Created,
         Claim(w) \/ Submit(w) \/ Fail(w) \/ Cancel(w) \/ DropPatch(w) \/ Retry(w)
  PROVE  DispatchInv'
<1>1. UNCHANGED <<plan, node, pc, edited, rework, verification>>
  BY DEF Claim, Submit, Fail, Cancel, DropPatch, Retry, stage
<1>2. PICK r : r = workers[w]
  OBVIOUS
<1>3. r \in Worker
  BY <1>2, WorkersAre DEF DispatchInv
<1>4. CASE Claim(w)
  <2>1. PICK d : d = IF r.node = "review" THEN Digest ELSE None
    OBVIOUS
  <2>2. d \in {None} \cup Candidate
    BY <2>1, DigestIsOne DEF DispatchInv
  <2>3. PICK u : u = [r EXCEPT !.status = "claimed", !.saw = d]
    OBVIOUS
  <2>4. u \in Worker /\ u.node = r.node /\ u.generation = r.generation /\ u.stale = r.stale
    BY <1>3, <2>2, <2>3 DEF Worker
  <2>5. workers' = [workers EXCEPT ![w] = u]
    BY <1>2, <1>4, <2>1, <2>3 DEF Claim
  <2> QED
    BY <1>1, <1>2, <2>4, <2>5, WorkerStep
<1>5. CASE Submit(w)
  <2>1. CASE r.node # "review"
    <3>1. PICK s \in {"queued", "done"} : Becomes(w, s)
      BY <1>2, <1>5, <2>1 DEF Submit
    <3> QED
      BY <1>1, <3>1, StatusStep
  <2>2. CASE r.node = "review"
    <3>1. PICK posture \in {"approve", "block"} :
            workers' = [workers EXCEPT ![w].status = "done", ![w].posture = posture]
      BY <1>2, <1>5, <2>2 DEF Submit
    <3>2. PICK u : u = [r EXCEPT !.status = "done", !.posture = posture]
      OBVIOUS
    <3>3. u \in Worker /\ u.node = r.node /\ u.generation = r.generation /\ u.stale = r.stale
      BY <1>3, <3>1, <3>2 DEF Worker
    <3>4. workers' = [workers EXCEPT ![w] = u]
      BY <1>2, <3>1, <3>2
    <3> QED
      BY <1>1, <1>2, <3>3, <3>4, WorkerStep
  <2> QED
    BY <2>1, <2>2
<1>6. CASE Fail(w)
  <2>1. PICK a : a = r.attempt + 1
    OBVIOUS
  <2>2. a \in Nat
    BY <1>3, <2>1 DEF Worker
  <2>3. PICK u : u = [r EXCEPT !.status = "blocked", !.attempt = a]
    OBVIOUS
  <2>4. u \in Worker /\ u.node = r.node /\ u.generation = r.generation /\ u.stale = r.stale
    BY <1>3, <2>2, <2>3 DEF Worker
  <2>5. workers' = [workers EXCEPT ![w] = u]
    BY <1>2, <1>6, <2>1, <2>3 DEF Fail
  <2> QED
    BY <1>1, <1>2, <2>4, <2>5, WorkerStep
<1>7. CASE Cancel(w) \/ DropPatch(w) \/ Retry(w)
  <2>1. PICK s \in {"cancelled", "dropped", "active"} : Becomes(w, s)
    BY <1>7 DEF Cancel, DropPatch, Retry
  <2> QED
    BY <1>1, <2>1, StatusStep
<1> QED
  BY <1>4, <1>5, <1>6, <1>7

-----------------------------------------------------------------------------
(* The stages.                                                              *)

\* A step of the stages that changes no worker.
LEMMA StageStep ==
  ASSUME DispatchInv, UNCHANGED <<plan, workers, pc>>,
         edited' \in BOOLEAN, node' \in NodeState,
         node'["review"] = "pending" => node["review"] = "pending" /\ Counting' \subseteq Counting
  PROVE  DispatchInv'
<1>1. DispatchTypeOK'
  <2>1. Nodes' = Nodes
    BY DEF Nodes
  <2>2. Worker' = Worker /\ Dispatching' = Dispatching
    BY <2>1 DEF Worker, Dispatching
  <2> QED
    BY <2>2 DEF DispatchInv, DispatchTypeOK
<1> QED
  BY <1>1, QuietStep

\* A verdict makes no reviewer count that did not.
LEMMA VerdictCounts ==
  ASSUME DispatchTypeOK, UNCHANGED <<plan, workers, rework>>, NEW status, Verdict(status)
  PROVE  Counting' \subseteq Counting
<1>1. Created' = Created /\ ReviewsLast' = ReviewsLast
  BY DEF Created, ReviewsLast
<1>2. CASE UNCHANGED verification
  BY <1>2, SameCount
<1>3. CASE verification' = [of |-> Digest, status |-> status, at |-> Len(workers)]
  <2>1. verification'.at = Len(workers)
    BY <1>3
  <2>2. \A w \in Created : ~(w > verification'.at)
    BY <2>1, WorkersAre
  <2>3. \A w \in Created : Counts(w)' => Counts(w)
    BY <1>1, <2>2 DEF Counts
  <2> QED
    BY <1>1, <2>3 DEF Counting
<1> QED
  BY <1>2, <1>3 DEF Verdict

\* A candidate that is taken back: what was done for it no longer counts.
LEMMA Reopening ==
  ASSUME DispatchInv, ReopenCandidate
  PROVE  DispatchInv'
<1>1. /\ UNCHANGED <<plan, pc, edited, verification>>
      /\ ReviewsLast /\ node["review"] = "pending"
      /\ rework'.status = "open"
      /\ rework'.superseded = UNION {Of(n) : n \in {"implementation", "tests", "review"}}
      /\ workers' = [w \in Created |->
           IF Is(w, {"queued"}) THEN [workers[w] EXCEPT !.status = "dropped"] ELSE workers[w]]
  BY DEF ReopenCandidate, Refused, ReviewReady, AsksForRework
<1>2. DispatchTypeOK /\ Created = 1 .. Len(workers) /\ Len(workers) \in Nat
      /\ \A w \in Created : workers[w] \in Worker
  BY WorkersAre DEF DispatchInv
<1>3. \A w \in Created : /\ workers'[w] \in Worker
                         /\ workers'[w].node = workers[w].node
                         /\ workers'[w].generation = workers[w].generation
                         /\ workers'[w].stale = workers[w].stale
  <2>1. SUFFICES ASSUME NEW w \in Created
                 PROVE  /\ workers'[w] \in Worker
                        /\ workers'[w].node = workers[w].node
                        /\ workers'[w].generation = workers[w].generation
                        /\ workers'[w].stale = workers[w].stale
    OBVIOUS
  <2>2. PICK r, u : r = workers[w] /\ u = [r EXCEPT !.status = "dropped"]
    OBVIOUS
  <2>3. u \in Worker /\ u.node = r.node /\ u.generation = r.generation /\ u.stale = r.stale
    BY <1>2, <2>2 DEF Worker
  <2>4. workers'[w] = r \/ workers'[w] = u
    BY <1>1, <2>2
  <2> QED
    BY <1>2, <2>2, <2>3, <2>4
<1>4. workers' \in Seq(Worker) /\ Len(workers') = Len(workers)
  BY <1>1, <1>2, <1>3
<1>5. DispatchTypeOK'
  <2>1. Nodes' = Nodes
    BY <1>1 DEF Nodes
  <2>2. Worker' = Worker /\ Dispatching' = Dispatching
    BY <2>1 DEF Worker, Dispatching
  <2>3. node' \in NodeState
    BY <1>2 DEF ReopenCandidate, DispatchTypeOK, NodeState
  <2> QED
    BY <1>1, <1>2, <1>4, <2>2, <2>3 DEF DispatchTypeOK
<1>6. Counting' \subseteq Counting
  <2>1. Created' = Created /\ ReviewsLast' = ReviewsLast
    BY <1>1, <1>4 DEF Created, ReviewsLast
  <2>2. ASSUME NEW w \in Created, Counts(w)'
        PROVE  Counts(w)
    <3>1. CASE workers[w].node \in {"implementation", "tests", "review"}
      <4>1. w \in rework'.superseded
        BY <1>1, <3>1 DEF Of
      <4>2. w \notin rework'.superseded
        BY <1>1, <1>3, <2>1, <2>2, <3>1 DEF Counts
      <4> QED
        BY <4>1, <4>2
    <3>2. CASE workers[w].node \notin {"implementation", "tests", "review"}
      BY <3>2 DEF Counts
    <3> QED
      BY <3>1, <3>2
  <2> QED
    BY <2>1, <2>2 DEF Counting
<1> QED
  BY <1>1, <1>3, <1>4, <1>5, <1>6, QuietStep

\* The other stages.
LEMMA StageSteps ==
  ASSUME DispatchInv, \/ CompleteExecute \/ VerifyReadyRun \/ VerifyAgain
                      \/ PassReview \/ RefuseReview \/ HaltBlockedRun \/ EditProject
  PROVE  DispatchInv'
<1>1. UNCHANGED <<plan, workers, pc>>
  BY DEF CompleteExecute, VerifyReadyRun, VerifyAgain, PassReview, RefuseReview,
         HaltBlockedRun, EditProject, stage
<1>2. edited' \in BOOLEAN
  BY DEF CompleteExecute, VerifyReadyRun, VerifyAgain, PassReview, RefuseReview,
         HaltBlockedRun, EditProject, DispatchInv, DispatchTypeOK
<1>3. node \in NodeState
  BY DEF DispatchInv, DispatchTypeOK
<1>4. node' \in NodeState
  <2>1. \/ UNCHANGED node
        \/ \E n \in {"execute", "verify", "review"}, s \in {"passed", "halted"} :
             node' = [node EXCEPT ![n] = s]
    BY DEF CompleteExecute, VerifyReadyRun, VerifyAgain, PassReview, RefuseReview,
           HaltBlockedRun, EditProject, stage
  <2> QED
    BY <1>3, <2>1 DEF NodeState
<1>5. CASE CompleteExecute \/ RefuseReview \/ HaltBlockedRun \/ EditProject
  <2>1. UNCHANGED <<rework, verification>> /\ node'["review"] = node["review"]
    BY <1>3, <1>5 DEF NodeState, CompleteExecute, RefuseReview, HaltBlockedRun, EditProject, stage
  <2>2. Counting' = Counting
    BY <1>1, <2>1, SameCount
  <2> QED
    BY <1>1, <1>2, <1>4, <2>1, <2>2, StageStep
<1>6. CASE VerifyReadyRun \/ VerifyAgain
  <2>1. UNCHANGED rework /\ node'["review"] = node["review"]
    BY <1>3, <1>6 DEF NodeState, VerifyReadyRun, VerifyAgain, stage
  <2>2. PICK status : Verdict(status)
    BY <1>6 DEF VerifyReadyRun, VerifyAgain
  <2>3. Counting' \subseteq Counting
    BY <1>1, <2>1, <2>2, VerdictCounts DEF DispatchInv
  <2> QED
    BY <1>1, <1>2, <1>4, <2>1, <2>3, StageStep
<1>7. CASE PassReview
  <2>1. node'["review"] # "pending"
    BY <1>3, <1>7 DEF NodeState, PassReview
  <2> QED
    BY <1>1, <1>2, <1>4, <2>1, StageStep
<1> QED
  BY <1>5, <1>6, <1>7

-----------------------------------------------------------------------------
(* Dispatch.                                                                *)

\* A step of a process that changes only where it is.
LEMMA ProcessStep ==
  ASSUME DispatchInv, NEW p \in Proc,
         UNCHANGED <<plan, node, workers, edited, rework, verification>>,
         NEW r \in Dispatching, pc' = [pc EXCEPT ![p] = r],
         r.seen <= Len(workers),
         r.seen = Len(workers) => \A n \in r.todo : Free(n),
         r.node # None =>
           /\ r.node \notin r.todo
           /\ r.generation \in 1 .. Cardinality(Of(r.node)) + 1
           /\ ~r.stale /\ r.generation = Cardinality(Of(r.node)) + 1 => Free(r.node)
  PROVE  DispatchInv'
<1>1. Created' = Created /\ ReviewsLast' = ReviewsLast /\ Nodes' = Nodes
  BY DEF Created, ReviewsLast, Nodes
<1>2. \A n : Of(n)' = Of(n)
  BY <1>1 DEF Of
<1>3. Counting' = Counting
  BY SameCount
<1>4. \A n : Free(n)' <=> Free(n)
  BY <1>2, <1>3 DEF Free
<1>5. DispatchTypeOK'
  BY <1>1 DEF DispatchInv, DispatchTypeOK, Worker, Dispatching
<1>6. Numbered'
  BY <1>1, <1>2 DEF DispatchInv, Numbered
<1>7. ASSUME NEW q \in Proc  PROVE Chosen(q)' /\ Counted(q)'
  <2>1. Chosen(q) /\ Counted(q) /\ pc \in [Proc -> Dispatching]
    BY DEF DispatchInv, DispatchTypeOK
  <2>2. CASE q = p
    <3>1. pc'[q] = r
      BY <2>1, <2>2
    <3>2. Chosen(q)'
      BY <1>4, <3>1 DEF Chosen
    <3>3. Counted(q)'
      BY <1>2, <1>4, <3>1 DEF Counted
    <3> QED
      BY <3>2, <3>3
  <2>3. CASE q # p
    <3>1. pc'[q] = pc[q]
      BY <2>1, <2>3
    <3>2. Chosen(q)'
      BY <1>4, <2>1, <3>1 DEF Chosen
    <3>3. Counted(q)'
      BY <1>2, <1>4, <2>1, <3>1 DEF Counted
    <3> QED
      BY <3>2, <3>3
  <2> QED
    BY <2>2, <2>3
<1>8. OneWorkerPerNode'
  BY <1>3 DEF DispatchInv, OneWorkerPerNode
<1> QED
  BY <1>5, <1>6, <1>7, <1>8 DEF DispatchInv

\* A process that has nothing to do.
LEMMA IdleStep ==
  ASSUME DispatchInv, NEW p \in Proc,
         UNCHANGED <<plan, node, workers, edited, rework, verification>>,
         pc' = [pc EXCEPT ![p] = Idle]
  PROVE  DispatchInv'
<1>1. PICK r : r = Idle
  OBVIOUS
<1>2. /\ r = [todo |-> {}, node |-> None, generation |-> 0, seen |-> 0, stale |-> FALSE,
              by |-> "dispatch"]
      /\ r \in Dispatching
  BY <1>1 DEF Idle, Dispatching
<1>3. r.todo = {} /\ r.node = None /\ r.seen = 0
  BY <1>2
<1>4. Len(workers) \in Nat
  BY WorkersAre DEF DispatchInv
<1>5. r.seen <= Len(workers)
  BY <1>3, <1>4
<1> QED
  BY <1>1, <1>2, <1>3, <1>5, ProcessStep

\* A process looks at the workers and chooses free nodes.
LEMMA LookingStep ==
  ASSUME DispatchInv, NEW p \in Proc,
         UNCHANGED <<plan, node, workers, edited, rework, verification>>,
         NEW nodes \in SUBSET Nodes, NEW by \in {"dispatch", "user"},
         \A n \in nodes : Free(n),
         NEW r, pc' = [pc EXCEPT ![p] = r],
         r = [todo |-> nodes, node |-> None, generation |-> 0, seen |-> Len(workers),
              stale |-> FALSE, by |-> by]
  PROVE  DispatchInv'
<1>1. Len(workers) \in Nat
  BY WorkersAre DEF DispatchInv
<1>2. r \in Dispatching /\ r.todo = nodes /\ r.node = None /\ r.seen = Len(workers)
  BY <1>1 DEF Dispatching
<1>3. r.seen <= Len(workers)
  BY <1>1, <1>2
<1> QED
  BY <1>2, <1>3, ProcessStep

\* ... before the nodes are dispatched, one after the other.
LEMMA LookingSteps ==
  ASSUME DispatchInv, NEW p \in Proc,
         DispatchRead(p) \/ \E n \in Nodes : CreateRead(p, n)
  PROVE  DispatchInv'
<1>1. UNCHANGED <<plan, node, workers, edited, rework, verification>>
  BY DEF DispatchRead, CreateRead, stage
<1>2. CASE DispatchRead(p)
  <2>1. PICK nodes \in SUBSET Ready :
          pc' = [pc EXCEPT ![p] = [Idle EXCEPT !.todo = nodes, !.seen = Len(workers)]]
    BY <1>2 DEF DispatchRead
  <2>2. nodes \in SUBSET Nodes /\ \A n \in nodes : Free(n)
    BY <1>2, <2>1 DEF DispatchRead, Ready, Nodes, Free
  <2>3. PICK r, by : r = [Idle EXCEPT !.todo = nodes, !.seen = Len(workers)] /\ by = "dispatch"
    OBVIOUS
  <2>4. r = [todo |-> nodes, node |-> None, generation |-> 0, seen |-> Len(workers),
             stale |-> FALSE, by |-> by]
    BY <2>3 DEF Idle
  <2>5. by \in {"dispatch", "user"} /\ pc' = [pc EXCEPT ![p] = r]
    BY <2>1, <2>3
  <2> QED
    BY <1>1, <2>2, <2>4, <2>5, LookingStep
<1>3. ASSUME NEW n \in Nodes, CreateRead(p, n)
      PROVE  DispatchInv'
  <2>1. PICK nodes, by, r :
          /\ nodes = {n} /\ by = "user"
          /\ r = [Idle EXCEPT !.todo = {n}, !.seen = Len(workers), !.by = "user"]
    OBVIOUS
  <2>2. r = [todo |-> nodes, node |-> None, generation |-> 0, seen |-> Len(workers),
             stale |-> FALSE, by |-> by]
    BY <2>1 DEF Idle
  <2>3. pc' = [pc EXCEPT ![p] = r]
    BY <1>3, <2>1 DEF CreateRead
  <2>4. Free(n)
    BY <1>3 DEF CreateRead, Free
  <2>5. nodes \in SUBSET Nodes /\ by \in {"dispatch", "user"} /\ \A m \in nodes : Free(m)
    BY <2>1, <2>4
  <2> QED
    BY <1>1, <2>2, <2>3, <2>5, LookingStep
<1> QED
  BY <1>2, <1>3

\* A process counts the generations of its next node.
LEMMA CountingStep ==
  ASSUME DispatchInv, NEW p \in Proc, CountGeneration(p)
  PROVE  DispatchInv'
<1>1. UNCHANGED <<plan, node, workers, edited, rework, verification>>
  BY DEF CountGeneration, stage
<1>2. PICK d, n : /\ d = pc[p] /\ n \in d.todo
                  /\ pc' = [pc EXCEPT ![p].todo = @ \ {n}, ![p].node = n,
                                      ![p].generation = Cardinality(Of(n)) + 1,
                                      ![p].stale = Len(workers) > pc[p].seen]
  BY DEF CountGeneration
<1>3. DispatchTypeOK /\ Chosen(p) /\ d \in Dispatching
  BY <1>2 DEF DispatchInv, DispatchTypeOK
<1>4. PICK k, late, rest : /\ k = Cardinality(Of(n)) + 1 /\ late = (Len(workers) > d.seen)
                           /\ rest = d.todo \ {n}
  OBVIOUS
<1>5. PICK r : r = [d EXCEPT !.todo = rest, !.node = n, !.generation = k, !.stale = late]
  OBVIOUS
<1>6. pc' = [pc EXCEPT ![p] = r]
  BY <1>2, <1>3, <1>4, <1>5
<1>7. Cardinality(Of(n)) \in Nat /\ Len(workers) \in Nat /\ d.seen \in Nat
  BY <1>3, OfIsFinite, WorkersAre DEF Dispatching
<1>8. k \in Nat /\ k \in 1 .. Cardinality(Of(n)) + 1 /\ late \in BOOLEAN
      /\ rest \in SUBSET Nodes /\ n \in Nodes /\ n \notin rest /\ rest \subseteq d.todo
  BY <1>2, <1>3, <1>4, <1>7 DEF Dispatching
<1>9. /\ r \in Dispatching /\ r.todo = rest /\ r.node = n /\ r.generation = k
      /\ r.stale = late /\ r.seen = d.seen
  <2>1. r = [todo |-> rest, node |-> n, generation |-> k, seen |-> d.seen,
             stale |-> late, by |-> d.by]
    BY <1>3, <1>5 DEF Dispatching
  <2> QED
    BY <1>3, <1>7, <1>8, <2>1 DEF Dispatching
<1>10. d.seen <= Len(workers) /\ (d.seen = Len(workers) => \A m \in d.todo : Free(m))
  BY <1>2, <1>3 DEF Chosen
<1>11. ~r.stale => Free(n)
  <2>1. SUFFICES ASSUME ~late  PROVE Free(n)
    BY <1>9
  <2>2. ~(Len(workers) > d.seen)
    BY <1>4, <2>1
  <2>3. d.seen = Len(workers)
    BY <1>7, <1>10, <2>2
  <2> QED
    BY <1>2, <1>10, <2>3
<1> QED
  BY <1>1, <1>6, <1>8, <1>9, <1>10, <1>11, ProcessStep

\* A creation that another process was ahead of, or that cannot be.
LEMMA NoCreation ==
  ASSUME DispatchInv, NEW p \in Proc, ReplayCreate(p) \/ CreateThrows(p)
  PROVE  DispatchInv'
<1>1. UNCHANGED <<plan, node, workers, edited, rework, verification>>
  BY DEF ReplayCreate, CreateThrows, stage
<1>2. CASE pc' = [pc EXCEPT ![p] = Idle]
  BY <1>1, <1>2, IdleStep
<1>3. CASE ReplayCreate(p) /\ pc[p].todo # {}
  <2>1. PICK d : d = pc[p]
    OBVIOUS
  <2>2. DispatchTypeOK /\ Chosen(p) /\ d \in Dispatching /\ Len(workers) \in Nat
    BY <2>1, WorkersAre DEF DispatchInv, DispatchTypeOK
  <2>3. PICK r : r = [d EXCEPT !.node = None, !.generation = 0, !.seen = @ + 0]
    OBVIOUS
  <2>4. pc' = [pc EXCEPT ![p] = r]
    BY <1>3, <2>1, <2>3 DEF ReplayCreate, Onward
  <2>5. d.seen \in Nat /\ d.seen + 0 = d.seen
    BY <2>2 DEF Dispatching
  <2>6. r = [todo |-> d.todo, node |-> None, generation |-> 0, seen |-> d.seen,
             stale |-> d.stale, by |-> d.by]
    BY <2>2, <2>3, <2>5 DEF Dispatching
  <2>7. r \in Dispatching /\ r.todo = d.todo /\ r.node = None /\ r.seen = d.seen
    BY <2>2, <2>5, <2>6 DEF Dispatching
  <2>8. d.seen <= Len(workers) /\ (d.seen = Len(workers) => \A m \in d.todo : Free(m))
    BY <2>1, <2>2 DEF Chosen
  <2> QED
    BY <1>1, <2>4, <2>7, <2>8, ProcessStep
<1> QED
  BY <1>2, <1>3 DEF ReplayCreate, CreateThrows, Onward

\* A worker is created.
LEMMA Creation ==
  ASSUME DispatchInv, NEW p \in Proc, CreateWorker(p)
  PROVE  DispatchInv'
<1>1. PICK d, n, g, u : d = pc[p] /\ n = d.node /\ g = d.generation /\ u = NewWorker(p)
  OBVIOUS
<1>2. /\ UNCHANGED <<plan, node, edited, rework, verification>>
      /\ workers' = Append(workers, u) /\ n # None
      /\ \A w \in Of(n) : workers[w].generation # g
  BY <1>1 DEF CreateWorker, stage
<1>3. PICK c, z : c = Cardinality(Of(n)) /\ z = Len(workers)
  OBVIOUS
<1>4. /\ DispatchTypeOK /\ d \in Dispatching /\ Chosen(p) /\ Counted(p) /\ Numbered
      /\ c \in Nat /\ z \in Nat /\ Created = 1 .. z /\ Of(n) \subseteq Created
      /\ IsFiniteSet(Of(n))
  BY <1>1, <1>3, WorkersAre, OfIsFinite DEF DispatchInv, DispatchTypeOK
<1>5. n \in Nodes /\ g \in 1 .. c + 1 /\ n \notin d.todo
  BY <1>1, <1>2, <1>3, <1>4 DEF Counted, Dispatching
<1>6. g = c + 1
  <2>1. g \notin 1 .. c
    BY <1>2, <1>3, <1>4, <1>5 DEF Numbered
  <2> QED
    BY <1>4, <1>5, <2>1
<1>7. ~d.stale => Free(n)
  BY <1>1, <1>2, <1>3, <1>4, <1>6 DEF Counted
<1>8. /\ u = [node |-> n, generation |-> g, status |-> "active", attempt |-> 0, saw |-> None,
              posture |-> "none", by |-> d.by, stale |-> d.stale]
  BY <1>1 DEF NewWorker
<1>9. u \in Worker /\ u.node = n /\ u.generation = g /\ u.stale = d.stale
  BY <1>4, <1>5, <1>8 DEF Worker, Dispatching
<1>10. /\ workers' \in Seq(Worker) /\ Len(workers') = z + 1 /\ workers'[z + 1] = u
       /\ \A w \in Created : workers'[w] = workers[w]
  <2>1. workers \in Seq(Worker)
    BY <1>4 DEF DispatchTypeOK
  <2> QED
    BY <1>2, <1>3, <1>4, <1>9, <2>1
<1>11. /\ Created' = Created \cup {z + 1} /\ z + 1 \notin Created
       /\ Nodes' = Nodes /\ ReviewsLast' = ReviewsLast
  BY <1>2, <1>4, <1>10 DEF Created, Nodes, ReviewsLast
<1>12. Of(n)' = Of(n) \cup {z + 1} /\ \A m : m # n => Of(m)' = Of(m)
  BY <1>9, <1>10, <1>11 DEF Of
<1>13. Cardinality(Of(n)') = c + 1
  <2>1. z + 1 \notin Of(n)
    BY <1>4, <1>11
  <2> QED
    BY <1>3, <1>4, <1>12, <2>1, FS_AddElement
<1>14. Counting' \cap Created = Counting
  <2>1. \A w \in Created : Counts(w)' <=> Counts(w)
    BY <1>2, <1>10, <1>11 DEF Counts
  <2> QED
    BY <1>11, <2>1 DEF Counting
<1>15. \A m : m # n /\ Free(m) => Free(m)'
  <2>1. SUFFICES ASSUME NEW m, m # n, Free(m)  PROVE Free(m)'
    OBVIOUS
  <2>2. Of(m)' = Of(m) /\ Of(m) \subseteq Created
    BY <1>4, <1>12, <2>1, OfIsFinite
  <2> QED
    BY <1>2, <1>14, <2>1, <2>2 DEF Free
<1>16. Numbered'
  <2>1. SUFFICES ASSUME NEW m \in Nodes, NEW h \in 1 .. Cardinality(Of(m)')
                 PROVE  \E w \in Of(m)' : workers'[w].generation = h
    BY <1>11 DEF Numbered
  <2>2. CASE m = n
    <3>1. CASE h \in 1 .. c
      <4>1. PICK w \in Of(n) : workers[w].generation = h
        BY <1>3, <1>4, <1>5, <3>1 DEF Numbered
      <4> QED
        BY <1>4, <1>10, <1>12, <2>2, <4>1
    <3>2. CASE h = c + 1
      BY <1>6, <1>9, <1>10, <1>12, <2>2, <3>2
    <3> QED
      BY <1>4, <1>13, <2>2, <3>1, <3>2
  <2>3. CASE m # n
    <3>1. Of(m)' = Of(m)
      BY <1>12, <2>3
    <3>2. PICK w \in Of(m) : workers[w].generation = h
      BY <1>4, <2>1, <3>1 DEF Numbered
    <3> QED
      BY <1>4, <1>10, <3>1, <3>2, OfIsFinite
  <2> QED
    BY <2>2, <2>3
<1>17. PICK r : r = Onward(p, 1)
  OBVIOUS
<1>18. /\ r \in Dispatching /\ r.node = None /\ r.seen <= z + 1
       /\ pc' = [pc EXCEPT ![p] = r]
       /\ r.seen = z + 1 => \A m \in r.todo : Free(m) /\ m # n
  <2>1. pc' = [pc EXCEPT ![p] = r]
    BY <1>17 DEF CreateWorker
  <2>2. CASE d.todo = {}
    <3>1. r = [todo |-> {}, node |-> None, generation |-> 0, seen |-> 0, stale |-> FALSE,
               by |-> "dispatch"]
      BY <1>1, <1>17, <2>2 DEF Onward, Idle
    <3>2. r \in Dispatching /\ r.node = None /\ r.seen = 0 /\ r.todo = {}
      BY <3>1 DEF Dispatching
    <3> QED
      BY <1>4, <2>1, <3>2
  <2>3. CASE d.todo # {}
    <3>1. PICK k : k = d.seen + 1
      OBVIOUS
    <3>2. d.seen \in Nat /\ k \in Nat
      BY <1>4, <3>1 DEF Dispatching
    <3>3. r = [d EXCEPT !.node = None, !.generation = 0, !.seen = k]
      BY <1>1, <1>17, <2>3, <3>1 DEF Onward
    <3>4. r = [todo |-> d.todo, node |-> None, generation |-> 0, seen |-> k,
               stale |-> d.stale, by |-> d.by]
      BY <1>4, <3>3 DEF Dispatching
    <3>5. r \in Dispatching /\ r.node = None /\ r.seen = k /\ r.todo = d.todo
      BY <1>4, <3>2, <3>4 DEF Dispatching
    <3>6. d.seen <= z /\ (d.seen = z => \A m \in d.todo : Free(m))
      BY <1>1, <1>3, <1>4 DEF Chosen
    <3> QED
      BY <1>4, <1>5, <2>1, <3>1, <3>2, <3>5, <3>6
  <2> QED
    BY <2>2, <2>3
<1>19. DispatchTypeOK'
  BY <1>2, <1>4, <1>10, <1>11, <1>18 DEF DispatchTypeOK, Worker, Dispatching
<1>20. ASSUME NEW q \in Proc  PROVE Chosen(q)' /\ Counted(q)'
  <2>1. CASE q = p
    <3>1. pc'[q] = r
      BY <1>4, <1>18, <2>1 DEF DispatchTypeOK
    <3>2. Chosen(q)'
      BY <1>10, <1>15, <1>18, <3>1 DEF Chosen
    <3> QED
      BY <1>18, <3>1, <3>2 DEF Counted
  <2>2. CASE q # p
    <3>1. PICK e, m : e = pc[q] /\ m = e.node
      OBVIOUS
    <3>2. pc'[q] = e /\ e \in Dispatching /\ Chosen(q) /\ Counted(q)
      BY <1>4, <1>18, <2>2, <3>1 DEF DispatchInv, DispatchTypeOK
    <3>3. e.seen \in Nat /\ e.generation \in Nat /\ e.seen <= z
      BY <1>3, <3>1, <3>2 DEF Dispatching, Chosen
    <3>4. Chosen(q)'
      BY <1>4, <1>10, <3>2, <3>3 DEF Chosen
    <3>5. Counted(q)'
      <4>1. SUFFICES ASSUME m # None
                     PROVE  /\ m \notin e.todo
                            /\ e.generation \in 1 .. Cardinality(Of(m)') + 1
                            /\ ~e.stale /\ e.generation = Cardinality(Of(m)') + 1 => Free(m)'
        BY <3>1, <3>2 DEF Counted
      <4>2. /\ m \notin e.todo
            /\ e.generation \in 1 .. Cardinality(Of(m)) + 1
            /\ ~e.stale /\ e.generation = Cardinality(Of(m)) + 1 => Free(m)
        BY <3>1, <3>2, <4>1 DEF Counted
      <4>3. CASE m = n
        BY <1>3, <1>4, <1>13, <3>3, <4>2, <4>3
      <4>4. CASE m # n
        BY <1>12, <1>15, <4>2, <4>4
      <4> QED
        BY <4>3, <4>4
    <3> QED
      BY <3>4, <3>5
  <2> QED
    BY <2>1, <2>2
<1>21. OneWorkerPerNode'
  <2>1. SUFFICES ASSUME node'["review"] = "pending", NEW v \in Counting', NEW w \in Counting',
                        v < w, workers'[v].node = workers'[w].node
                 PROVE  workers'[w].stale
    BY DEF OneWorkerPerNode
  <2>2. v \in Created \cup {z + 1} /\ w \in Created \cup {z + 1}
    BY <1>11, <2>1 DEF Counting
  <2>3. v \in Created
    BY <1>4, <2>1, <2>2
  <2>4. v \in Counting
    BY <1>14, <2>1, <2>3
  <2>5. CASE w = z + 1
    <3>1. v \in Of(n)
      BY <1>9, <1>10, <2>1, <2>3, <2>5 DEF Of
    <3>2. ~Free(n)
      BY <1>2, <2>1, <2>4, <3>1 DEF Free
    <3>3. d.stale
      BY <1>7, <3>2
    <3> QED
      BY <1>9, <1>10, <2>5, <3>3
  <2>6. CASE w \in Created
    <3>1. w \in Counting /\ workers[v].node = workers[w].node
      BY <1>10, <1>14, <2>1, <2>3, <2>6
    <3>2. workers[w].stale
      BY <1>2, <2>1, <2>4, <3>1 DEF DispatchInv, OneWorkerPerNode
    <3> QED
      BY <1>10, <2>6, <3>2
  <2> QED
    BY <2>2, <2>5, <2>6
<1> QED
  BY <1>16, <1>19, <1>20, <1>21 DEF DispatchInv

-----------------------------------------------------------------------------
(* The theorem.                                                             *)

\* Nothing is dispatched at first.
LEMMA InitDispatch == Init => DispatchInv
<1> SUFFICES ASSUME Init  PROVE DispatchInv
  OBVIOUS
<1>1. workers = <<>> /\ Len(workers) = 0 /\ Created = {}
  BY DEF Init, Created
<1>2. \A n : Of(n) = {}
  BY <1>1 DEF Of
<1>3. \A n : Cardinality(Of(n)) = 0
  BY <1>2, FS_EmptySet
<1>4. Idle \in Dispatching /\ Idle.todo = {} /\ Idle.node = None /\ Idle.seen = 0
  BY DEF Idle, Dispatching
<1>5. DispatchTypeOK
  <2>1. workers \in Seq(Worker)
    BY <1>1
  <2>2. pc \in [Proc -> Dispatching]
    BY <1>4 DEF Init
  <2>3. edited \in BOOLEAN /\ node \in NodeState
    BY DEF Init, NodeState
  <2> QED
    BY <2>1, <2>2, <2>3 DEF DispatchTypeOK
<1>6. Numbered
  BY <1>3 DEF Numbered
<1>7. \A p \in Proc : Chosen(p) /\ Counted(p)
  BY <1>1, <1>4 DEF Init, Chosen, Counted
<1>8. OneWorkerPerNode
  BY <1>1 DEF OneWorkerPerNode, Counting
<1> QED
  BY <1>5, <1>6, <1>7, <1>8 DEF DispatchInv

\* Every step keeps the invariant.
LEMMA StepDispatch == DispatchInv /\ [Next]_vars => DispatchInv'
<1> SUFFICES ASSUME DispatchInv, [Next]_vars  PROVE DispatchInv'
  OBVIOUS
<1>1. ASSUME NEW p \in Proc, Dispatch(p)  PROVE DispatchInv'
  BY <1>1, LookingSteps, CountingStep, NoCreation, Creation DEF Dispatch
<1>2. ASSUME NEW p \in User, NEW n, CreateRead(p, n)  PROVE DispatchInv'
  <2>1. n \in Nodes /\ p \in Proc
    BY <1>2 DEF CreateRead, Nodes, Proc
  <2> QED
    BY <1>2, <2>1, LookingSteps
<1>3. ASSUME NEW w \in Created,
             Claim(w) \/ Submit(w) \/ Fail(w) \/ Cancel(w) \/ DropPatch(w) \/ Retry(w)
      PROVE  DispatchInv'
  BY <1>3, WorkerSteps
<1>4. CASE EditProject \/ VerifyAgain \/ HaltBlockedRun \/ Stages
  BY <1>4, StageSteps, Reopening DEF Stages
<1>5. CASE UNCHANGED vars
  <2>1. UNCHANGED <<plan, workers, pc, node, edited, rework, verification>>
    BY <1>5 DEF vars
  <2>2. edited' \in BOOLEAN /\ node' \in NodeState
    BY <2>1 DEF DispatchInv, DispatchTypeOK
  <2>3. Counting' = Counting
    BY <2>1, SameCount
  <2> QED
    BY <2>1, <2>2, <2>3, StageStep
<1> QED
  BY <1>1, <1>2, <1>3, <1>4, <1>5 DEF Next

\* For any number of processes, users and workers, and whatever goes wrong, two
\* workers of a node count for one candidate only if the later one was created
\* from a look at the workers that was older than the earlier.
THEOREM NodesHaveOneWorker == Spec => []OneWorkerPerNode
<1>1. Init => DispatchInv
  BY InitDispatch
<1>2. DispatchInv /\ [Next]_vars => DispatchInv'
  BY StepDispatch
<1>3. DispatchInv => OneWorkerPerNode
  BY DEF DispatchInv
<1> QED
  BY <1>1, <1>2, <1>3, PTL DEF Spec

\* What a worker and a dispatching process are, whatever the plan.
THEOREM DispatchTypes == Spec => []DispatchTypeOK
<1>1. Init => DispatchInv
  BY InitDispatch
<1>2. DispatchInv /\ [Next]_vars => DispatchInv'
  BY StepDispatch
<1>3. DispatchInv => DispatchTypeOK
  BY DEF DispatchInv
<1> QED
  BY <1>1, <1>2, <1>3, PTL DEF Spec

-----------------------------------------------------------------------------
(* The barriers.                                                            *)

\* The work of a node was done: what has been queued or dropped since is
\* still the work.
Settled(w) == Is(w, {"done", "queued", "dropped"})

\* What a process is about to create a worker for, and what a worker was created
\* for, waits for nothing.
WaitInv ==
  /\ \A p \in Proc : pc[p].by = "dispatch" =>
       \A n \in (pc[p].todo \cup {pc[p].node}) \ {None} :
         \A d \in Dependencies(plan, n) : \E v \in Of(d) : Settled(v)
  /\ \A w \in Created : workers[w].by = "dispatch" =>
       \A d \in Dependencies(plan, workers[w].node) : \E v \in Of(d) : v < w /\ Settled(v)

\* No work is undone, and no process has news.
KeepsWork ==
  /\ UNCHANGED plan
  /\ Created \subseteq Created'
  /\ \A w \in Created : /\ workers'[w].node = workers[w].node
                        /\ workers'[w].by = workers[w].by
                        /\ Settled(w) => Settled(w)'

\* Then what was waited for is there.
LEMMA WorkStays ==
  ASSUME KeepsWork, NEW d
  PROVE  \A v \in Of(d) : Settled(v) => v \in Of(d)' /\ Settled(v)'
  BY DEF KeepsWork, Of

\* ... for the workers that were there, too.
LEMMA WaitingStays ==
  ASSUME WaitInv, KeepsWork, NEW w \in Created, workers[w].by = "dispatch"
  PROVE  \A d \in Dependencies(plan, workers[w].node) :
           \E v \in Of(d)' : v < w /\ Settled(v)'
<1> SUFFICES ASSUME NEW d \in Dependencies(plan, workers[w].node)
             PROVE  \E v \in Of(d)' : v < w /\ Settled(v)'
  OBVIOUS
<1>1. PICK v \in Of(d) : v < w /\ Settled(v)
  BY DEF WaitInv
<1>2. v \in Of(d)' /\ Settled(v)'
  BY <1>1, WorkStays
<1> QED
  BY <1>1, <1>2

\* The workers' part of the invariant, when none is new.
LEMMA WorkersWaited ==
  ASSUME WaitInv, KeepsWork, Created' = Created
  PROVE  \A w \in Created' : workers'[w].by = "dispatch" =>
           \A d \in Dependencies(plan', workers'[w].node) : \E v \in Of(d)' : v < w /\ Settled(v)'
<1> SUFFICES ASSUME NEW w \in Created, workers'[w].by = "dispatch",
                    NEW d \in Dependencies(plan, workers'[w].node)
             PROVE  \E v \in Of(d)' : v < w /\ Settled(v)'
  BY DEF KeepsWork
<1>1. workers[w].by = "dispatch" /\ workers'[w].node = workers[w].node
  BY DEF KeepsWork
<1> QED
  BY <1>1, WaitingStays

\* A process of which this can be said wherever it goes.
Waits(r) ==
  r.by = "dispatch" =>
    \A n \in (r.todo \cup {r.node}) \ {None} :
      \A d \in Dependencies(plan, n) : \E v \in Of(d) : Settled(v)

\* Work that is done stays so.
LEMMA WaitsStays ==
  ASSUME KeepsWork, NEW r, Waits(r)
  PROVE  Waits(r)'
<1> SUFFICES ASSUME r.by = "dispatch", NEW n \in (r.todo \cup {r.node}) \ {None},
                    NEW d \in Dependencies(plan, n)
             PROVE  \E v \in Of(d)' : Settled(v)'
  BY DEF KeepsWork, Waits
<1>1. PICK v \in Of(d) : Settled(v)
  BY DEF Waits
<1> QED
  BY <1>1, WorkStays

\* Steps of workers and stages.
LEMMA WorkStep ==
  ASSUME DispatchTypeOK, WaitInv, KeepsWork, Created' = Created, UNCHANGED pc
  PROVE  WaitInv'
<1>1. \A p \in Proc : Waits(pc[p])
  BY DEF WaitInv, Waits
<1>2. \A p \in Proc : Waits(pc[p])'
  BY <1>1, WaitsStays
<1> QED
  BY <1>2, WorkersWaited DEF WaitInv, Waits

\* Steps of a process.
LEMMA ProcessWaits ==
  ASSUME DispatchTypeOK, WaitInv, UNCHANGED <<plan, workers>>,
         NEW p \in Proc, NEW r, pc' = [pc EXCEPT ![p] = r], Waits(r)
  PROVE  WaitInv'
<1>1. KeepsWork /\ Created' = Created
  BY DEF KeepsWork, Created, Settled, Is
<1>2. \A q \in Proc : Waits(pc[q])
  BY DEF WaitInv, Waits
<1>3. \A q \in Proc : pc'[q] = r \/ pc'[q] = pc[q]
  BY DEF DispatchTypeOK
<1>4. Waits(r)'
  BY <1>1, WaitsStays
<1>5. ASSUME NEW q \in Proc  PROVE Waits(pc[q])'
  <2>1. PICK e : e = pc[q]
    OBVIOUS
  <2>2. Waits(e)'
    BY <1>1, <1>2, <2>1, WaitsStays
  <2>3. pc'[q] = r \/ pc'[q] = e
    BY <1>3, <2>1
  <2> QED
    BY <1>4, <2>2, <2>3 DEF Waits
<1> QED
  BY <1>1, <1>5, WorkersWaited DEF WaitInv, Waits

\* A step of one worker that undoes no work.
LEMMA OneChanges ==
  ASSUME DispatchTypeOK, UNCHANGED plan, NEW w \in Created, NEW u,
         u.node = workers[w].node, u.by = workers[w].by,
         Settled(w) => u.status \in {"done", "queued", "dropped"},
         workers' = [workers EXCEPT ![w] = u]
  PROVE  KeepsWork /\ Created' = Created
<1>1. workers \in Seq(Worker) /\ Created = 1 .. Len(workers)
  BY DEF DispatchTypeOK, Created
<1>2. Len(workers') = Len(workers)
  BY <1>1
<1>3. Created' = Created
  BY <1>2 DEF Created
<1>4. \A v \in Created : workers'[v] = IF v = w THEN u ELSE workers[v]
  BY <1>1
<1> QED
  BY <1>3, <1>4 DEF KeepsWork, Settled, Is

\* The worker steps undo no work: only queued work is dropped.
LEMMA WorkerKeeps ==
  ASSUME DispatchTypeOK, NEW w \in Created,
         Claim(w) \/ Submit(w) \/ Fail(w) \/ Cancel(w) \/ DropPatch(w) \/ Retry(w)
  PROVE  KeepsWork /\ Created' = Created /\ UNCHANGED pc
<1>1. UNCHANGED <<plan, pc>>
  BY DEF Claim, Submit, Fail, Cancel, DropPatch, Retry
<1>2. PICK r : r = workers[w]
  OBVIOUS
<1>3. r \in Worker
  BY <1>2, WorkersAre
<1>4. CASE Claim(w)
  <2>1. PICK d, u : /\ d = (IF r.node = "review" THEN Digest ELSE None)
                    /\ u = [r EXCEPT !.status = "claimed", !.saw = d]
    OBVIOUS
  <2>2. u.node = r.node /\ u.by = r.by
    BY <1>3, <2>1 DEF Worker
  <2>3. workers' = [workers EXCEPT ![w] = u] /\ ~Settled(w)
    BY <1>2, <1>4, <2>1 DEF Claim, Settled, Is
  <2> QED
    BY <1>1, <1>2, <2>2, <2>3, OneChanges
<1>5. CASE Submit(w) /\ \E posture : workers' = [workers EXCEPT ![w].status = "done", ![w].posture = posture]
  <2>1. PICK posture, u :
          /\ workers' = [workers EXCEPT ![w].status = "done", ![w].posture = posture]
          /\ u = [r EXCEPT !.status = "done", !.posture = posture]
    BY <1>5
  <2>2. u.node = r.node /\ u.by = r.by
    BY <1>3, <2>1 DEF Worker
  <2>3. workers' = [workers EXCEPT ![w] = u] /\ ~Settled(w)
    BY <1>2, <1>5, <2>1 DEF Submit, Settled, Is
  <2> QED
    BY <1>1, <1>2, <2>2, <2>3, OneChanges
<1>6. CASE Fail(w)
  <2>1. PICK a, u : a = r.attempt + 1 /\ u = [r EXCEPT !.status = "blocked", !.attempt = a]
    OBVIOUS
  <2>2. u.node = r.node /\ u.by = r.by
    BY <1>3, <2>1 DEF Worker
  <2>3. workers' = [workers EXCEPT ![w] = u] /\ ~Settled(w)
    BY <1>2, <1>6, <2>1 DEF Fail, Settled, Is
  <2> QED
    BY <1>1, <1>2, <2>2, <2>3, OneChanges
<1>7. ASSUME NEW s, Becomes(w, s), Settled(w) => s \in {"done", "queued", "dropped"}
      PROVE  KeepsWork /\ Created' = Created
  <2>1. PICK u : u = [r EXCEPT !.status = s]
    OBVIOUS
  <2>2. u.node = r.node /\ u.by = r.by /\ u.status = s
    BY <1>3, <2>1 DEF Worker
  <2>3. workers' = [workers EXCEPT ![w] = u]
    BY <1>2, <1>7, <2>1 DEF Becomes
  <2> QED
    BY <1>1, <1>2, <1>7, <2>2, <2>3, OneChanges
<1>8. CASE \/ Submit(w) /\ \E s : Becomes(w, s)
           \/ Cancel(w) \/ DropPatch(w) \/ Retry(w)
  <2>1. PICK s : Becomes(w, s) /\ (Settled(w) => s \in {"done", "queued", "dropped"})
    BY <1>8 DEF Submit, Cancel, DropPatch, Retry, Settled, Is
  <2> QED
    BY <1>1, <1>7, <2>1
<1>9. Submit(w) => \/ \E s : Becomes(w, s)
                   \/ \E posture : workers' = [workers EXCEPT ![w].status = "done", ![w].posture = posture]
  BY DEF Submit
<1> QED
  BY <1>1, <1>4, <1>5, <1>6, <1>8, <1>9

\* Nor do the stages.
LEMMA StageKeeps ==
  ASSUME DispatchTypeOK,
         \/ CompleteExecute \/ VerifyReadyRun \/ VerifyAgain \/ PassReview
         \/ RefuseReview \/ HaltBlockedRun \/ EditProject \/ ReopenCandidate
         \/ UNCHANGED vars
  PROVE  KeepsWork /\ Created' = Created /\ UNCHANGED pc
<1>1. UNCHANGED <<plan, pc>>
  BY DEF CompleteExecute, VerifyReadyRun, VerifyAgain, PassReview, RefuseReview,
         HaltBlockedRun, EditProject, ReopenCandidate, stage, vars
<1>2. CASE UNCHANGED workers
  BY <1>1, <1>2 DEF KeepsWork, Created, Settled, Is
<1>3. CASE ReopenCandidate
  <2>1. workers' = [w \in Created |->
          IF Is(w, {"queued"}) THEN [workers[w] EXCEPT !.status = "dropped"] ELSE workers[w]]
    BY <1>3 DEF ReopenCandidate
  <2>2. Created = 1 .. Len(workers) /\ Len(workers) \in Nat
    BY WorkersAre
  <2>3. Len(workers') = Len(workers)
    BY <2>1, <2>2
  <2>4. Created' = Created
    BY <2>3 DEF Created
  <2>5. ASSUME NEW w \in Created
        PROVE  /\ workers'[w].node = workers[w].node /\ workers'[w].by = workers[w].by
               /\ Settled(w) => Settled(w)'
    <3>1. PICK r, u : r = workers[w] /\ u = [r EXCEPT !.status = "dropped"]
      OBVIOUS
    <3>2. r \in Worker
      BY <3>1, WorkersAre
    <3>3. u.node = r.node /\ u.by = r.by /\ u.status = "dropped"
      BY <3>1, <3>2 DEF Worker
    <3>4. workers'[w] = u \/ workers'[w] = r
      BY <2>1, <3>1
    <3> QED
      BY <3>1, <3>3, <3>4 DEF Settled, Is
  <2> QED
    BY <1>1, <2>4, <2>5 DEF KeepsWork
<1> QED
  BY <1>1, <1>2, <1>3 DEF CompleteExecute, VerifyReadyRun, VerifyAgain, PassReview, RefuseReview,
         HaltBlockedRun, EditProject, stage, vars

\* A process chooses nodes whose dependencies are done, and goes through them.
LEMMA ChoosingWaits ==
  ASSUME DispatchTypeOK, WaitInv, NEW p \in Proc,
         \/ DispatchRead(p) \/ CountGeneration(p) \/ ReplayCreate(p) \/ CreateThrows(p)
         \/ \E n : CreateRead(p, n)
  PROVE  WaitInv'
<1>1. UNCHANGED <<plan, workers>>
  BY DEF DispatchRead, CountGeneration, ReplayCreate, CreateThrows, CreateRead
<1>2. PICK d : d = pc[p]
  OBVIOUS
<1>3. d \in Dispatching /\ Waits(d)
  BY <1>2 DEF DispatchTypeOK, WaitInv, Waits
<1>4. Waits(Idle)
  BY DEF Waits, Idle
<1>5. CASE DispatchRead(p)
  <2>1. PICK nodes \in SUBSET Ready :
          pc' = [pc EXCEPT ![p] = [Idle EXCEPT !.todo = nodes, !.seen = Len(workers)]]
    BY <1>5 DEF DispatchRead
  <2>2. PICK r : r = [Idle EXCEPT !.todo = nodes, !.seen = Len(workers)]
    OBVIOUS
  <2>3. r.todo = nodes /\ r.node = None
    BY <2>2 DEF Idle
  <2>4. \A n \in nodes : \A e \in Dependencies(plan, n) : \E v \in Of(e) : Settled(v)
    BY <2>1 DEF Ready, Successful, Settled, Is
  <2>5. Waits(r)
    BY <2>3, <2>4 DEF Waits
  <2> QED
    BY <1>1, <2>1, <2>2, <2>5, ProcessWaits
<1>6. CASE CountGeneration(p)
  <2>1. PICK n \in d.todo :
          pc' = [pc EXCEPT ![p].todo = @ \ {n}, ![p].node = n,
                           ![p].generation = Cardinality(Of(n)) + 1,
                           ![p].stale = Len(workers) > pc[p].seen]
    BY <1>2, <1>6 DEF CountGeneration
  <2>2. PICK rest, k, late, r :
          /\ rest = d.todo \ {n} /\ k = Cardinality(Of(n)) + 1 /\ late = (Len(workers) > d.seen)
          /\ r = [d EXCEPT !.todo = rest, !.node = n, !.generation = k, !.stale = late]
    OBVIOUS
  <2>3. pc' = [pc EXCEPT ![p] = r]
    BY <1>2, <2>1, <2>2 DEF DispatchTypeOK
  <2>4. r.todo = rest /\ r.node = n /\ r.by = d.by
    BY <1>3, <2>2 DEF Dispatching
  <2>5. Waits(r)
    BY <1>3, <2>1, <2>2, <2>4 DEF Waits
  <2> QED
    BY <1>1, <2>5, <2>3, ProcessWaits
<1>7. CASE pc' = [pc EXCEPT ![p] = Onward(p, 0)]
  <2>1. CASE d.todo = {}
    BY <1>1, <1>2, <1>4, <1>7, <2>1, ProcessWaits DEF Onward
  <2>2. CASE d.todo # {}
    <3>1. PICK r : r = [d EXCEPT !.node = None, !.generation = 0, !.seen = @ + 0]
      OBVIOUS
    <3>2. r.todo = d.todo /\ r.node = None /\ r.by = d.by
      BY <1>3, <3>1 DEF Dispatching
    <3>3. Waits(r)
      BY <1>3, <3>2 DEF Waits
    <3>4. pc' = [pc EXCEPT ![p] = r]
      BY <1>2, <1>7, <2>2, <3>1 DEF Onward
    <3> QED
      BY <1>1, <3>3, <3>4, ProcessWaits
  <2> QED
    BY <2>1, <2>2
<1>8. CASE CreateThrows(p)
  BY <1>1, <1>4, <1>8, ProcessWaits DEF CreateThrows
<1>9. ASSUME NEW n, CreateRead(p, n)  PROVE WaitInv'
  <2>1. PICK r : r = [Idle EXCEPT !.todo = {n}, !.seen = Len(workers), !.by = "user"]
    OBVIOUS
  <2>2. r.by = "user"
    BY <2>1 DEF Idle
  <2>3. Waits(r)
    BY <2>2 DEF Waits
  <2>4. pc' = [pc EXCEPT ![p] = r]
    BY <1>9, <2>1 DEF CreateRead
  <2> QED
    BY <1>1, <2>3, <2>4, ProcessWaits
<1> QED
  BY <1>5, <1>6, <1>7, <1>8, <1>9 DEF ReplayCreate

\* A worker is created, for a node that waits for nothing.
LEMMA CreationWaits ==
  ASSUME DispatchTypeOK, WaitInv, NEW p \in Proc, CreateWorker(p)
  PROVE  WaitInv'
<1>1. PICK d, u, z : d = pc[p] /\ u = NewWorker(p) /\ z = Len(workers)
  OBVIOUS
<1>2. /\ UNCHANGED plan /\ workers' = Append(workers, u) /\ d.node # None
      /\ pc' = [pc EXCEPT ![p] = Onward(p, 1)]
  BY <1>1 DEF CreateWorker
<1>3. /\ d \in Dispatching /\ Waits(d)
      /\ workers \in Seq(Worker) /\ z \in Nat /\ Created = 1 .. z
  BY <1>1, WorkersAre DEF DispatchTypeOK, WaitInv, Waits
<1>4. u.node = d.node /\ u.by = d.by
  BY <1>1 DEF NewWorker
<1>5. /\ Len(workers') = z + 1 /\ workers'[z + 1] = u
      /\ \A w \in Created : workers'[w] = workers[w]
  BY <1>1, <1>2, <1>3
<1>6. Created' = Created \cup {z + 1}
  BY <1>3, <1>5 DEF Created
<1>7. KeepsWork
  BY <1>2, <1>5, <1>6 DEF KeepsWork, Settled, Is
<1>8. PICK r : r = Onward(p, 1)
  OBVIOUS
<1>9. Waits(r)
  <2>1. CASE d.todo = {}
    BY <1>1, <1>8, <2>1 DEF Onward, Idle, Waits
  <2>2. CASE d.todo # {}
    <3>1. r = [d EXCEPT !.node = None, !.generation = 0, !.seen = @ + 1]
      BY <1>1, <1>8, <2>2 DEF Onward
    <3>2. r.todo = d.todo /\ r.node = None /\ r.by = d.by
      BY <1>3, <3>1 DEF Dispatching
    <3> QED
      BY <1>3, <3>2 DEF Waits
  <2> QED
    BY <2>1, <2>2
<1>10. ASSUME NEW q \in Proc  PROVE Waits(pc[q])'
  <2>1. PICK e : e = pc[q]
    OBVIOUS
  <2>2. Waits(e)
    BY <2>1 DEF WaitInv, Waits
  <2>3. pc'[q] = r \/ pc'[q] = e
    BY <1>2, <1>8, <2>1 DEF DispatchTypeOK
  <2>4. Waits(e)' /\ Waits(r)'
    BY <1>7, <1>9, <2>2, WaitsStays
  <2> QED
    BY <2>3, <2>4 DEF Waits
<1>11. ASSUME NEW w \in Created', workers'[w].by = "dispatch",
              NEW e \in Dependencies(plan', workers'[w].node)
       PROVE  \E v \in Of(e)' : v < w /\ Settled(v)'
  <2>1. CASE w \in Created
    <3>1. workers[w].by = "dispatch" /\ e \in Dependencies(plan, workers[w].node)
      BY <1>2, <1>5, <1>11, <2>1
    <3> QED
      BY <1>7, <2>1, <3>1, WaitingStays
  <2>2. CASE w = z + 1
    <3>1. d.by = "dispatch" /\ e \in Dependencies(plan, d.node)
      BY <1>2, <1>4, <1>5, <1>11, <2>2
    <3>2. PICK v \in Of(e) : Settled(v)
      BY <1>2, <1>3, <3>1 DEF Waits
    <3>3. v < w
      BY <1>3, <2>2, <3>2 DEF Of
    <3> QED
      BY <1>7, <3>2, <3>3, WorkStays
  <2> QED
    BY <1>6, <2>1, <2>2
<1> QED
  BY <1>10, <1>11 DEF WaitInv, Waits

\* Nothing waits at first, ...
LEMMA InitWaits == Init => WaitInv
<1> SUFFICES ASSUME Init  PROVE WaitInv
  OBVIOUS
<1>1. Created = {}
  BY DEF Init, Created
<1>2. Idle.todo = {} /\ Idle.node = None
  BY DEF Idle
<1> QED
  BY <1>1, <1>2 DEF Init, WaitInv

\* ... and every step keeps it so.
LEMMA StepWaits == DispatchTypeOK /\ WaitInv /\ [Next]_vars => WaitInv'
<1> SUFFICES ASSUME DispatchTypeOK, WaitInv, [Next]_vars  PROVE WaitInv'
  OBVIOUS
<1>1. ASSUME NEW p \in Proc, Dispatch(p)  PROVE WaitInv'
  BY <1>1, ChoosingWaits, CreationWaits DEF Dispatch
<1>2. ASSUME NEW p \in User, NEW n, CreateRead(p, n)  PROVE WaitInv'
  BY <1>2, ChoosingWaits DEF Proc
<1>3. ASSUME NEW w \in Created,
             Claim(w) \/ Submit(w) \/ Fail(w) \/ Cancel(w) \/ DropPatch(w) \/ Retry(w)
      PROVE  WaitInv'
  BY <1>3, WorkerKeeps, WorkStep
<1>4. CASE EditProject \/ VerifyAgain \/ HaltBlockedRun \/ Stages \/ UNCHANGED vars
  BY <1>4, StageKeeps, WorkStep DEF Stages
<1> QED
  BY <1>1, <1>2, <1>3, <1>4 DEF Next

\* What the plan is, apart from who carries what, ...
PlanInv ==
  plan # None => plan.pack \in Packs /\ plan.nodes = PlanNodes(Workflow(plan.pack), intake)

\* ... and is, by how it came to be.
LEMMA PlannedNodes == Planned => PlanInv
<1> SUFFICES ASSUME Planned, plan # None
             PROVE  plan.pack \in Packs /\ plan.nodes = PlanNodes(Workflow(plan.pack), intake)
  BY DEF PlanInv
<1>1. intake \in Intakes /\ plan = BuildTaskPlanGraph(intake)
  BY DEF Planned, Plan
<1>2. PICK pack \in Packs : plan = Bind(pack, intake)
  BY <1>1, PlanIsBuilt DEF BuiltFrom
<1> QED
  BY <1>2, BindHas

\* The number of a barrier.
LEMMA RankIs ==
  ASSUME NEW n, NEW k \in 1 .. 3, Barriers[k] = Barrier(n)
  PROVE  Rank(n) = k
<1>1. Len(Barriers) = 3 /\ Barriers[1] = "delivery-plan" /\ Barriers[2] = "delivery-candidate"
      /\ Barriers[3] = "delivery-readiness"
  BY DEF Barriers
<1>2. {i \in 1 .. Len(Barriers) : Barriers[i] = Barrier(n)} = {k}
  BY <1>1
<1>3. Min({k}) = k
  BY DEF Min
<1> QED
  BY <1>2, <1>3 DEF Rank, SelectInSeq

\* The numbers of the nodes.
LEMMA Ranks ==
  /\ \A n \in {"context", "risk", "challenger", "design"} : Rank(n) = 1
  /\ \A n \in {"implementation", "tests", "verification"} : Rank(n) = 2
  /\ Rank("review") = 3
<1>1. Barriers[1] = "delivery-plan" /\ Barriers[2] = "delivery-candidate"
      /\ Barriers[3] = "delivery-readiness"
  BY DEF Barriers
<1>2. ASSUME NEW n \in {"context", "risk", "challenger", "design"}  PROVE Rank(n) = 1
  BY <1>1, RankIs DEF Barrier
<1>3. ASSUME NEW n \in {"implementation", "tests", "verification"}  PROVE Rank(n) = 2
  BY <1>1, RankIs DEF Barrier
<1>4. ASSUME NEW n, n = "review"  PROVE Rank(n) = 3
  BY <1>1, <1>4, RankIs DEF Barrier
<1> QED
  BY <1>2, <1>3, <1>4

\* Which nodes a plan has, and which others come with them.
LEMMA PlanHas ==
  ASSUME PlanInv, plan # None
  PROVE  /\ Nodes \subseteq {"context", "risk", "challenger", "design", "implementation",
                             "tests", "verification", "review"}
         /\ "implementation" \in Nodes
         /\ Workflow(plan.pack) \notin {"quick", "governed_v2"} => "verification" \in Nodes
         /\ Workflow(plan.pack) \in {"quick", "governed_v2"} => "verification" \notin Nodes
         /\ "context" \in Nodes => /\ Workflow(plan.pack) \in {"phase_context", "governed"}
                                   /\ "design" \in Nodes
         /\ "risk" \in Nodes => Workflow(plan.pack) = "governed" /\ "design" \in Nodes
<1>1. PICK w : w = Workflow(plan.pack)
  OBVIOUS
<1>2. w \in {"quick", "disciplined", "phase_context", "governed", "governed_v2"}
  BY <1>1 DEF PlanInv, Packs, Workflow
<1>3. Nodes = ToSet(PlanNodes(w, intake))
  BY <1>1 DEF PlanInv, Nodes
<1>4. CASE w = "quick"
  BY <1>1, <1>3, <1>4, NodesOfPlan
<1>5. CASE w = "disciplined"
  BY <1>1, <1>3, <1>5, NodesOfPlan
<1>6. CASE w = "phase_context"
  BY <1>1, <1>3, <1>6, NodesOfPlan
<1>7. CASE w = "governed"
  BY <1>1, <1>3, <1>7, NodesOfPlan
<1>8. CASE w = "governed_v2"
  BY <1>1, <1>3, <1>8, NodesOfPlan
<1> QED
  BY <1>2, <1>4, <1>5, <1>6, <1>7, <1>8

\* The work of n was done before w was created.
Before(n, w) == \E v \in Of(n) : v < w /\ Settled(v)

\* Every barrier waits for those before it, through the nodes between.
LEMMA BarriersWait ==
  ASSUME DispatchTypeOK, WaitInv, PlanInv, plan # None,
         \A v \in Created : workers[v].by = "dispatch",
         NEW w \in Created, NEW n \in Nodes, Rank(n) < Rank(workers[w].node)
  PROVE  Before(n, w)
<1>1. PICK m : m = workers[w].node
  OBVIOUS
<1>2. m \in Nodes /\ Created = 1 .. Len(workers) /\ Len(workers) \in Nat
  BY <1>1, WorkersAre DEF Worker
<1>3. \A d \in Dependencies(plan, m) : Before(d, w)
  BY <1>1 DEF WaitInv, Before
<1>4. \A x : Before(x, w) => \A d \in Dependencies(plan, x) : Before(d, w)
  <2>1. SUFFICES ASSUME NEW x, NEW v \in Of(x), v < w, NEW d \in Dependencies(plan, x)
                 PROVE  Before(d, w)
    BY DEF Before
  <2>2. v \in Created /\ workers[v].node = x
    BY DEF Of
  <2>3. PICK u \in Of(d) : u < v /\ Settled(u)
    BY <2>2 DEF WaitInv
  <2>4. u \in Created
    BY DEF Of
  <2>5. u < w
    BY <1>2, <2>1, <2>2, <2>3, <2>4
  <2> QED
    BY <2>3, <2>5 DEF Before
<1>5. Nodes = ToSet(plan.nodes)
  BY DEF Nodes
<1>6. PICK design, impl, check, wf :
        /\ design = "design" /\ impl = "implementation" /\ check = "verification"
        /\ wf = Workflow(plan.pack)
  OBVIOUS
<1>7. /\ \A x \in {"context", "risk", "challenger", "design"} : Rank(x) = 1
      /\ \A x \in {"implementation", "tests", "verification"} : Rank(x) = 2
      /\ \A x : x = "review" => Rank(x) = 3
  BY Ranks
\* What was planned before a build has been done before it.
<1>8. ASSUME NEW x, x \in {"implementation", "tests"},
             \A d \in Dependencies(plan, x) : Before(d, w), Rank(n) = 1
      PROVE  Before(n, w)
  <2>1. Dependencies(plan, x) = {"design", "challenger"} \cap Nodes
    BY <1>5, <1>8, PlanDependencies
  <2>2. n \in {"context", "risk", "challenger", "design"}
    <3>1. Nodes \subseteq {"context", "risk", "challenger", "design", "implementation",
                           "tests", "verification", "review"}
      BY PlanHas
    <3> QED
      BY <1>7, <1>8, <3>1
  <2>3. CASE n \in {"challenger", "design"}
    BY <1>8, <2>1, <2>3
  <2>4. CASE n \in {"context", "risk"}
    <3>1. design \in Nodes /\ wf \in {"phase_context", "governed"} /\ (n = "risk" => wf = "governed")
      BY <1>6, <2>4, PlanHas
    <3>2. Before(design, w)
      BY <1>6, <1>8, <2>1, <3>1
    <3>3. n \in Dependencies(plan, design)
      BY <1>5, <1>6, <2>4, <3>1, PlanDependencies
    <3> QED
      BY <1>4, <3>2, <3>3
  <2> QED
    BY <2>2, <2>3, <2>4
\* What was built before a verification has been, ...
<1>9. ASSUME NEW x, x = "verification",
             \A d \in Dependencies(plan, x) : Before(d, w),
             Rank(n) = 1 \/ n \in {"implementation", "tests"}
      PROVE  Before(n, w)
  <2>1. Dependencies(plan, x) = {"implementation", "tests"} \cap Nodes
    BY <1>5, <1>9, PlanDependencies
  <2>2. CASE n \in {"implementation", "tests"}
    BY <1>9, <2>1, <2>2
  <2>3. CASE Rank(n) = 1
    <3>1. impl \in Nodes
      BY <1>6, PlanHas
    <3>2. Before(impl, w)
      BY <1>6, <1>9, <2>1, <3>1
    <3>3. impl \in {"implementation", "tests"} /\ \A d \in Dependencies(plan, impl) : Before(d, w)
      BY <1>4, <1>6, <3>2
    <3> QED
      BY <1>8, <2>3, <3>3
  <2> QED
    BY <1>9, <2>2, <2>3
<1>10. \/ Rank(n) = 1 /\ n \in {"context", "risk", "challenger", "design"}
       \/ Rank(n) = 2 /\ n \in {"implementation", "tests", "verification"}
       \/ Rank(n) = 3 /\ n = "review"
  <2>1. n \in {"context", "risk", "challenger", "design", "implementation",
              "tests", "verification", "review"}
    BY PlanHas
  <2> QED
    BY <1>7, <2>1
\* ... and everything before a review.
<1>11. ASSUME m = "review"  PROVE Before(n, w)
  <2>1. CASE wf \in {"quick", "governed_v2"}
    <3>1. Dependencies(plan, m) = {"implementation", "tests"} \cap Nodes
      BY <1>5, <1>6, <1>11, <2>1, PlanDependencies
    <3>2. CASE n \in {"implementation", "tests"}
      BY <1>3, <3>1, <3>2
    <3>3. CASE Rank(n) = 1
      <4>1. impl \in Nodes
        BY <1>6, PlanHas
      <4>2. Before(impl, w)
        BY <1>3, <1>6, <3>1, <4>1
      <4>3. impl \in {"implementation", "tests"} /\ \A d \in Dependencies(plan, impl) : Before(d, w)
        BY <1>4, <1>6, <4>2
      <4> QED
        BY <1>8, <3>3, <4>3
    <3>4. check \notin Nodes
      BY <1>6, <2>1, PlanHas
    <3> QED
      BY <1>1, <1>6, <1>7, <1>10, <1>11, <3>2, <3>3, <3>4
  <2>2. CASE wf \notin {"quick", "governed_v2"}
    <3>1. Dependencies(plan, m) = {"verification"} \cap Nodes /\ check \in Nodes
      BY <1>5, <1>6, <1>11, <2>2, PlanDependencies, PlanHas
    <3>2. Before(check, w)
      BY <1>3, <1>6, <3>1
    <3>3. CASE n = check
      BY <3>2, <3>3
    <3>4. CASE Rank(n) = 1 \/ n \in {"implementation", "tests"}
      <4>1. check = "verification" /\ \A d \in Dependencies(plan, check) : Before(d, w)
        BY <1>4, <1>6, <3>2
      <4> QED
        BY <1>9, <3>4, <4>1
    <3> QED
      BY <1>1, <1>6, <1>7, <1>10, <1>11, <3>3, <3>4
  <2> QED
    BY <2>1, <2>2
<1> QED
  <2>1. m \in {"context", "risk", "challenger", "design", "implementation", "tests",
              "verification", "review"}
    BY <1>2, PlanHas
  <2>2. CASE m \in {"implementation", "tests"}
    <3>1. Rank(n) = 1
      BY <1>1, <1>7, <1>10, <2>2
    <3> QED
      BY <1>3, <1>8, <2>2, <3>1
  <2>3. CASE m = "verification"
    <3>1. Rank(n) = 1
      BY <1>1, <1>7, <1>10, <2>3
    <3> QED
      BY <1>3, <1>9, <2>3, <3>1
  <2>4. m \notin {"context", "risk", "challenger", "design"}
    BY <1>1, <1>7, <1>10
  <2> QED
    BY <1>11, <2>1, <2>2, <2>3, <2>4

\* The dependencies and the states of the stages keep the barriers, which dispatch
\* never looks at: for every plan, any number of processes and workers, and whatever
\* is retried, dropped or reviewed again.
THEOREM BarriersStand == Spec => []BarriersHold
<1>1. Init => DispatchInv /\ WaitInv /\ Planned
  BY InitDispatch, InitWaits, InitPlanned
<1>2. DispatchInv /\ WaitInv /\ Planned /\ [Next]_vars => (DispatchInv /\ WaitInv /\ Planned)'
  <2>1. DispatchInv => DispatchTypeOK
    BY DEF DispatchInv
  <2> QED
    BY <2>1, StepDispatch, StepWaits, StepPlanned
<1>3. DispatchInv /\ WaitInv /\ Planned => BarriersHold
  <2>1. SUFFICES ASSUME DispatchInv, WaitInv, Planned, plan # None,
                        \A w \in Created : workers[w].by = "dispatch",
                        NEW w \in Created, NEW n \in ToSet(plan.nodes),
                        Rank(n) < Rank(workers[w].node)
                 PROVE  \E v \in Of(n) : v < w /\ Is(v, {"done", "queued", "dropped"})
    BY DEF BarriersHold
  <2>2. DispatchTypeOK /\ n \in Nodes /\ PlanInv
    BY <2>1, PlannedNodes DEF DispatchInv, Nodes
  <2>3. Before(n, w)
    BY <2>1, <2>2, BarriersWait
  <2> QED
    BY <2>3 DEF Before, Settled
<1> QED
  BY <1>1, <1>2, <1>3, PTL DEF Spec
=============================================================================
