----------------------------- MODULE PlanGraph -----------------------------
(* The plan graph of a run (core/plan-graph.mjs): which task nodes a method *)
(* pack gives a piece of work, in which order, barriers and lanes, and      *)
(* which node carries which of the capabilities that were routed to it.     *)
(*                                                                          *)
(* An intake is what the plan depends on:                                   *)
(*   explicit    the pack it names, or None                                 *)
(*   governance  its risk or its text asks for the governed pack            *)
(*   bounded     few files, no risk: the quick pack will do                 *)
(*   challenge   a second opinion on the risk is wanted                     *)
(*   parallel    its text asks for a test worker of its own                 *)
(*   impl, tests the scopes to be written                                   *)
(*   routed      the capabilities, required ones first, by priority         *)
(*   providers   what provides them is there (PlanExecution)                *)
EXTENDS Integers, Sequences, SequencesExt, FiniteSets, FiniteSetsExt

CONSTANT None

\* defaultMethodPackRegistry.
Packs == {"quick", "disciplined-tdd", "phase-context", "governed", "governed-v1"}

Workflow(pack) ==
  CASE pack = "quick" -> "quick"
    [] pack = "disciplined-tdd" -> "disciplined"
    [] pack = "phase-context" -> "phase_context"
    [] pack = "governed" -> "governed_v2"
    [] pack = "governed-v1" -> "governed"

MethodPack(intake) ==
  CASE intake.explicit # None -> intake.explicit
    [] intake.explicit = None /\ intake.governance -> "governed"
    [] intake.explicit = None /\ ~intake.governance /\ intake.bounded -> "quick"
    [] OTHER -> "disciplined-tdd"

-----------------------------------------------------------------------------
(* Scopes: a directory's name, and what is meant in it: "" the bare name,   *)
(* "/" the directory, "/*" what is in it, or a file.                        *)

Trimmed(scope) == IF scope.name = "/" THEN [scope EXCEPT !.name = ""] ELSE scope

\* Whether the test worker's scopes are apart from the implementation's ...
ScopeOverlaps(left, right) ==
  LET a == Trimmed(left)
      b == Trimmed(right)
  IN /\ a.dir = b.dir
     /\ a = b \/ a.name = "" \/ b.name = ""

\* ... and the other judgement, of the validation: a prefix ends in a slash.
Within(scope, other) ==
  /\ other.name \in {"/", "/*"}
  /\ scope.dir = other.dir /\ scope.name # ""

ScopesOverlap(left, right) ==
  left = right \/ Within(left, right) \/ Within(right, left)

Disjoint(Overlap(_, _), S, T) == \A s \in S, t \in T : ~Overlap(s, t)

\* evaluateTestWorkerSplit: what is saved at four minutes a scope, less the
\* cost of a second worker.
SplitTests(intake) ==
  /\ intake.parallel
  /\ intake.impl # {} /\ intake.tests # {}
  /\ Disjoint(ScopeOverlaps, intake.impl, intake.tests)
  /\ 4 * Min({Cardinality(intake.impl), Cardinality(intake.tests)}) - 3 - 2 > 0

-----------------------------------------------------------------------------
(* Nodes.                                                                   *)

\* The nodes of a workflow, in the order of the plan.
PlanNodes(workflow, intake) ==
  LET If(wanted, node) == IF wanted THEN <<node>> ELSE <<>> IN
  CASE workflow = "quick" -> <<"implementation", "review">>
    [] workflow = "disciplined" ->
         <<"design", "implementation", "verification", "review">>
    [] workflow = "phase_context" ->
         <<"context", "design", "implementation", "verification", "review">>
    [] workflow = "governed" ->
         <<"context", "risk", "design", "implementation", "tests",
           "verification", "review">>
    [] workflow = "governed_v2" ->
         <<"design">> \o If(intake.challenge, "challenger") \o <<"implementation">>
           \o If(SplitTests(intake), "tests") \o <<"review">>

\* What each node waits for, if the plan has it.
WaitsFor(workflow, node) ==
  CASE node \in {"context", "risk", "challenger"} -> {}
    [] node = "design" ->
         CASE workflow = "governed" -> {"context", "risk"}
           [] workflow = "phase_context" -> {"context"}
           [] OTHER -> {}
    [] node \in {"implementation", "tests"} -> {"design", "challenger"}
    [] node = "verification" -> {"implementation", "tests"}
    [] node = "review" ->
         IF workflow \in {"quick", "governed_v2"} THEN {"implementation", "tests"}
                                                  ELSE {"verification"}

ExecutionClass(node) ==
  CASE node \in {"implementation", "tests"} -> "workspace_patch"
    [] node = "verification" -> "deterministic_check"
    [] OTHER -> "cognitive"

\* A mistake: the tests are the implementation's also where they are split off.
WriteScopeWithTests(workflow, intake, node) ==
  CASE node = "tests" -> intake.tests
    [] node = "implementation" -> intake.impl \cup intake.tests
    [] node = "verification" -> {[dir |-> "run", name |-> "verification"]}
    [] OTHER -> {}

WriteScope(workflow, intake, node) ==
  CASE node = "tests" -> intake.tests
    [] node = "implementation" ->
         IF workflow = "governed" \/ (workflow = "governed_v2" /\ SplitTests(intake))
         THEN intake.impl ELSE intake.impl \cup intake.tests
    [] node = "verification" -> {[dir |-> "run", name |-> "verification"]}
    [] node = "review" -> IF workflow = "governed_v2" THEN {} ELSE intake.impl
    [] OTHER -> {}

Barriers == <<"delivery-plan", "delivery-candidate", "delivery-readiness">>

Barrier(node) ==
  CASE node \in {"context", "risk", "challenger", "design"} -> "delivery-plan"
    [] node \in {"implementation", "tests", "verification"} -> "delivery-candidate"
    [] node = "review" -> "delivery-readiness"

\* Nodes of one lane may run side by side.
Lane(node) ==
  CASE node \in {"context", "risk"} -> "discovery"
    [] node \in {"design", "challenger"} -> "planning"
    [] node \in {"implementation", "tests"} -> "build"
    [] node = "verification" -> "verification"
    [] node = "review" -> "readiness"

-----------------------------------------------------------------------------
(* Capabilities: [id, category, class, target, required, provider].         *)

\* How many of a category one node may carry.
Limits(workflow) ==
  IF workflow = "governed_v2" THEN [core |-> 5, conditional |-> 3]
                              ELSE [core |-> 3, conditional |-> 2]

Compatible(capability, node) ==
  IF capability.class = "cognitive"
  THEN ExecutionClass(node) \in {"cognitive", "workspace_patch"}
  ELSE ExecutionClass(node) = capability.class

\* The node a capability is meant for, or the one that stands in for it.
Target(capability, nodes) ==
  LET has == ToSet(nodes)
      standIn ==
        IF /\ capability.target = "verification" /\ capability.class = "cognitive"
           /\ "design" \in has
        THEN "design"
        ELSE IF capability.target \in {"context", "risk", "design", "verification"}
             THEN "implementation" ELSE "review"
  IN IF capability.target \in has THEN capability.target ELSE standIn

\* The nodes that can carry it, by their place among the nodes.
Candidates(capability, nodes) == {j \in DOMAIN nodes : Compatible(capability, nodes[j])}

Carried(plan, node) == {b[2] : b \in {x \in plan.bound : x[1] = node}}

\* A mistake: one too many.
HasRoomForOneMore(workflow, carried, category) ==
  category \in DOMAIN Limits(workflow) =>
    Cardinality({c \in carried : c.category = category}) <= Limits(workflow)[category]

HasRoom(workflow, carried, category) ==
  category \in DOMAIN Limits(workflow) =>
    Cardinality({c \in carried : c.category = category}) < Limits(workflow)[category]

\* selectCapabilityNode, and what becomes of its answer: the candidate with room
\* that comes first from the target on, or last before it; or, where the kernel
\* runs checks, the kernel; or no plan.
BindCapability(workflow, nodes, binding, capability) ==
  LET candidates == Candidates(capability, nodes)
      roomy == {j \in candidates :
                  HasRoom(workflow, Carried(binding, nodes[j]), capability.category)}
      onward == {j \in roomy :
                   SelectInSeq(nodes, LAMBDA n : n = Target(capability, nodes)) <= j}
      chosen == IF onward # {} THEN Min(onward) ELSE Max(roomy)
  IN CASE candidates = {} /\ workflow = "governed_v2"
            /\ capability.class = "deterministic_check" ->
            [binding EXCEPT !.kernel = @ \cup {capability}]
       [] roomy # {} ->
            [binding EXCEPT !.bound = @ \cup {<<nodes[chosen], capability>>}]
       [] OTHER -> [binding EXCEPT !.ok = FALSE]

\* What is bound after each of the capabilities, in their order.
Bindings(workflow, nodes, routed) ==
  LET binding[k \in 0 .. Len(routed)] ==
        IF k = 0 THEN [ok |-> TRUE, kernel |-> {}, bound |-> {}]
        ELSE IF binding[k - 1].ok
             THEN BindCapability(workflow, nodes, binding[k - 1], routed[k])
             ELSE binding[k - 1]
  IN binding

Bind(pack, intake) ==
  LET workflow == Workflow(pack)
      nodes == PlanNodes(workflow, intake)
      binding == Bindings(workflow, nodes, intake.routed)[Len(intake.routed)]
  IN [pack |-> pack, nodes |-> nodes, ok |-> binding.ok, kernel |-> binding.kernel,
      bound |-> binding.bound]

-----------------------------------------------------------------------------
(* The plan, and its validation.                                            *)

\* A quick plan that cannot carry its capabilities becomes a governed one.
BuildTaskPlanGraph(intake) ==
  LET plan == Bind(MethodPack(intake), intake) IN
  IF ~plan.ok /\ plan.pack = "quick" THEN Bind("governed", intake) ELSE plan

\* A mistake: the barriers are trusted with the rest.
DependenciesInBarrier(plan, node) ==
  {d \in WaitsFor(Workflow(plan.pack), node) \cap ToSet(plan.nodes) :
     Barrier(d) = Barrier(node)}

Dependencies(plan, node) ==
  WaitsFor(Workflow(plan.pack), node) \cap ToSet(plan.nodes)

MinimumNodes(workflow) ==
  [quick |-> 2, disciplined |-> 4, phase_context |-> 5, governed |-> 7,
   governed_v2 |-> 3][workflow]

\* findDependencyCycles: every set of nodes has one that waits for none of it.
Acyclic(plan) ==
  \A S \in (SUBSET ToSet(plan.nodes)) \ {{}} :
    \E n \in S : Dependencies(plan, n) \cap S = {}

WriteScopesApart(plan, intake) ==
  LET scope(n) == WriteScope(Workflow(plan.pack), intake, n) IN
  \A m, n \in ToSet(plan.nodes) :
    m # n /\ Lane(m) = Lane(n) => Disjoint(ScopesOverlap, scope(m), scope(n))

ValidatePlanGraph(plan, intake) ==
  LET workflow == Workflow(plan.pack)
      nodes == ToSet(plan.nodes)
  IN /\ Len(plan.nodes) >= MinimumNodes(workflow)
     /\ Cardinality(nodes) = Len(plan.nodes)
     /\ \A n \in nodes :
          /\ ExecutionClass(n) # "cognitive" => WriteScope(workflow, intake, n) # {}
          /\ \A c \in Carried(plan, n) : Compatible(c, n)
     /\ WriteScopesApart(plan, intake)
     /\ Acyclic(plan)
=============================================================================
