--------------------------- MODULE MCPlanExecution --------------------------
(* One run for one of a few intakes: every method pack, scopes apart and    *)
(* not, and routings that fit a plan, overflow a node, or fit none.         *)
EXTENDS PlanExecution

File(dir) == [dir |-> dir, name |-> "file"]
All(dir) == [dir |-> dir, name |-> "/*"]

Capability(id, category, class, target) ==
  [id |-> id, category |-> category, class |-> class, target |-> target,
   required |-> TRUE, provider |-> FALSE]
Core(id, target) == Capability(id, "core", "cognitive", target)
Conditional(id, target) == Capability(id, "conditional", "cognitive", target)
Check(id) == Capability(id, "conditional", "deterministic_check", "verification")
Patch(id) == Capability(id, "conditional", "workspace_patch", "implementation")

Plain ==
  [explicit |-> None, governance |-> FALSE, bounded |-> FALSE, challenge |-> FALSE,
   parallel |-> FALSE, impl |-> {File("src")}, tests |-> {File("test")},
   routed |-> <<>>, providers |-> TRUE]

Cores(n, target) == [i \in 1 .. n |-> Core(i, target)]

Quick == [Plain EXCEPT !.bounded = TRUE]
QuickOverflows == [Quick EXCEPT !.routed = Cores(7, "implementation")]
Disciplined == [Plain EXCEPT !.routed = Cores(4, "design") \o <<Check(5)>>]
TooManyChecks == [Plain EXCEPT !.routed = <<Check(1), Check(2), Check(3)>>]
Context == [Plain EXCEPT !.explicit = "phase-context",
                         !.routed = <<Conditional(1, "context"), Patch(2)>>]
Old == [Plain EXCEPT !.explicit = "governed-v1"]
Greenfield == [Old EXCEPT !.impl = {}]
Governed == [Plain EXCEPT !.governance = TRUE, !.routed = <<Check(1), Patch(2)>>]
Challenged == [Governed EXCEPT !.challenge = TRUE]
Split == [Governed EXCEPT !.parallel = TRUE,
            !.impl = {All("src"), All("lib")}, !.tests = {All("test"), All("e2e")}]
Overlapping == [Split EXCEPT !.tests = {File("src"), All("e2e")}]
Unprovidable == [Quick EXCEPT !.providers = FALSE,
  !.routed = <<[Patch(1) EXCEPT !.provider = TRUE]>>]

Every == {Quick, QuickOverflows, Disciplined, TooManyChecks, Context, Old, Greenfield,
          Governed, Challenged, Split, Overlapping, Unprovidable}

\* Two things go wrong for the smallest plan, one for the others.
Troubles == [i \in Every |-> IF i = Quick THEN 2 ELSE 1]
=============================================================================
