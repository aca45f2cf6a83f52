------------------------- MODULE RunLifecycleProofs -------------------------
(***************************************************************************)
(* One operator at a time keeps run.json, active_runs, the roadmap and the  *)
(* event log in agreement, for any number of runs and nodes, and reconcile  *)
(* repairs what kills leave.                                                *)
(*                                                                         *)
(* RunInv: a command that was not killed still has the writes in its list   *)
(* that bring everything to agreement, and what it holds is what it read.   *)
(* Between commands the list is empty, and everything agrees already.  A    *)
(* run that is Owing is left out: what it passed in part was done again.    *)
(***************************************************************************)
EXTENDS RunLifecycle, SequenceTheorems, TLAPS

-----------------------------------------------------------------------------
(* What run.json says, killed or not.                                       *)

Done == {"passed", "partial_pass"}

Settled(f) == All(f, {"passed"}) /\ \A n \in Node : f.carry[n] # "open"

\* An item is open for the nodes that passed in part, and maybe for some that
\* were done again since; the closing is recorded of a run that is done.
Sound(f) ==
  /\ \A n \in Node : f.node[n] = "partial_pass" => f.carry[n] = "open"
  /\ f.status = "done" => All(f, {"passed"})
  /\ f.closed => f.status = "done" /\ \A n \in Node : f.carry[n] # "open"

\* A run that is over, and where it stands in the roadmap: its nodes tell.
Halted(f) == \E n \in Node : f.node[n] = "halted"
Over(f) == Halted(f) \/ All(f, {"passed"})
Place(f) == IF Halted(f) THEN "blocked" ELSE IF Over(f) THEN "done" ELSE "active"

FilesInv ==
  /\ \A r \in Run : Sound(run[r])
  /\ \A r \in Run \ created : run[r] = Planned
  /\ active \subseteq created
  /\ \A r \in replay.learned : run[r].node[LastNode] \in Done

-----------------------------------------------------------------------------
(* A command under way.                                                     *)

Has(t, w) == \E i \in DOMAIN t : t[i] = w

\* a stands before b in t, and b once.
Once(t, a, b) ==
  /\ \A i, j \in DOMAIN t : t[i] = a /\ t[j] = b => i < j
  /\ \A i, j \in DOMAIN t : t[i] = b /\ t[j] = b => i = j

\* run.json is written before any event is appended.
WritesFirst(t) ==
  \E j \in DOMAIN t : t[j] = "write_run" /\ \A i \in DOMAIN t : t[i] \in Event => j < i

Same(f, g) == f.status = g.status /\ f.node = g.node /\ f.carry = g.carry

ReconcileWrites == {"derive", "fix_runs", "reconciled"}

Reconciles(p) ==
  todo[p] \in {<<"derive", "fix_runs", "reconciled">>, <<"fix_runs", "reconciled">>,
               <<"reconciled">>}

\* The writes t of a command that makes f of a run.
Script(t, f, n, gate) ==
  /\ \A i \in DOMAIN t : t[i] \notin ReconcileWrites
  /\ Once(t, "read_active", "write_active")
  /\ Once(t, "read_roadmap", "write_roadmap")
  /\ Has(t, "completed") /\ n = LastNode /\ gate \in {"PASS", "PARTIAL_PASS"}
       => f.node[LastNode] \in Done
  /\ Has(t, "halted") => \E m \in Node : f.node[m] = "halted"
  /\ Has(t, "closed") => f.status = "done" /\ \A m \in Node : f.carry[m] # "open"

\* What p's command holds, and has still to write.
CommandInv(p) ==
  LET t == todo[p]
      c == cmd[p]
  IN
  /\ c.run \in created
  /\ Sound(c.copy)
  /\ Script(t, c.copy, c.node, c.gate)
  /\ Has(t, "write_active") /\ ~Has(t, "read_active") => c.active = active
  /\ Has(t, "write_roadmap") /\ ~Has(t, "read_roadmap") => c.roadmap = roadmap
  /\ Same(run[c.run], c.copy) \/ WritesFirst(t)
  /\ run[c.run].node[LastNode] \in Done => c.copy.node[LastNode] \in Done

ReconcileInv(p) ==
  /\ cmd[p].active = DerivedActive
  /\ cmd[p].left \subseteq created
  /\ \A r \in created \ cmd[p].left : Repaired(run[r]) = run[r]
  /\ todo[p] # <<"derive", "fix_runs", "reconciled">> => ActiveAgrees /\ ~behind
  /\ todo[p] = <<"reconciled">> => RoadmapAgrees /\ cmd[p].left = {}

\* The files when p's command has made its writes.
RunToBe(p) == IF todo[p] = <<>> THEN run ELSE [run EXCEPT ![cmd[p].run] = cmd[p].copy]

ActiveAfter(t, r, a) == IF Has(t, "write_active") THEN a \ {r} ELSE a

RoadmapAfter(t, r, gate, m) ==
  IF Has(t, "write_roadmap")
  THEN [m EXCEPT ![r] = IF gate = "HALT" THEN "blocked" ELSE "done"]
  ELSE m

ActiveToBe(p) == ActiveAfter(todo[p], cmd[p].run, active)

RoadmapToBe(p) == RoadmapAfter(todo[p], cmd[p].run, cmd[p].gate, roadmap)

\* Without a kill they will agree.
WillAgree(p) ==
  /\ ActiveToBe(p) \subseteq created
  /\ \A r \in created : \/ Owing(RunToBe(p)[r])
                        \/ /\ r \in ActiveToBe(p) <=> ~Over(RunToBe(p)[r])
                           /\ RoadmapToBe(p)[r] = Place(RunToBe(p)[r])
  /\ ~behind
  /\ \A r \in replay.active \ ActiveToBe(p) :
       r = cmd[p].run /\ (Has(todo[p], "halted") \/ Has(todo[p], "closed"))
  /\ \A r \in ActiveToBe(p) \ replay.active : run[r].node[LastNode] \in Done

OperatorInv(p) ==
  /\ todo[p] = <<>> => cmd[p] = Idle
  /\ Reconciles(p) => ReconcileInv(p)
  /\ todo[p] # <<>> /\ ~Reconciles(p) => CommandInv(p)
  /\ ~Reconciles(p) /\ ~cut => WillAgree(p)

RunInv == TypeOK /\ FilesInv /\ \A p \in Proc : OperatorInv(p)

\* One at a time: two operators who write in turn lose each other's writes.
OneOperator == \A p, q \in Proc : p = q

-----------------------------------------------------------------------------
(* Lists of writes.                                                         *)

LEMMA TailIs ==
  ASSUME NEW t \in Seq(Write), t # <<>>
  PROVE  /\ Tail(t) \in Seq(Write)
         /\ Len(t) \in Nat \ {0} /\ DOMAIN t = 1..Len(t)
         /\ Head(t) = t[1] /\ Head(t) \in Write
         /\ Len(Tail(t)) = Len(t) - 1 /\ DOMAIN Tail(t) = 1..Len(t) - 1
         /\ \A i \in 1..Len(t) - 1 : Tail(t)[i] = t[i + 1]
         /\ Tail(t) = <<>> <=> Len(t) = 1
<1>1. Len(t) \in Nat /\ Len(t) # 0
  BY EmptySeq
<1>2. Tail(t) \in Seq(Write)
  BY HeadTailProperties
<1>3. DOMAIN t = 1..Len(t)
  BY LenProperties
<1>4. Len(Tail(t)) = Len(t) - 1 /\ \A i \in 1..Len(Tail(t)) : Tail(t)[i] = t[i + 1]
  BY HeadTailProperties
<1>5. DOMAIN Tail(t) = 1..Len(t) - 1
  BY <1>2, <1>4, LenProperties
<1>6. Head(t) = t[1] /\ Head(t) \in Write
  BY HeadTailProperties
<1>7. Tail(t) = <<>> <=> Len(t) = 1
  <2>1. Tail(t) # <<>> => Len(Tail(t)) \in Nat \ {0}
    BY <1>2, EmptySeq
  <2>2. Tail(t) = <<>> => Len(Tail(t)) = 0
    BY EmptySeq
  <2> QED
    BY <1>1, <1>4, <2>1, <2>2
<1> QED
  BY <1>1, <1>2, <1>3, <1>4, <1>5, <1>6, <1>7

LEMMA HasTail ==
  ASSUME NEW t \in Seq(Write), t # <<>>, NEW w
  PROVE  Has(t, w) <=> Head(t) = w \/ Has(Tail(t), w)
<1>1. ASSUME Has(t, w)
      PROVE  Head(t) = w \/ Has(Tail(t), w)
  <2>1. PICK i \in 1..Len(t) : t[i] = w
    BY <1>1, TailIs DEF Has
  <2>2. CASE i = 1
    BY <2>1, <2>2, TailIs
  <2>3. CASE i # 1
    <3>1. i - 1 \in 1..Len(t) - 1 /\ i - 1 + 1 = i
      BY <2>3, TailIs
    <3> QED
      BY <2>1, <3>1, TailIs DEF Has
  <2> QED
    BY <2>2, <2>3
<1>2. ASSUME Has(Tail(t), w)
      PROVE  Has(t, w)
  <2>1. PICK i \in 1..Len(t) - 1 : Tail(t)[i] = w
    BY <1>2, TailIs DEF Has
  <2>2. i + 1 \in 1..Len(t) /\ t[i + 1] = w
    BY <2>1, TailIs
  <2> QED
    BY <2>2, TailIs DEF Has
<1>3. Head(t) = w => Has(t, w)
  BY TailIs DEF Has
<1> QED
  BY <1>1, <1>2, <1>3

LEMMA HasNothing == ~WritesFirst(<<>>) /\ \A w : ~Has(<<>>, w)
<1>1. DOMAIN <<>> = {}
  OBVIOUS
<1> QED
  BY <1>1 DEF Has, WritesFirst

LEMMA OnceTail ==
  ASSUME NEW t \in Seq(Write), t # <<>>, NEW a, NEW b, a # b, Once(t, a, b)
  PROVE  /\ Once(Tail(t), a, b)
         /\ Head(t) = b => ~Has(t, a) /\ ~Has(Tail(t), a) /\ ~Has(Tail(t), b)
<1>1. \A i \in DOMAIN Tail(t) : i \in Nat /\ i + 1 \in DOMAIN t /\ Tail(t)[i] = t[i + 1] /\ i + 1 # 1
  BY TailIs
<1>2. Once(Tail(t), a, b)
  <2>1. ASSUME NEW i \in DOMAIN Tail(t), NEW j \in DOMAIN Tail(t),
               Tail(t)[i] = a, Tail(t)[j] = b
        PROVE  i < j
    <3>1. i + 1 < j + 1
      BY <1>1, <2>1 DEF Once
    <3> QED
      BY <1>1, <3>1
  <2>2. ASSUME NEW i \in DOMAIN Tail(t), NEW j \in DOMAIN Tail(t),
               Tail(t)[i] = b, Tail(t)[j] = b
        PROVE  i = j
    <3>1. i + 1 = j + 1
      BY <1>1, <2>2 DEF Once
    <3> QED
      BY <1>1, <3>1
  <2> QED
    BY <2>1, <2>2 DEF Once
<1>3. ASSUME Head(t) = b
      PROVE  ~Has(t, a) /\ ~Has(Tail(t), b)
  <2>1. t[1] = b /\ 1 \in DOMAIN t /\ \A i \in DOMAIN t : i \in Nat /\ ~(i < 1)
    BY <1>3, TailIs
  <2>2. ~Has(t, a)
    BY <2>1 DEF Once, Has
  <2>3. ~Has(Tail(t), b)
    BY <1>1, <2>1 DEF Once, Has
  <2> QED
    BY <2>2, <2>3
<1> QED
  BY <1>2, <1>3, HasTail

\* What is left of the writes is a script, and an event is not the first.
LEMMA ScriptTail ==
  ASSUME NEW t \in Seq(Write), t # <<>>, NEW f, NEW n, NEW gate, Script(t, f, n, gate)
  PROVE  Script(Tail(t), f, n, gate)
<1>1. \A i \in DOMAIN Tail(t) : Tail(t)[i] \notin ReconcileWrites
  BY TailIs DEF Script
<1>2. Once(Tail(t), "read_active", "write_active") /\ Once(Tail(t), "read_roadmap", "write_roadmap")
  BY OnceTail DEF Script
<1>3. \A w : Has(Tail(t), w) => Has(t, w)
  BY HasTail
<1> QED
  BY <1>1, <1>2, <1>3 DEF Script

LEMMA WritesFirstTail ==
  ASSUME NEW t \in Seq(Write), t # <<>>, WritesFirst(t), Head(t) # "write_run"
  PROVE  WritesFirst(Tail(t)) /\ Head(t) \notin Event
<1>1. PICK j \in DOMAIN t : t[j] = "write_run" /\ \A i \in DOMAIN t : t[i] \in Event => j < i
  BY DEF WritesFirst
<1>2. j # 1 /\ j - 1 \in DOMAIN Tail(t) /\ Tail(t)[j - 1] = "write_run"
  BY <1>1, TailIs
<1>3. \A i \in DOMAIN Tail(t) : Tail(t)[i] \in Event => j - 1 < i
  BY <1>1, TailIs
<1>4. Head(t) \notin Event
  <2>1. ~(j < 1) /\ 1 \in DOMAIN t
    BY <1>1, TailIs
  <2> QED
    BY <1>1, <2>1, TailIs
<1> QED
  BY <1>2, <1>3, <1>4 DEF WritesFirst

-----------------------------------------------------------------------------
(* run.json.                                                                *)

LEMMA FileFields ==
  ASSUME NEW f \in RunFile
  PROVE  /\ f.status \in {"planned", "active", "paused", "done", "halted"}
         /\ f.node \in [Node -> NodeStatus]
         /\ f.carry \in [Node -> {"none", "open", "handled"}]
         /\ f.closed \in BOOLEAN
         /\ f = [status |-> f.status, node |-> f.node, carry |-> f.carry, closed |-> f.closed]
  BY DEF RunFile

LEMMA FileType ==
  ASSUME NEW s \in {"planned", "active", "paused", "done", "halted"},
         NEW n \in [Node -> NodeStatus],
         NEW c \in [Node -> {"none", "open", "handled"}], NEW b \in BOOLEAN
  PROVE  [status |-> s, node |-> n, carry |-> c, closed |-> b] \in RunFile
  BY DEF RunFile

\* Nothing is left to normalize: what a command handles it promotes itself.
LEMMA NormalizedIsSame ==
  ASSUME NEW f \in RunFile, Sound(f)
  PROVE  Normalized(f) = f
<1> DEFINE m == [n \in Node |-> Promoted(f, n).node[n]]
<1>1. m = f.node
  <2>1. \A n \in Node : Promoted(f, n) = f
    BY DEF Promoted, Sound
  <2> QED
    BY <2>1, FileFields
<1>2. [f EXCEPT !.node = m] = f
  BY <1>1, FileFields
<1> QED
  BY <1>2 DEF Normalized

LEMMA Expected ==
  ASSUME NEW f \in RunFile
  PROVE  /\ ExpectedStatus(f) \in {"planned", "active", "paused", "done", "halted"}
         /\ ExpectedStatus(f) = "halted" <=> Halted(f)
         /\ ExpectedStatus(f) = "done" <=> Over(f) /\ ~Halted(f)
         /\ ExpectedStatus(f) = "done" => All(f, {"passed"})
  BY DEF ExpectedStatus, Halted, Over

\* The derived state of a run is that of its nodes.
LEMMA DerivedIsPlace ==
  ASSUME NEW f \in RunFile, Sound(f)
  PROVE  /\ Finished(f) <=> Over(f)
         /\ DerivedRoadmap(f) = Place(f)
  BY NormalizedIsSame, Expected DEF Finished, DerivedRoadmap, Place, Over

LEMMA OfNodes ==
  ASSUME NEW f, NEW g, f.node = g.node
  PROVE  /\ Halted(f) <=> Halted(g)
         /\ Over(f) <=> Over(g)
         /\ Place(f) = Place(g)
         /\ \A S : All(f, S) <=> All(g, S)
         /\ f.carry = g.carry => (Owing(f) <=> Owing(g))
  BY DEF Halted, Over, Place, All, Owing

LEMMA RepairedIs ==
  ASSUME NEW f \in RunFile, Sound(f)
  PROVE  /\ Repaired(f) \in RunFile
         /\ Sound(Repaired(f))
         /\ Repaired(f).node = f.node
         /\ Repaired(Repaired(f)) = Repaired(f)
<1> DEFINE g == [status |-> ExpectedStatus(f), node |-> f.node, carry |-> f.carry,
                 closed |-> f.closed]
<1>1. Repaired(f) = g
  BY NormalizedIsSame, FileFields DEF Repaired
<1>2. g \in RunFile
  BY Expected, FileFields, FileType
<1>3. Sound(g)
  <2>1. f.closed => ExpectedStatus(f) = "done"
    BY Expected DEF Sound, All, Over, Halted
  <2> QED
    BY <2>1, Expected DEF Sound, All
<1>4. ExpectedStatus(g) = ExpectedStatus(f)
  BY DEF ExpectedStatus, All
<1> HIDE DEF g
<1>5. Repaired(g) = [g EXCEPT !.status = ExpectedStatus(g)]
  BY <1>2, <1>3, NormalizedIsSame DEF Repaired
<1>6. [g EXCEPT !.status = ExpectedStatus(g)] = g
  BY <1>4 DEF g
<1>7. g.node = f.node
  BY DEF g
<1> QED
  BY <1>1, <1>2, <1>3, <1>5, <1>6, <1>7

LEMMA ClosedIs ==
  ASSUME NEW f \in RunFile,
         Sound(f), ~f.closed
  PROVE  /\ Closed(f) \in RunFile /\ Sound(Closed(f))
         /\ Closed(f).node = f.node /\ Closed(f).carry = f.carry /\ Closed(f).closed = f.closed
         /\ Closed(f).status = "done" <=> All(f, {"passed"}) /\ \A n \in Node : f.carry[n] # "open"
<1>1. CASE ~All(f, {"passed", "partial_pass"})
  BY <1>1 DEF Closed, All, Sound
<1>2. CASE All(f, {"passed", "partial_pass"})
  <2>1. PICK s \in {"done", "paused"} :
          /\ Closed(f) = [f EXCEPT !.status = s]
          /\ s = "done" <=> All(f, {"passed"}) /\ \A n \in Node : f.carry[n] # "open"
    BY <1>2 DEF Closed
  <2> DEFINE g == [status |-> s, node |-> f.node, carry |-> f.carry, closed |-> f.closed]
  <2>2. Closed(f) = g
    BY <2>1, FileFields
  <2>4. g \in RunFile
    BY FileFields, FileType
  <2>5. Sound(g)
    BY <2>1 DEF Sound, All
  <2> QED
    BY <2>1, <2>2, <2>4, <2>5
<1> QED
  BY <1>1, <1>2

\* Parts of a run.json that are written.
LEMMA StatusWritten ==
  ASSUME NEW f \in RunFile, NEW st \in {"planned", "active", "paused", "done", "halted"}
  PROVE  LET g == [f EXCEPT !.status = st]
         IN /\ g \in RunFile /\ g.status = st
            /\ g.node = f.node /\ g.carry = f.carry /\ g.closed = f.closed
  BY DEF RunFile

LEMMA ClosedWritten ==
  ASSUME NEW f \in RunFile
  PROVE  LET g == [f EXCEPT !.closed = TRUE]
         IN /\ g \in RunFile /\ g.closed = TRUE
            /\ g.node = f.node /\ g.carry = f.carry /\ g.status = f.status
  BY DEF RunFile

LEMMA NodeWritten ==
  ASSUME NEW f \in RunFile, NEW n \in Node, NEW s \in NodeStatus,
         NEW st \in {"planned", "active", "paused", "done", "halted"}
  PROVE  LET g == [f EXCEPT !.node[n] = s, !.status = st]
         IN /\ g \in RunFile /\ g.status = st
            /\ g.node = [f.node EXCEPT ![n] = s] /\ g.carry = f.carry /\ g.closed = f.closed
  BY DEF RunFile

LEMMA CarryWritten ==
  ASSUME NEW f \in RunFile, NEW n \in Node, NEW s \in NodeStatus,
         NEW c \in {"none", "open", "handled"}
  PROVE  LET g == [f EXCEPT !.node[n] = s, !.carry[n] = c]
         IN /\ g \in RunFile /\ g.status = f.status
            /\ g.node = [f.node EXCEPT ![n] = s] /\ g.carry = [f.carry EXCEPT ![n] = c]
            /\ g.closed = f.closed
  BY DEF RunFile

\* A node that was not passed, nor halted, gets another status.
LEMMA NodeSet ==
  ASSUME NEW f \in RunFile, Sound(f), NEW n \in Node,
         f.node[n] \in {"pending", "active", "failed"},
         NEW s \in NodeStatus, NEW g \in RunFile,
         g.node[n] = s, g.closed = f.closed,
         \A m \in Node \ {n} : g.node[m] = f.node[m] /\ g.carry[m] = f.carry[m],
         g.status # "done",
         s = "partial_pass" => g.carry[n] = "open"
  PROVE  /\ Sound(g) /\ ~f.closed /\ ~g.closed /\ f.status # "done"
         /\ Halted(g) <=> Halted(f) \/ s = "halted"
         /\ ~All(f, {"passed"})
         /\ \A m \in Node : f.node[m] \in Done => g.node[m] = f.node[m]
<1>1. f.status # "done" /\ ~f.closed /\ ~All(f, {"passed"})
  BY DEF Sound, All
<1>2. Sound(g)
  BY <1>1 DEF Sound
<1>3. Halted(g) <=> Halted(f) \/ s = "halted"
  BY DEF Halted
<1>4. \A m \in Node : f.node[m] \in Done => g.node[m] = f.node[m]
  BY DEF Done
<1> QED
  BY <1>1, <1>2, <1>3, <1>4

\* A node is passed, as ticks do it.
LEMMA PassedIs ==
  ASSUME NEW f \in RunFile, Sound(f), NEW n \in Node,
         f.node[n] \in {"pending", "active", "failed"}
  PROVE  LET h == [f EXCEPT !.node[n] = "passed", !.status = "active"]
             g == Closed(h)
         IN /\ g \in RunFile /\ Sound(g) /\ ~f.closed /\ ~g.closed
            /\ g.node[n] = "passed"
            /\ Halted(g) <=> Halted(f)
            /\ ~All(f, {"passed"})
            /\ g.status = "done" => Settled(g)
            /\ All(g, {"passed"}) => g.status = "done" \/ Owing(g)
            /\ \A m \in Node : f.node[m] \in Done => g.node[m] \in Done
<1> DEFINE h == [f EXCEPT !.node[n] = "passed", !.status = "active"]
           g == Closed(h)
<1>1. /\ h \in RunFile /\ h.status = "active"
      /\ h.node = [f.node EXCEPT ![n] = "passed"] /\ h.carry = f.carry /\ h.closed = f.closed
  BY DEF RunFile, NodeStatus
<1> HIDE DEF h
<1>2. /\ h.node[n] = "passed"
      /\ \A m \in Node \ {n} : h.node[m] = f.node[m] /\ h.carry[m] = f.carry[m]
  BY <1>1, FileFields
<1> DEFINE s == "passed"
<1>3. s \in NodeStatus /\ s \notin {"partial_pass", "halted"} /\ h.node[n] = s
  BY <1>2 DEF NodeStatus
<1>4. h.status # "done" /\ h.closed = f.closed
  BY <1>1
<1> HIDE DEF s
<1>5. s = "partial_pass" => h.carry[n] = "open"
  BY <1>2, <1>3
<1>6. /\ Sound(h) /\ ~f.closed /\ ~h.closed
      /\ Halted(h) <=> Halted(f) \/ s = "halted"
      /\ ~All(f, {"passed"})
      /\ \A m \in Node : f.node[m] \in Done => h.node[m] = f.node[m]
  <2>1. h \in RunFile
    BY <1>1
  <2> QED
    BY <1>2, <1>3, <1>4, <1>5, <2>1, NodeSet
<1>7. /\ g \in RunFile /\ Sound(g) /\ g.node = h.node /\ g.carry = h.carry /\ g.closed = h.closed
      /\ g.status = "done" <=> All(h, {"passed"}) /\ \A m \in Node : h.carry[m] # "open"
  BY <1>1, <1>6, ClosedIs
<1> HIDE DEF g
<1>8. /\ Halted(g) <=> Halted(h)
      /\ g.status = "done" => Settled(g)
      /\ All(g, {"passed"}) => g.status = "done" \/ Owing(g)
  BY <1>7, OfNodes DEF Settled, Owing
<1>9. g.node[n] = "passed"
  BY <1>2, <1>7
<1> QED
  BY <1>3, <1>6, <1>7, <1>8, <1>9 DEF g, h

\* An open item is handled; a node that passed in part is passed.
LEMMA CarryHandled ==
  ASSUME NEW f \in RunFile, Sound(f), NEW n \in Node, f.carry[n] = "open"
  PROVE  LET h == [f EXCEPT !.carry[n] = "handled"]
             g == Promoted(h, n)
         IN /\ g \in RunFile /\ Sound(g) /\ ~f.closed /\ ~g.closed
            /\ Halted(g) <=> Halted(f)
            /\ All(f, {"passed"}) => All(g, {"passed"})
            /\ g # h => g.node[n] = "passed"
            /\ \A m \in Node : f.node[m] \in Done => g.node[m] \in Done
<1> DEFINE k == [f.carry EXCEPT ![n] = "handled"]
           h == [f EXCEPT !.carry[n] = "handled"]
           g == Promoted(h, n)
<1>1. ~f.closed
  BY DEF Sound
<1>2. h = [status |-> f.status, node |-> f.node, carry |-> k, closed |-> f.closed]
  BY FileFields
<1>3. k \in [Node -> {"none", "open", "handled"}] /\ k[n] = "handled"
      /\ \A m \in Node \ {n} : k[m] = f.carry[m]
  BY FileFields
<1> HIDE DEF k
<1>4. CASE f.node[n] = "partial_pass"
  <2> DEFINE d == [f.node EXCEPT ![n] = "passed"]
  <2>1. d \in [Node -> NodeStatus] /\ d[n] = "passed" /\ \A m \in Node \ {n} : d[m] = f.node[m]
    BY FileFields DEF NodeStatus
  <2>2. g = [status |-> f.status, node |-> d, carry |-> k, closed |-> f.closed]
    BY <1>2, <1>3, <1>4 DEF Promoted
  <2> HIDE DEF d
  <2>3. g \in RunFile
    <3> HIDE DEF g
    <3> QED
      BY <1>3, <2>1, <2>2, FileFields, FileType
  <2>4. g.status = f.status /\ g.node = d /\ g.carry = k /\ g.closed = f.closed
    BY <2>2
  <2>5. ~All(f, {"passed"})
    BY <1>4 DEF All
  <2> HIDE DEF g, h
  <2>6. Sound(g)
    BY <1>1, <1>3, <2>1, <2>4, <2>5 DEF Sound
  <2>7. Halted(g) <=> Halted(f)
    BY <1>4, <2>1, <2>4 DEF Halted
  <2>8. \A m \in Node : f.node[m] \in Done => g.node[m] \in Done
    BY <2>1, <2>4 DEF Done
  <2> QED
    BY <1>1, <2>1, <2>3, <2>4, <2>5, <2>6, <2>7, <2>8 DEF g, h
<1>5. CASE f.node[n] # "partial_pass"
  <2>1. g = h
    BY <1>2, <1>5 DEF Promoted
  <2>2. h \in RunFile
    <3> HIDE DEF h
    <3> QED
      BY <1>2, <1>3, FileFields, FileType
  <2>3. h.status = f.status /\ h.node = f.node /\ h.carry = k /\ h.closed = f.closed
    BY <1>2
  <2> HIDE DEF g, h
  <2>4. (Halted(h) <=> Halted(f)) /\ (All(h, {"passed"}) <=> All(f, {"passed"}))
    BY <2>3, OfNodes
  <2>5. Sound(h)
    BY <1>1, <1>3, <1>5, <2>3, <2>4 DEF Sound
  <2> QED
    BY <1>1, <2>1, <2>2, <2>3, <2>4, <2>5 DEF g, h
<1> QED
  BY <1>4, <1>5

-----------------------------------------------------------------------------
(* The writes of a command.                                                 *)

Tells(e) ==
  /\ e \in Seq(Write)
  /\ \A i \in DOMAIN e : e[i] \in {"completed", "carry", "halted", "closed", "write_run"}

LEMMA Writing ==
  ASSUME NEW l \in {Leaving, <<"write_run">>}, NEW e, Tells(e)
  PROVE  /\ l \o e \in Seq(Write) /\ l \o e # <<>>
         /\ \A i \in DOMAIN (l \o e) : (l \o e)[i] \notin ReconcileWrites
         /\ Once(l \o e, "read_active", "write_active")
         /\ Once(l \o e, "read_roadmap", "write_roadmap")
         /\ Has(l \o e, "read_active") <=> l = Leaving
         /\ Has(l \o e, "write_active") <=> l = Leaving
         /\ Has(l \o e, "read_roadmap") <=> l = Leaving
         /\ Has(l \o e, "write_roadmap") <=> l = Leaving
         /\ WritesFirst(l \o e)
         /\ \A w \in {"completed", "halted", "closed"} : Has(l \o e, w) <=> Has(e, w)
<1>1. /\ l \in Seq(Write) /\ Len(l) \in {1, 5} /\ l[Len(l)] = "write_run"
      /\ Len(l) = 5 <=> l = Leaving
      /\ Len(l) = 5 => /\ l[1] = "read_active" /\ l[2] = "write_active"
                       /\ l[3] = "read_roadmap" /\ l[4] = "write_roadmap"
  <2>1. CASE l = Leaving
    <3>1. /\ Leaving \in Seq(Write) /\ Len(Leaving) = 5
          /\ Leaving[1] = "read_active" /\ Leaving[2] = "write_active"
          /\ Leaving[3] = "read_roadmap" /\ Leaving[4] = "write_roadmap"
          /\ Leaving[5] = "write_run"
      BY DEF Leaving, Write
    <3> QED
      BY <2>1, <3>1
  <2>2. CASE l = <<"write_run">>
    <3>1. l \in Seq(Write) /\ Len(l) = 1 /\ l[1] = "write_run"
      BY <2>2 DEF Write
    <3>2. Len(Leaving) = 5
      BY DEF Leaving
    <3> DEFINE k == Len(l)
    <3>5. k = 1
      BY <3>1
    <3>6. l # Leaving
      <4>1. 1 # 5
        OBVIOUS
      <4> QED
        BY <3>2, <3>5, <4>1, Zenon
    <3> HIDE DEF k
    <3>7. k \in {1, 5} /\ k # 5
      BY <3>5
    <3>3. Len(l) # 5 /\ Len(l) \in {1, 5} /\ l # Leaving
      BY <3>6, <3>7 DEF k
    <3>4. l[Len(l)] = "write_run"
      BY <3>1
    <3> QED
      BY <3>1, <3>3, <3>4
  <2> QED
    BY <2>1, <2>2
<1>2. Len(l) \in Nat /\ Len(l) >= 1
  BY <1>1
<1>3. e \in Seq(Write) /\ Len(e) \in Nat /\ DOMAIN e = 1..Len(e)
  BY LenProperties DEF Tells
<1> DEFINE t == l \o e
<1>4. t \in Seq(Write) /\ Len(t) = Len(l) + Len(e)
  BY <1>1, <1>3, ConcatProperties
<1>5. DOMAIN t = 1..Len(l) + Len(e)
  BY <1>4, LenProperties
<1>6. \A i \in 1..Len(l) : t[i] = l[i]
  BY <1>1, <1>3, ConcatProperties
<1>7. \A i \in 1..Len(e) : t[Len(l) + i] = e[i]
  <2> TAKE i \in 1..Len(e)
  <2>1. Len(l) + i \in 1..Len(l) + Len(e) /\ ~(Len(l) + i <= Len(l)) /\ Len(l) + i - Len(l) = i
    BY <1>1, <1>3
  <2> QED
    BY <1>1, <1>3, <2>1, ConcatProperties
<1> HIDE DEF t
<1>8. \A i \in DOMAIN t :
        \/ i \in 1..Len(l) /\ t[i] = l[i]
        \/ /\ i - Len(l) \in 1..Len(e) /\ t[i] = e[i - Len(l)] /\ i > Len(l)
           /\ t[i] \in {"completed", "carry", "halted", "closed", "write_run"}
  <2> TAKE i \in DOMAIN t
  <2>1. CASE i <= Len(l)
    BY <1>1, <1>5, <1>6, <2>1
  <2>2. CASE ~(i <= Len(l))
    <3>1. i - Len(l) \in 1..Len(e) /\ Len(l) + (i - Len(l)) = i /\ i > Len(l)
      BY <1>2, <1>3, <1>5, <2>2
    <3> QED
      BY <1>3, <1>7, <3>1 DEF Tells
  <2> QED
    BY <2>1, <2>2
<1>9. \A i \in DOMAIN t :
        /\ t[i] \notin ReconcileWrites
        /\ t[i] = "read_active" <=> Len(l) = 5 /\ i = 1
        /\ t[i] = "write_active" <=> Len(l) = 5 /\ i = 2
        /\ t[i] = "read_roadmap" <=> Len(l) = 5 /\ i = 3
        /\ t[i] = "write_roadmap" <=> Len(l) = 5 /\ i = 4
        /\ t[i] \in Event => i > Len(l)
  BY <1>1, <1>8 DEF ReconcileWrites, Event
<1>10. Len(l) = 5 => 1 \in DOMAIN t /\ 2 \in DOMAIN t /\ 3 \in DOMAIN t /\ 4 \in DOMAIN t
  BY <1>1, <1>3, <1>5
<1>11. WritesFirst(t)
  <2>1. Len(l) \in DOMAIN t /\ t[Len(l)] = "write_run"
    BY <1>1, <1>3, <1>5, <1>6
  <2> QED
    BY <1>9, <2>1 DEF WritesFirst
<1>12. Once(t, "read_active", "write_active") /\ Once(t, "read_roadmap", "write_roadmap")
  BY <1>9 DEF Once
<1>13. /\ Has(t, "read_active") <=> l = Leaving
       /\ Has(t, "write_active") <=> l = Leaving
       /\ Has(t, "read_roadmap") <=> l = Leaving
       /\ Has(t, "write_roadmap") <=> l = Leaving
  <2>1. Len(l) \in DOMAIN t
    BY <1>2, <1>3, <1>5
  <2> QED
    BY <1>1, <1>9, <1>10, <2>1 DEF Has
<1>14. ASSUME NEW w \in {"completed", "halted", "closed"}
       PROVE  Has(t, w) <=> Has(e, w)
  <2>1. ASSUME Has(e, w)
        PROVE  Has(t, w)
    <3>1. PICK i \in 1..Len(e) : e[i] = w
      BY <1>3, <2>1 DEF Has
    <3>2. Len(l) + i \in DOMAIN t /\ t[Len(l) + i] = w
      BY <1>1, <1>3, <1>5, <1>7, <3>1
    <3> QED
      BY <3>2 DEF Has
  <2>2. ASSUME Has(t, w)
        PROVE  Has(e, w)
    <3>1. PICK i \in DOMAIN t : t[i] = w
      BY <2>2 DEF Has
    <3>2. ~(i \in 1..Len(l) /\ t[i] = l[i])
      BY <1>1, <3>1 DEF Leaving
    <3> QED
      BY <1>3, <1>8, <3>1, <3>2 DEF Has
  <2> QED
    BY <2>1, <2>2
<1>15. t # <<>>
  BY <1>1, <1>3, <1>4, EmptySeq
<1> QED
  BY <1>4, <1>9, <1>11, <1>12, <1>13, <1>14, <1>15 DEF t

\* The lists of events that there are.
LEMMA Telling ==
  /\ Tells(<<>>) /\ \A w : ~Has(<<>>, w)
  /\ Tells(<<"completed">>) /\ \A w : Has(<<"completed">>, w) <=> w = "completed"
  /\ Tells(<<"carry">>) /\ \A w : Has(<<"carry">>, w) <=> w = "carry"
  /\ Tells(<<"closed", "write_run">>)
  /\ Tells(<<"completed", "halted">>)
  /\ Has(<<"completed", "halted">>, "halted") /\ ~Has(<<"completed", "halted">>, "closed")
  /\ Has(<<"closed", "write_run">>, "closed") /\ ~Has(<<"closed", "write_run">>, "halted")
  /\ ~Has(<<"closed", "write_run">>, "completed")
<1>1. /\ <<>> \in Seq(Write) /\ DOMAIN <<>> = {}
  BY EmptySeq, LenProperties
<1>2. /\ <<"completed">> \in Seq(Write) /\ DOMAIN <<"completed">> = {1}
      /\ <<"carry">> \in Seq(Write) /\ DOMAIN <<"carry">> = {1}
  BY DEF Write
<1>3. /\ <<"closed", "write_run">> \in Seq(Write) /\ DOMAIN <<"closed", "write_run">> = {1, 2}
      /\ <<"completed", "halted">> \in Seq(Write) /\ DOMAIN <<"completed", "halted">> = {1, 2}
  BY DEF Write
<1>4. Tells(<<>>) /\ \A w : ~Has(<<>>, w)
  BY <1>1 DEF Tells, Has
<1>5. /\ Tells(<<"completed">>) /\ \A w : Has(<<"completed">>, w) <=> w = "completed"
      /\ Tells(<<"carry">>) /\ \A w : Has(<<"carry">>, w) <=> w = "carry"
  BY <1>2 DEF Tells, Has
<1>6. Tells(<<"closed", "write_run">>) /\ Tells(<<"completed", "halted">>)
  BY <1>3 DEF Tells
<1>7. /\ Has(<<"completed", "halted">>, "halted") /\ ~Has(<<"completed", "halted">>, "closed")
      /\ Has(<<"closed", "write_run">>, "closed") /\ ~Has(<<"closed", "write_run">>, "halted")
      /\ ~Has(<<"closed", "write_run">>, "completed")
  BY <1>3 DEF Has
<1> QED
  BY <1>4, <1>5, <1>6, <1>7

LEMMA TellsMore ==
  ASSUME NEW d, Tells(d), NEW e, Tells(e)
  PROVE  /\ Tells(d \o e)
         /\ \A w : Has(d \o e, w) <=> Has(d, w) \/ Has(e, w)
<1>1. /\ d \in Seq(Write) /\ Len(d) \in Nat /\ DOMAIN d = 1..Len(d)
      /\ e \in Seq(Write) /\ Len(e) \in Nat /\ DOMAIN e = 1..Len(e)
  BY LenProperties DEF Tells
<1> DEFINE t == d \o e
<1>2. t \in Seq(Write) /\ Len(t) = Len(d) + Len(e)
  BY <1>1, ConcatProperties
<1>3. DOMAIN t = 1..Len(d) + Len(e)
  BY <1>2, LenProperties
<1>4. \A i \in 1..Len(d) : i \in DOMAIN t /\ t[i] = d[i]
  BY <1>1, <1>3, ConcatProperties
<1>5. \A i \in 1..Len(e) : Len(d) + i \in DOMAIN t /\ t[Len(d) + i] = e[i]
  <2> TAKE i \in 1..Len(e)
  <2>1. Len(d) + i \in 1..Len(d) + Len(e) /\ ~(Len(d) + i <= Len(d)) /\ Len(d) + i - Len(d) = i
    BY <1>1
  <2> QED
    BY <1>1, <1>3, <2>1, ConcatProperties
<1> HIDE DEF t
<1>6. \A i \in DOMAIN t : (\E j \in DOMAIN d : t[i] = d[j]) \/ (\E j \in DOMAIN e : t[i] = e[j])
  <2> TAKE i \in DOMAIN t
  <2>1. CASE i <= Len(d)
    BY <1>1, <1>3, <1>4, <2>1
  <2>2. CASE ~(i <= Len(d))
    <3>1. i - Len(d) \in 1..Len(e) /\ Len(d) + (i - Len(d)) = i
      BY <1>1, <1>3, <2>2
    <3> QED
      BY <1>1, <1>5, <3>1
  <2> QED
    BY <2>1, <2>2
<1>7. Tells(t)
  BY <1>2, <1>6 DEF Tells
<1>8. \A w : Has(t, w) <=> Has(d, w) \/ Has(e, w)
  BY <1>1, <1>4, <1>5, <1>6 DEF Has
<1> QED
  BY <1>7, <1>8 DEF t

-----------------------------------------------------------------------------
(* Events.                                                                  *)

LEMMA CreatedEvent ==
  ASSUME NEW x \in Replay, NEW r \in Run
  PROVE  /\ EventCreated(x, r) \in Replay
         /\ EventCreated(x, r).active = x.active \cup {r}
         /\ EventCreated(x, r).learned = x.learned
  BY DEF Replay, EventCreated

LEMMA HaltedEvent ==
  ASSUME NEW x \in Replay, NEW r \in Run
  PROVE  /\ EventHalted(x, r) \in Replay
         /\ EventHalted(x, r).active = x.active \ {r}
         /\ EventHalted(x, r).learned = x.learned \ {r}
  BY DEF Replay, EventHalted

LEMMA ClosedEvent ==
  ASSUME NEW x \in Replay, NEW r \in Run
  PROVE  /\ EventClosed(x, r) \in Replay
         /\ EventClosed(x, r).active = x.active \ {r}
         /\ EventClosed(x, r).learned = x.learned \cup {r}
  BY DEF Replay, EventClosed

\* The event of a node takes a run out only when its learn node has passed.
Learns(n, gate) == n = LastNode /\ gate \in {"PASS", "PARTIAL_PASS"}

LEMMA CompletedEvent ==
  ASSUME NEW x \in Replay, NEW r \in Run, NEW n \in Node, NEW gate
  PROVE  LET y == EventCompleted(x, r, n, gate)
         IN /\ y \in Replay
            /\ y.active \in {x.active, x.active \ {r}}
            /\ y.active # x.active => Learns(n, gate)
            /\ y.learned = IF Learns(n, gate) THEN x.learned \cup {r} ELSE x.learned
<1> DEFINE y == IF gate = "PARTIAL_PASS"
                THEN [x EXCEPT !.partial = @ \cup {r}, !.open[r] = @ \cup {n}]
                ELSE x
<1>1. y \in Replay /\ y.active = x.active /\ y.learned = x.learned
  BY DEF Replay
<1>2. EventCompleted(x, r, n, gate) =
        IF Learns(n, gate)
        THEN [y EXCEPT !.learned = @ \cup {r},
                       !.active = IF r \in y.partial THEN @ ELSE @ \ {r}]
        ELSE y
  BY DEF EventCompleted, Learns
<1> HIDE DEF y
<1>3. CASE Learns(n, gate)
  <2> DEFINE z == [y EXCEPT !.learned = @ \cup {r},
                            !.active = IF r \in y.partial THEN @ ELSE @ \ {r}]
  <2>1. /\ z \in Replay
        /\ z.active \in {y.active, y.active \ {r}}
        /\ z.learned = y.learned \cup {r}
    BY <1>1 DEF Replay
  <2>2. EventCompleted(x, r, n, gate) = z
    BY <1>2, <1>3
  <2> HIDE DEF z
  <2> QED
    BY <1>1, <1>3, <2>1, <2>2
<1>4. CASE ~Learns(n, gate)
  BY <1>1, <1>2, <1>4
<1> QED
  BY <1>3, <1>4

LEMMA CarryEvent ==
  ASSUME NEW x \in Replay, NEW r \in Run, NEW n \in Node
  PROVE  LET y == EventCarryHandled(x, r, n)
         IN /\ y \in Replay
            /\ y.active \in {x.active, x.active \ {r}}
            /\ y.active # x.active => r \in x.learned
            /\ y.learned = x.learned
<1> DEFINE y == [x EXCEPT !.open[r] = @ \ {n},
                          !.partial = IF x.open[r] \subseteq {n} THEN @ \ {r} ELSE @]
<1>1. y \in Replay /\ y.active = x.active /\ y.learned = x.learned
  BY DEF Replay
<1>2. EventCarryHandled(x, r, n) =
        [y EXCEPT !.active = IF r \notin y.partial /\ r \in y.learned THEN @ \ {r} ELSE @]
  BY DEF EventCarryHandled
<1> HIDE DEF y
<1> QED
  BY <1>1, <1>2 DEF Replay

LEMMA ReconciledEvent ==
  ASSUME NEW x \in Replay, NEW ids \in SUBSET Run
  PROVE  /\ EventReconciled(x, ids) \in Replay
         /\ EventReconciled(x, ids).active = ids
         /\ EventReconciled(x, ids).learned = {}
  BY DEF Replay, EventReconciled

-----------------------------------------------------------------------------
(* Between commands.                                                        *)

Agreement ==
  /\ active \subseteq created
  /\ \A r \in created : \/ Owing(run[r])
                        \/ /\ r \in active <=> ~Over(run[r])
                           /\ roadmap[r] = Place(run[r])
  /\ ~behind
  /\ replay.active \subseteq active
  /\ \A r \in active \ replay.active : run[r].node[LastNode] \in Done

\* An operator without a command.
LEMMA AtRest ==
  ASSUME NEW p \in Proc, todo[p] = <<>>
  PROVE  ~Reconciles(p) /\ (WillAgree(p) <=> Agreement)
<1>1. ~Reconciles(p)
  BY DEF Reconciles
<1>2. \A w : ~Has(todo[p], w)
  BY HasNothing
<1>3. ActiveToBe(p) = active /\ RoadmapToBe(p) = roadmap /\ RunToBe(p) = run
  BY <1>2 DEF ActiveToBe, ActiveAfter, RoadmapToBe, RoadmapAfter, RunToBe
<1> QED
  BY <1>1, <1>2, <1>3 DEF WillAgree, Agreement

LEMMA ComesToRest ==
  ASSUME OneOperator, NEW p \in Proc, TypeOK', FilesInv', (todo[p])' = <<>>, (cmd[p])' = Idle,
         ~cut' => Agreement'
  PROVE  RunInv'
<1>1. ~Reconciles(p)'
  BY DEF Reconciles
<1>2. \A w : ~Has(todo[p], w)'
  BY HasNothing DEF Has
<1>3. ActiveToBe(p)' = active' /\ RoadmapToBe(p)' = roadmap' /\ RunToBe(p)' = run'
  BY <1>2 DEF ActiveToBe, ActiveAfter, RoadmapToBe, RoadmapAfter, RunToBe
<1>4. Agreement' => WillAgree(p)'
  BY <1>2, <1>3 DEF WillAgree, Agreement
<1>5. OperatorInv(p)'
  BY <1>1, <1>4 DEF OperatorInv
<1> QED
  BY <1>5 DEF RunInv, OneOperator

LEMMA Rests ==
  ASSUME RunInv, NEW p \in Proc, Ready(p)
  PROVE  todo[p] = <<>> /\ cmd[p] = Idle /\ (~cut => Agreement)
  BY AtRest DEF RunInv, OperatorInv, Ready

LEMMA Types ==
  ASSUME TypeOK, NEW p \in Proc
  PROVE  /\ \A r \in Run : run[r] \in RunFile /\ roadmap[r] \in {"ready", "active", "done", "blocked"}
         /\ created \subseteq Run /\ active \subseteq Run /\ replay \in Replay
         /\ todo[p] \in Seq(Write) /\ cmd[p] \in Command
         /\ None \notin Run
         /\ LastNode \in Node /\ LastNode - 1 \in Node /\ Execute \in Node /\ Execute # LastNode
         /\ Review \in Node /\ LastNode \notin Execute..Review /\ Execute \in Execute..Review
  BY RunAssumption DEF TypeOK, RunAssumption, Node

LEMMA PlannedIs ==
  /\ Planned \in RunFile /\ Sound(Planned) /\ ~Over(Planned) /\ Place(Planned) = "active"
  /\ Planned.node[LastNode] = "pending"
<1>1. LastNode \in Node
  BY RunAssumption DEF RunAssumption, Node
<1> QED
  BY <1>1 DEF Planned, RunFile, NodeStatus, Sound, Over, Halted, Place, All

LEMMA CreateStep ==
  ASSUME OneOperator, RunInv, NEW p \in Proc, NEW r \in Run, CreateRun(p, r)
  PROVE  RunInv'
<1>1. Ready(p) /\ r \notin created /\ run[r] = Planned /\ TypeOK /\ FilesInv
  BY DEF CreateRun, RunInv, FilesInv
<1>2. todo[p] = <<>> /\ cmd[p] = Idle /\ (~cut => Agreement)
  BY <1>1, Rests
<1>3. TypeOK'
  <2>1. replay' \in Replay
    BY Types, CreatedEvent DEF CreateRun, RunInv
  <2> QED
    BY <2>1 DEF CreateRun, RunInv, TypeOK
<1>4. FilesInv'
  <2>1. replay'.learned = replay.learned
    BY Types, CreatedEvent DEF CreateRun, RunInv
  <2> QED
    BY <1>1, <2>1 DEF CreateRun, FilesInv
<1>5. ~cut' => Agreement'
  <2> SUFFICES ASSUME ~cut
               PROVE  Agreement'
    BY DEF CreateRun
  <2>1. replay'.active = replay.active \cup {r}
    BY Types, CreatedEvent DEF CreateRun, RunInv
  <2>2. active' = active \cup {r} /\ created' = created \cup {r}
    BY DEF CreateRun
  <2>3. run' = run /\ ~Over(run[r]) /\ Place(run[r]) = "active" /\ ~behind'
    BY <1>1, PlannedIs DEF CreateRun
  <2>4. active' \subseteq created'
    BY <1>2, <2>2 DEF Agreement
  <2>5. \A q \in created' : \/ Owing(run'[q])
                            \/ (q \in active' <=> ~Over(run'[q])) /\ roadmap'[q] = Place(run'[q])
    BY <1>1, <1>2, <2>2, <2>3 DEF CreateRun, Agreement, RunInv, TypeOK
  <2>6. replay'.active \subseteq active' /\ \A q \in active' \ replay'.active : run'[q].node[LastNode] \in Done
    BY <1>2, <2>1, <2>3 DEF CreateRun, Agreement
  <2> QED
    BY <2>3, <2>4, <2>5, <2>6 DEF Agreement
<1>6. (todo[p])' = <<>> /\ (cmd[p])' = Idle
  BY <1>2 DEF CreateRun
<1> QED
  BY <1>3, <1>4, <1>5, <1>6, ComesToRest

\* One run.json is replaced by another, in which what was passed is passed.
LEMMA FileReplaced ==
  ASSUME RunInv, NEW r \in created, NEW f \in RunFile, Sound(f),
         run' = [run EXCEPT ![r] = f], created' = created, active' \subseteq created,
         run[r].node[LastNode] \in Done => f.node[LastNode] \in Done,
         \A q \in replay'.learned : q \in replay.learned \/ (q = r /\ f.node[LastNode] \in Done)
  PROVE  /\ FilesInv'
         /\ run' \in [Run -> RunFile]
         /\ run'[r] = f /\ \A q \in Run \ {r} : run'[q] = run[q]
         /\ \A q \in Run : run[q].node[LastNode] \in Done => run'[q].node[LastNode] \in Done
<1>1. run \in [Run -> RunFile] /\ r \in Run /\ created \subseteq Run /\ replay.learned \subseteq Run
  BY DEF RunInv, TypeOK, Replay
<1>2. run' \in [Run -> RunFile] /\ run'[r] = f /\ \A q \in Run \ {r} : run'[q] = run[q]
  BY <1>1
<1>3. \A q \in Run : run[q].node[LastNode] \in Done => run'[q].node[LastNode] \in Done
  BY <1>2
<1>4. FilesInv'
  <2>1. \A q \in Run : Sound(run'[q])
    BY <1>2 DEF RunInv, FilesInv
  <2>2. \A q \in Run \ created' : run'[q] = Planned
    BY <1>2 DEF RunInv, FilesInv
  <2>3. \A q \in replay'.learned : run'[q].node[LastNode] \in Done
    BY <1>1, <1>2, <1>3 DEF RunInv, FilesInv
  <2> QED
    BY <2>1, <2>2, <2>3 DEF FilesInv, Sound, All
<1> QED
  BY <1>2, <1>3, <1>4

LEMMA LearnStep ==
  ASSUME OneOperator, RunInv, NEW p \in Proc, NEW r \in Run, LearnReadyRun(p, r)
  PROVE  RunInv'
<1> DEFINE f == Closed([run[r] EXCEPT !.node[LastNode] = "passed", !.status = "active"])
           x == EventCompleted(replay, r, LastNode, "PASS")
           g == IF f.status = "done" THEN [f EXCEPT !.closed = TRUE] ELSE f
<1>1. /\ Ready(p) /\ r \in active /\ run[r].node[LastNode] = "pending"
      /\ IF f.status = "done"
         THEN /\ run' = [run EXCEPT ![r] = [f EXCEPT !.closed = TRUE]]
              /\ active' = active \ {r}
              /\ roadmap' = [roadmap EXCEPT ![r] = "done"]
              /\ replay' = EventClosed(x, r)
         ELSE /\ run' = [run EXCEPT ![r] = f]
              /\ replay' = x
              /\ UNCHANGED <<active, roadmap>>
      /\ behind' = FALSE
      /\ UNCHANGED <<created, todo, cmd, kills, cut>>
  BY DEF LearnReadyRun
<1>2. TypeOK /\ r \in created /\ active \subseteq created /\ run[r] \in RunFile /\ Sound(run[r])
      /\ LastNode \in Node
  BY <1>1, Types DEF RunInv, FilesInv
<1>3. todo[p] = <<>> /\ cmd[p] = Idle /\ (~cut => Agreement)
  BY <1>1, Rests
<1>4. /\ f \in RunFile /\ Sound(f) /\ ~f.closed /\ f.node[LastNode] = "passed"
      /\ Halted(f) <=> Halted(run[r])
      /\ ~All(run[r], {"passed"})
      /\ f.status = "done" => Settled(f)
      /\ All(f, {"passed"}) => f.status = "done" \/ Owing(f)
  <2> DEFINE b == run[r]
             n == LastNode
  <2>1. b \in RunFile /\ Sound(b) /\ b.node[n] \in {"pending", "active", "failed"} /\ n \in Node
    BY <1>1, <1>2
  <2> HIDE DEF b, n
  <2> DEFINE c == Closed([b EXCEPT !.node[n] = "passed", !.status = "active"])
  <2>2. /\ c \in RunFile /\ Sound(c) /\ ~c.closed /\ c.node[n] = "passed"
        /\ Halted(c) <=> Halted(b)
        /\ ~All(b, {"passed"})
        /\ c.status = "done" => Settled(c)
        /\ All(c, {"passed"}) => c.status = "done" \/ Owing(c)
    BY <2>1, PassedIs
  <2>3. f = c
    BY DEF b, n
  <2> HIDE DEF c, f
  <2>4. /\ f \in RunFile /\ Sound(f) /\ ~f.closed /\ f.node[n] = "passed"
        /\ Halted(f) <=> Halted(b)
        /\ ~All(b, {"passed"})
        /\ f.status = "done" => Settled(f)
        /\ All(f, {"passed"}) => f.status = "done" \/ Owing(f)
    BY <2>2, <2>3
  <2> QED
    BY <2>4 DEF b, n
<1> HIDE DEF f
<1>5. /\ g \in RunFile /\ Sound(g) /\ g.node = f.node /\ g.carry = f.carry
      /\ g.node[LastNode] \in Done
  <2>2. g \in RunFile /\ g.node = f.node /\ g.carry = f.carry /\ g.status = f.status
        /\ (g.closed => f.status = "done")
    BY <1>4, ClosedWritten
  <2> HIDE DEF g
  <2>3. Sound(g)
    BY <1>4, <2>2 DEF Sound, All, Settled
  <2> QED
    BY <1>4, <2>2, <2>3 DEF Done
<1>6. run' = [run EXCEPT ![r] = g]
  BY <1>1
<1> HIDE DEF g
<1>7. /\ x \in Replay /\ x.active \in {replay.active, replay.active \ {r}}
      /\ x.learned = replay.learned \cup {r}
  <2>1. replay \in Replay /\ r \in Run /\ LastNode \in Node /\ "PASS" \in {"PASS", "PARTIAL_PASS"}
    BY <1>2, Types
  <2> DEFINE gate == "PASS"
  <2>2. gate \in {"PASS", "PARTIAL_PASS"}
    BY <2>1
  <2>3. x = EventCompleted(replay, r, LastNode, gate) /\ Learns(LastNode, gate)
    BY <2>2 DEF Learns
  <2> HIDE DEF gate, x
  <2> QED
    BY <2>1, <2>2, <2>3, CompletedEvent
<1> HIDE DEF x
<1>8. /\ replay' \in Replay
      /\ replay'.learned = replay.learned \cup {r}
      /\ f.status = "done" => replay'.active = replay.active \ {r}
      /\ f.status # "done" => replay'.active \in {replay.active, replay.active \ {r}}
  BY <1>1, <1>7, ClosedEvent
<1>9. /\ FilesInv' /\ run' \in [Run -> RunFile]
      /\ run'[r] = g /\ \A q \in Run \ {r} : run'[q] = run[q]
      /\ \A q \in Run : run[q].node[LastNode] \in Done => run'[q].node[LastNode] \in Done
  BY <1>1, <1>2, <1>5, <1>6, <1>8, FileReplaced
<1>10. TypeOK'
  <2>1. active' \subseteq Run /\ roadmap' \in [Run -> {"ready", "active", "done", "blocked"}]
    BY <1>1, <1>2 DEF TypeOK
  <2> QED
    BY <1>1, <1>2, <1>8, <1>9, <2>1 DEF TypeOK
<1>11. ~cut' => Agreement'
  <2> SUFFICES ASSUME ~cut
               PROVE  Agreement'
    BY <1>1
  <2>1. Agreement /\ ~Owing(run[r]) /\ ~Over(run[r]) /\ roadmap[r] = "active"
    BY <1>1, <1>2, <1>3, <1>4 DEF Agreement, Owing, Place, Over
  <2>2. Owing(g) \/ (/\ Over(g) <=> f.status = "done"
                     /\ Place(g) = IF f.status = "done" THEN "done" ELSE "active")
    BY <1>4, <1>5, <2>1, OfNodes DEF Over, Place, Settled
  <2>3. active' \subseteq created' /\ created \subseteq Run
    BY <1>1, <1>2 DEF TypeOK
  <2>4. ASSUME NEW q \in created'
        PROVE  \/ Owing(run'[q])
               \/ (q \in active' <=> ~Over(run'[q])) /\ roadmap'[q] = Place(run'[q])
    <3>1. CASE q = r
      BY <1>1, <1>2, <1>9, <2>1, <2>2, <3>1 DEF TypeOK
    <3>2. CASE q # r
      <4>1. run'[q] = run[q] /\ roadmap'[q] = roadmap[q] /\ (q \in active' <=> q \in active)
        BY <1>1, <1>2, <1>9, <2>3, <3>2 DEF TypeOK
      <4> QED
        BY <1>1, <2>1, <4>1 DEF Agreement
    <3> QED
      BY <3>1, <3>2
  <2>5. replay'.active \subseteq active'
    BY <1>1, <1>8, <2>1 DEF Agreement
  <2>6. \A q \in active' \ replay'.active : run'[q].node[LastNode] \in Done
    BY <1>1, <1>2, <1>5, <1>8, <1>9, <2>1 DEF Agreement, TypeOK
  <2> QED
    BY <1>1, <2>3, <2>4, <2>5, <2>6 DEF Agreement
<1> QED
  BY <1>1, <1>3, <1>9, <1>10, <1>11, ComesToRest

\* Any node of a run that is under way is halted.
LEMMA HaltedIs ==
  ASSUME NEW f \in RunFile, Sound(f), f.status = "active", NEW n \in Node
  PROVE  LET g == [f EXCEPT !.node[n] = "halted", !.status = "halted"]
         IN /\ g \in RunFile /\ Sound(g) /\ Over(g) /\ Place(g) = "blocked"
            /\ \A m \in Node \ {n} : g.node[m] = f.node[m]
<1> DEFINE g == [f EXCEPT !.node[n] = "halted", !.status = "halted"]
<1>1. /\ g \in RunFile /\ g.status = "halted"
      /\ g.node = [f.node EXCEPT ![n] = "halted"] /\ g.carry = f.carry /\ g.closed = f.closed
  BY DEF RunFile, NodeStatus
<1> HIDE DEF g
<1>2. g.node[n] = "halted" /\ \A m \in Node \ {n} : g.node[m] = f.node[m]
  BY <1>1, FileFields
<1>3. Sound(g)
  BY <1>1, <1>2 DEF Sound
<1>4. Halted(g)
  BY <1>2 DEF Halted
<1> QED
  BY <1>1, <1>2, <1>3, <1>4 DEF Over, Place, g

LEMMA HaltStep ==
  ASSUME OneOperator, RunInv, NEW p \in Proc, NEW r \in Run, HaltBlockedRun(p, r)
  PROVE  RunInv'
<1> DEFINE b == run[r]
           g == [b EXCEPT !.node[Execute] = "halted", !.status = "halted"]
<1>1. /\ Ready(p) /\ r \in active /\ b.status = "active"
      /\ active' = active \ {r}
      /\ roadmap' = [roadmap EXCEPT ![r] = "blocked"]
      /\ replay' = EventHalted(replay, r)
      /\ behind' = FALSE
      /\ UNCHANGED <<created, todo, cmd, kills, cut>>
  BY DEF HaltBlockedRun
<1>2. /\ TypeOK /\ r \in created /\ active \subseteq created /\ b \in RunFile /\ Sound(b)
      /\ LastNode \in Node /\ Execute \in Node /\ LastNode # Execute
  BY <1>1, Types DEF RunInv, FilesInv
<1>3. todo[p] = <<>> /\ cmd[p] = Idle /\ (~cut => Agreement)
  BY <1>1, Rests
<1>4. run' = [run EXCEPT ![r] = g]
  <2>1. run' = [run EXCEPT ![r] = [run[r] EXCEPT !.node[Execute] = "halted", !.status = "halted"]]
    <3>1. run \in [Run -> RunFile] /\ run[r] \in RunFile
      BY <1>2 DEF TypeOK
    <3> QED
      BY <3>1 DEF HaltBlockedRun, RunFile
  <2> QED
    BY <2>1
<1>5. /\ g \in RunFile /\ Sound(g) /\ Over(g) /\ Place(g) = "blocked"
      /\ g.node[LastNode] = b.node[LastNode]
  <2> HIDE DEF b
  <2> QED
    BY <1>1, <1>2, HaltedIs
<1> HIDE DEF g
<1>6. /\ replay' \in Replay /\ replay'.active = replay.active \ {r}
      /\ replay'.learned = replay.learned \ {r}
  BY <1>1, <1>2, Types, HaltedEvent
<1>7. /\ FilesInv' /\ run' \in [Run -> RunFile]
      /\ run'[r] = g /\ \A q \in Run \ {r} : run'[q] = run[q]
      /\ \A q \in Run : run[q].node[LastNode] \in Done => run'[q].node[LastNode] \in Done
  BY <1>1, <1>2, <1>4, <1>5, <1>6, FileReplaced
<1>8. TypeOK'
  <2>1. active' \subseteq Run /\ roadmap' \in [Run -> {"ready", "active", "done", "blocked"}]
    BY <1>1, <1>2 DEF TypeOK
  <2> QED
    BY <1>1, <1>2, <1>6, <1>7, <2>1 DEF TypeOK
<1>9. ~cut' => Agreement'
  <2> SUFFICES ASSUME ~cut
               PROVE  Agreement'
    BY <1>1
  <2>1. Agreement /\ created \subseteq Run
    BY <1>2, <1>3 DEF TypeOK
  <2>2. active' \subseteq created'
    BY <1>1, <1>2
  <2>3. \A q \in created' : \/ Owing(run'[q])
                            \/ (q \in active' <=> ~Over(run'[q])) /\ roadmap'[q] = Place(run'[q])
    BY <1>1, <1>2, <1>5, <1>7, <2>1 DEF Agreement, TypeOK
  <2>4. replay'.active \subseteq active'
    BY <1>1, <1>6, <2>1 DEF Agreement
  <2>5. \A q \in active' \ replay'.active : run'[q].node[LastNode] \in Done
    BY <1>1, <1>6, <1>7, <2>1 DEF Agreement
  <2> QED
    BY <1>1, <2>2, <2>3, <2>4, <2>5 DEF Agreement
<1> QED
  BY <1>1, <1>3, <1>7, <1>8, <1>9, ComesToRest

\* Nodes are to be done again; what was open stays open.
LEMMA ReopenedIs ==
  ASSUME NEW f \in RunFile, Sound(f), ~All(f, {"passed"}), Execute..Review \subseteq Node,
         Execute \in Execute..Review
  PROVE  /\ Reopened(f) \in RunFile /\ Sound(Reopened(f)) /\ ~All(Reopened(f), {"passed"})
         /\ Halted(Reopened(f)) => Halted(f)
         /\ \A m \in Node \ (Execute..Review) : Reopened(f).node[m] = f.node[m]
<1> DEFINE d == [m \in Node |-> IF m \in Execute..Review THEN "pending" ELSE f.node[m]]
           g == Reopened(f)
<1>1. /\ d \in [Node -> NodeStatus] /\ d[Execute] = "pending"
      /\ \A m \in Node : d[m] = IF m \in Execute..Review THEN "pending" ELSE f.node[m]
  BY FileFields DEF NodeStatus
<1>2. g = [f EXCEPT !.node = d, !.status = "active"]
  BY DEF Reopened
<1> HIDE DEF d, g
<1>3. g \in RunFile /\ g.status = "active" /\ g.node = d /\ g.carry = f.carry /\ g.closed = f.closed
  BY <1>1, <1>2 DEF RunFile
<1>4. Sound(g)
  BY <1>1, <1>3 DEF Sound
<1>5. ~All(g, {"passed"})
  BY <1>1, <1>3 DEF All
<1>6. Halted(g) => Halted(f)
  BY <1>1, <1>3 DEF Halted
<1> QED
  BY <1>1, <1>3, <1>4, <1>5, <1>6 DEF g

LEMMA ReopenStep ==
  ASSUME OneOperator, RunInv, NEW p \in Proc, NEW r \in Run, ReopenRun(p, r)
  PROVE  RunInv'
<1> DEFINE b == run[r]
           g == Reopened(b)
<1>1. /\ Ready(p) /\ r \in active /\ b.node[Review] = "pending"
      /\ behind' = FALSE
      /\ UNCHANGED <<created, roadmap, active, replay, todo, cmd, kills, cut>>
  BY DEF ReopenRun
<1>2. /\ TypeOK /\ r \in created /\ active \subseteq created /\ b \in RunFile /\ Sound(b)
      /\ LastNode \in Node \ (Execute..Review) /\ Execute \in Execute..Review /\ Review \in Node
  BY <1>1, Types DEF RunInv, FilesInv
<1>3. todo[p] = <<>> /\ cmd[p] = Idle /\ (~cut => Agreement)
  BY <1>1, Rests
<1>4. run' = [run EXCEPT ![r] = g]
  BY DEF ReopenRun
<1>5. Execute..Review \subseteq Node /\ ~All(b, {"passed"})
  BY <1>1, <1>2, RunAssumption DEF RunAssumption, Node, All
<1>6. /\ g \in RunFile /\ Sound(g) /\ ~All(g, {"passed"})
      /\ Halted(g) => Halted(b)
      /\ g.node[LastNode] = b.node[LastNode]
  BY <1>2, <1>5, ReopenedIs
<1> HIDE DEF g
<1>7. /\ FilesInv' /\ run' \in [Run -> RunFile]
      /\ run'[r] = g /\ \A q \in Run \ {r} : run'[q] = run[q]
      /\ \A q \in Run : run[q].node[LastNode] \in Done => run'[q].node[LastNode] \in Done
  <2>1. \A q \in replay'.learned : q \in replay.learned
    BY <1>1
  <2> QED
    BY <1>1, <1>2, <1>4, <1>6, <2>1, FileReplaced
<1>8. TypeOK'
  BY <1>1, <1>2, <1>7 DEF TypeOK
<1>9. ~cut' => Agreement'
  <2> SUFFICES ASSUME ~cut
               PROVE  Agreement'
    BY <1>1
  <2>1. Agreement /\ ~Owing(b) /\ ~Over(b) /\ roadmap[r] = "active" /\ created \subseteq Run
    BY <1>1, <1>2, <1>3, <1>5 DEF Agreement, Owing, Place, Over, TypeOK
  <2>2. ~Over(g) /\ Place(g) = "active"
    BY <1>6, <2>1 DEF Over, Place
  <2>3. \A q \in created' : \/ Owing(run'[q])
                            \/ (q \in active' <=> ~Over(run'[q])) /\ roadmap'[q] = Place(run'[q])
    BY <1>1, <1>7, <2>1, <2>2 DEF Agreement
  <2>4. \A q \in active' \ replay'.active : run'[q].node[LastNode] \in Done
    BY <1>1, <1>2, <1>7, <2>1 DEF Agreement
  <2> QED
    BY <1>1, <1>2, <2>1, <2>3, <2>4 DEF Agreement
<1> QED
  BY <1>1, <1>3, <1>7, <1>8, <1>9, ComesToRest

-----------------------------------------------------------------------------
(* A command begins.                                                        *)

LEMMA NotReconciling ==
  ASSUME NEW t \in Seq(Write), \A i \in DOMAIN t : t[i] \notin ReconcileWrites
  PROVE  /\ t # <<"derive", "fix_runs", "reconciled">>
         /\ t # <<"fix_runs", "reconciled">>
         /\ t # <<"reconciled">>
<1>1. ASSUME NEW w \in ReconcileWrites, NEW s, s \in Seq(Write), 1 \in DOMAIN s, s[1] = w
      PROVE  t # s
  BY <1>1
<1>2. /\ <<"derive", "fix_runs", "reconciled">> \in Seq(Write)
      /\ <<"fix_runs", "reconciled">> \in Seq(Write)
      /\ <<"reconciled">> \in Seq(Write)
  BY DEF Write
<1>3. /\ 1 \in DOMAIN <<"derive", "fix_runs", "reconciled">>
      /\ 1 \in DOMAIN <<"fix_runs", "reconciled">>
      /\ 1 \in DOMAIN <<"reconciled">>
  OBVIOUS
<1>4. /\ <<"derive", "fix_runs", "reconciled">>[1] = "derive"
      /\ <<"fix_runs", "reconciled">>[1] = "fix_runs"
      /\ <<"reconciled">>[1] = "reconciled"
  OBVIOUS
<1> QED
  BY <1>3, <1>4 DEF ReconcileWrites

LEMMA IdleIs == Idle \in Command /\ Planned \in RunFile
<1>1. 1 \in Node
  BY RunAssumption DEF RunAssumption, Node
<1> QED
  BY <1>1, PlannedIs DEF Idle, Command, Gate

LEMMA OverIs ==
  ASSUME NEW f
  PROVE  /\ Over(f) <=> Place(f) # "active"
         /\ Place(f) = "done" => All(f, {"passed"})
  BY DEF Over, Place

\* What the four commands have in common.
LEMMA CommandBegins ==
  ASSUME OneOperator, RunInv, NEW p \in Proc, NEW r \in created, NEW n \in Node,
         NEW gate \in Gate, NEW f \in RunFile, Sound(f),
         NEW l \in {Leaving, <<"write_run">>}, NEW e, Tells(e),
         Begin(p, r, n, gate, f, l \o e),
         run[r].node[LastNode] \in Done => f.node[LastNode] \in Done,
         Has(e, "completed") /\ n = LastNode /\ gate \in {"PASS", "PARTIAL_PASS"}
           => f.node[LastNode] \in Done,
         Has(e, "halted") => Halted(f),
         Has(e, "closed") => f.status = "done" /\ Settled(f),
         l = Leaving => Place(f) = IF gate = "HALT" THEN "blocked" ELSE "done",
         l # Leaving => Owing(f) \/ (~Owing(run[r]) /\ Place(f) = Place(run[r])),
         l = Leaving => Has(e, "halted") \/ Has(e, "closed")
  PROVE  RunInv'
<1> DEFINE t == l \o e
           c == [Idle EXCEPT !.run = r, !.node = n, !.gate = gate, !.copy = f]
<1>1. /\ TypeOK /\ FilesInv /\ r \in Run /\ created \subseteq Run /\ run[r] \in RunFile
      /\ run \in [Run -> RunFile]
  BY DEF RunInv, TypeOK
<1>2. /\ todo[p] = <<>>
      /\ todo' = [todo EXCEPT ![p] = t]
      /\ cmd' = [cmd EXCEPT ![p] = c]
      /\ UNCHANGED <<created, run, roadmap, active, behind, replay, kills, cut>>
      /\ ~cut => Agreement
  BY Rests DEF Begin, Ready
<1>3. /\ t \in Seq(Write) /\ t # <<>>
      /\ \A i \in DOMAIN t : t[i] \notin ReconcileWrites
      /\ Once(t, "read_active", "write_active")
      /\ Once(t, "read_roadmap", "write_roadmap")
      /\ Has(t, "read_active") <=> l = Leaving
      /\ Has(t, "write_active") <=> l = Leaving
      /\ Has(t, "read_roadmap") <=> l = Leaving
      /\ Has(t, "write_roadmap") <=> l = Leaving
      /\ WritesFirst(t)
      /\ \A w \in {"completed", "halted", "closed"} : Has(t, w) <=> Has(e, w)
  BY Writing, Zenon
<1>4. c \in Command /\ c.run = r /\ c.node = n /\ c.gate = gate /\ c.copy = f
  BY <1>1, IdleIs DEF Command
<1> HIDE DEF t, c
<1>5. todo'[p] = t /\ cmd'[p] = c
  BY <1>1, <1>2 DEF TypeOK
<1>6. TypeOK'
  BY <1>1, <1>2, <1>3, <1>4 DEF TypeOK
<1>7. FilesInv'
  BY <1>1, <1>2 DEF FilesInv, Sound, All
<1>8. ~Reconciles(p)'
  BY <1>3, <1>5, NotReconciling DEF Reconciles
<1>9. CommandInv(p)'
  <2>1. Script(t, f, n, gate)
    BY <1>3 DEF Script, Halted, Settled
  <2> QED
    BY <1>2, <1>3, <1>4, <1>5, <2>1 DEF CommandInv
<1>10. ~cut => WillAgree(p)'
  <2> SUFFICES ASSUME ~cut
               PROVE  WillAgree(p)'
    OBVIOUS
  <2>1. Agreement
    BY <1>2
  <2>2. ActiveToBe(p)' = IF l = Leaving THEN active \ {r} ELSE active
    BY <1>2, <1>3, <1>4, <1>5 DEF ActiveToBe, ActiveAfter
  <2>3. RoadmapToBe(p)' = IF l = Leaving THEN [roadmap EXCEPT ![r] = Place(f)] ELSE roadmap
    BY <1>2, <1>3, <1>4, <1>5 DEF RoadmapToBe, RoadmapAfter
  <2>4. RunToBe(p)' = [run EXCEPT ![r] = f]
    BY <1>2, <1>3, <1>4, <1>5 DEF RunToBe
  <2> DEFINE g == [run EXCEPT ![r] = f]
  <2>5. g[r] = f /\ \A q \in Run \ {r} : g[q] = run[q]
    BY <1>1
  <2> HIDE DEF g
  <2>6. /\ l = Leaving => Over(f)
        /\ l # Leaving => Owing(f) \/ (~Owing(run[r]) /\ (Over(f) <=> Over(run[r])))
    BY OverIs
  <2>7. ActiveToBe(p)' \subseteq created
    BY <2>1, <2>2 DEF Agreement
  <2>8. ASSUME NEW q \in created
        PROVE  \/ Owing(g[q])
               \/ (q \in ActiveToBe(p)' <=> ~Over(g[q])) /\ RoadmapToBe(p)'[q] = Place(g[q])
    <3>1. CASE q = r
      BY <1>1, <2>1, <2>2, <2>3, <2>5, <2>6, <3>1 DEF Agreement, TypeOK
    <3>2. CASE q # r
      BY <1>1, <2>1, <2>2, <2>3, <2>5, <3>2 DEF Agreement, TypeOK
    <3> QED
      BY <3>1, <3>2
  <2>9. \A q \in replay.active \ ActiveToBe(p)' : q = r /\ (Has(t, "halted") \/ Has(t, "closed"))
    BY <1>3, <2>1, <2>2 DEF Agreement
  <2>10. \A q \in ActiveToBe(p)' \ replay.active : run[q].node[LastNode] \in Done
    BY <2>1, <2>2 DEF Agreement
  <2>11. ~behind
    BY <2>1 DEF Agreement
  <2>12. RunToBe(p)' = g
    BY <2>4 DEF g
  <2> QED
    BY <1>2, <1>4, <1>5, <2>7, <2>8, <2>9, <2>10, <2>11, <2>12 DEF WillAgree
<1>11. OperatorInv(p)'
  BY <1>2, <1>3, <1>5, <1>8, <1>9, <1>10 DEF OperatorInv
<1> QED
  BY <1>6, <1>7, <1>11 DEF RunInv, OneOperator

LEMMA SamePlace ==
  ASSUME NEW f, NEW g, Halted(f) <=> Halted(g), All(f, {"passed"}) <=> All(g, {"passed"})
  PROVE  Place(f) = Place(g)
  BY DEF Place, Over

LEMMA StartedIs ==
  ASSUME NEW f \in RunFile, Sound(f), NEW n \in Node,
         f.node[n] \in {"pending", "active", "failed"}
  PROVE  LET g == [f EXCEPT !.node[n] = "active", !.status = "active"]
         IN /\ g \in RunFile /\ Sound(g)
            /\ Place(g) = Place(f) /\ ~All(f, {"passed"})
            /\ \A m \in Node : f.node[m] \in Done => g.node[m] \in Done
<1> DEFINE g == [f EXCEPT !.node[n] = "active", !.status = "active"]
<1>1. /\ g \in RunFile /\ g.status = "active"
      /\ g.node = [f.node EXCEPT ![n] = "active"] /\ g.carry = f.carry /\ g.closed = f.closed
  BY DEF RunFile, NodeStatus
<1> HIDE DEF g
<1>2. /\ g.node[n] = "active"
      /\ \A m \in Node \ {n} : g.node[m] = f.node[m] /\ g.carry[m] = f.carry[m]
  BY <1>1, FileFields
<1> DEFINE s == "active"
<1>3. s \in NodeStatus /\ s \notin {"partial_pass", "halted"} /\ g.node[n] = s
  BY <1>2 DEF NodeStatus
<1>4. g \in RunFile /\ g.status # "done" /\ g.closed = f.closed
  BY <1>1
<1> HIDE DEF s
<1>5. s = "partial_pass" => g.carry[n] = "open"
  BY <1>2, <1>3
<1>6. /\ Sound(g)
      /\ Halted(g) <=> Halted(f) \/ s = "halted"
      /\ ~All(f, {"passed"})
      /\ \A m \in Node : f.node[m] \in Done => g.node[m] = f.node[m]
  BY <1>2, <1>3, <1>4, <1>5, NodeSet
<1>7. ~All(g, {"passed"})
  BY <1>2 DEF All
<1>8. Place(g) = Place(f)
  BY <1>3, <1>6, <1>7, SamePlace
<1> QED
  BY <1>4, <1>6, <1>8 DEF g

\* A node is completed, failed or escalated.
LEMMA CompletedIs ==
  ASSUME NEW f \in RunFile, Sound(f), NEW n \in Node,
         f.node[n] \in {"pending", "active", "failed"},
         NEW gate \in Gate, NEW s \in NodeStatus,
         s = CASE gate = "PASS" -> "passed" [] gate = "PARTIAL_PASS" -> "partial_pass"
               [] gate = "FAIL" -> "failed" [] OTHER -> "halted",
         NEW b \in RunFile, b.status = f.status, b.closed = f.closed,
         b.node[n] = s, b.carry[n] = IF gate = "PARTIAL_PASS" THEN "open" ELSE f.carry[n],
         \A m \in Node \ {n} : b.node[m] = f.node[m] /\ b.carry[m] = f.carry[m]
  PROVE  LET g == IF gate = "HALT" THEN [b EXCEPT !.status = "halted"] ELSE Closed(b)
         IN /\ g \in RunFile /\ Sound(g) /\ ~g.closed
            /\ ~All(f, {"passed"})
            /\ gate = "HALT" => Halted(g)
            /\ gate # "HALT" => /\ Halted(g) <=> Halted(f)
                                /\ g.status = "done" => Settled(g)
                                /\ All(g, {"passed"}) => g.status = "done" \/ Owing(g)
            /\ gate \in {"PASS", "PARTIAL_PASS"} => g.node[n] \in Done
            /\ \A m \in Node : f.node[m] \in Done => g.node[m] \in Done
<1> DEFINE g == IF gate = "HALT" THEN [b EXCEPT !.status = "halted"] ELSE Closed(b)
<1>1. /\ s = "partial_pass" <=> gate = "PARTIAL_PASS"
      /\ s = "halted" <=> gate = "HALT"
      /\ gate \in {"PASS", "PARTIAL_PASS"} => s \in Done
  BY DEF Gate, Done
<1>2. b.status # "done"
  BY DEF Sound, All
<1>3. s = "partial_pass" => b.carry[n] = "open"
  BY <1>1
<1>4. /\ Sound(b) /\ ~f.closed /\ ~b.closed
      /\ Halted(b) <=> Halted(f) \/ s = "halted"
      /\ ~All(f, {"passed"})
      /\ \A m \in Node : f.node[m] \in Done => b.node[m] = f.node[m]
  BY <1>2, <1>3, NodeSet
<1>5. CASE gate = "HALT"
  <2>1. /\ g \in RunFile /\ g.status = "halted"
        /\ g.node = b.node /\ g.carry = b.carry /\ g.closed = b.closed
    BY <1>5, StatusWritten
  <2> HIDE DEF g
  <2>2. Sound(g)
    BY <1>4, <2>1 DEF Sound, All
  <2>3. Halted(g) <=> Halted(b)
    BY <2>1, OfNodes
  <2> QED
    BY <1>1, <1>4, <1>5, <2>1, <2>2, <2>3 DEF g
<1>6. CASE gate # "HALT"
  <2>1. /\ g \in RunFile /\ Sound(g) /\ g.node = b.node /\ g.carry = b.carry /\ g.closed = b.closed
        /\ g.status = "done" <=> All(b, {"passed"}) /\ \A m \in Node : b.carry[m] # "open"
    BY <1>4, <1>6, ClosedIs
  <2> HIDE DEF g
  <2>2. /\ Halted(g) <=> Halted(b)
        /\ g.status = "done" => Settled(g)
        /\ All(g, {"passed"}) => g.status = "done" \/ Owing(g)
    BY <2>1, OfNodes DEF Settled, Owing
  <2>3. gate \in {"PASS", "PARTIAL_PASS"} => g.node[n] \in Done
    BY <1>1, <2>1
  <2> QED
    BY <1>1, <1>4, <1>6, <2>1, <2>2, <2>3 DEF g
<1> QED
  BY <1>5, <1>6

LEMMA ClosureTells ==
  ASSUME NEW g, ~g.closed
  PROVE  /\ Tells(Closure(g))
         /\ Has(Closure(g), "closed") <=> g.status = "done"
         /\ ~Has(Closure(g), "halted") /\ ~Has(Closure(g), "completed")
<1>1. CASE g.status = "done"
  <2>1. Closure(g) = <<"closed", "write_run">>
    BY <1>1 DEF Closure
  <2> QED
    BY <1>1, <2>1, Telling
<1>2. CASE g.status # "done"
  <2>1. Closure(g) = <<>>
    BY <1>2 DEF Closure
  <2> QED
    BY <1>2, <2>1, Telling
<1> QED
  BY <1>1, <1>2

LEMMA LeavingIs ==
  /\ Leaving # <<"write_run">>
  /\ Leaving \in Seq(Write) /\ <<"write_run">> \in Seq(Write)
<1>1. Len(Leaving) = 5
  BY DEF Leaving
<1>2. Len(<<"write_run">>) = 1
  OBVIOUS
<1>3. 1 # 5
  OBVIOUS
<1>4. Leaving # <<"write_run">>
  BY <1>1, <1>2, <1>3, Zenon
<1>5. Leaving \in Seq(Write)
  BY DEF Leaving, Write
<1>6. <<"write_run">> \in Seq(Write)
  BY DEF Write
<1> QED
  BY <1>4, <1>5, <1>6

LEMMA WritesAre ==
  ASSUME NEW g
  PROVE  /\ Writes(g) \in {Leaving, <<"write_run">>}
         /\ Writes(g) = Leaving <=> g.status = "done"
  BY LeavingIs DEF Writes

LEMMA StartStep ==
  ASSUME OneOperator, RunInv, NEW p \in Proc, NEW r \in Run, NEW n \in Node, StartNode(p, r, n)
  PROVE  RunInv'
<1> DEFINE b == run[r]
           f == [b EXCEPT !.node[n] = "active", !.status = "active"]
           l == <<"write_run">>
           e == <<>>
<1>1. r \in created /\ b.node[n] \in {"pending", "active", "failed"} /\ Begin(p, r, n, "PASS", f, l)
  BY DEF StartNode
<1>2. b \in RunFile /\ Sound(b) /\ LastNode \in Node /\ "PASS" \in Gate
  BY Types DEF RunInv, FilesInv, Gate
<1>3. Tells(e) /\ \A w : ~Has(e, w)
  BY Telling
<1>4. l \o e = l
  OBVIOUS
<1>5. l # Leaving /\ l \in {Leaving, <<"write_run">>}
  BY LeavingIs
<1>6. Begin(p, r, n, "PASS", f, l \o e)
  BY <1>1, <1>4
<1> HIDE DEF b, e, l
<1>7. /\ f \in RunFile /\ Sound(f) /\ Place(f) = Place(b) /\ ~Owing(b)
      /\ b.node[LastNode] \in Done => f.node[LastNode] \in Done
  BY <1>1, <1>2, StartedIs DEF Owing
<1> DEFINE gate == "PASS"
<1>8. gate \in Gate /\ Begin(p, r, n, gate, f, l \o e)
  BY <1>2, <1>6
<1> HIDE DEF f, gate
<1>9. run[r] = b
  BY DEF b
<1> QED
  BY <1>1, <1>2, <1>3, <1>5, <1>7, <1>8, <1>9, CommandBegins

LEMMA CompleteStep ==
  ASSUME OneOperator, RunInv, NEW p \in Proc, NEW r \in Run, NEW n \in Node, NEW gate \in Gate,
         CompleteNode(p, r, n, gate)
  PROVE  RunInv'
<1> DEFINE b == run[r]
           s == CASE gate = "PASS" -> "passed" [] gate = "PARTIAL_PASS" -> "partial_pass"
                  [] gate = "FAIL" -> "failed" [] OTHER -> "halted"
           h == [b EXCEPT !.node[n] = s,
                          !.carry[n] = IF gate = "PARTIAL_PASS" THEN "open" ELSE @]
           f == IF gate = "HALT" THEN [h EXCEPT !.status = "halted"] ELSE Closed(h)
           e == IF gate = "HALT" THEN <<"completed", "halted">> ELSE <<"completed">> \o Closure(f)
           l == IF gate = "HALT" THEN Leaving ELSE Writes(f)
<1>1. /\ r \in created /\ b.node[n] \in {"pending", "active", "failed"}
      /\ Begin(p, r, n, gate, f, l \o e)
  BY DEF CompleteNode
<1>2. b \in RunFile /\ Sound(b) /\ LastNode \in Node /\ s \in NodeStatus
  BY Types DEF RunInv, FilesInv, Gate, NodeStatus
<1> HIDE DEF b
<1>3. /\ h \in RunFile /\ h.status = b.status /\ h.closed = b.closed
      /\ h.node[n] = s /\ h.carry[n] = IF gate = "PARTIAL_PASS" THEN "open" ELSE b.carry[n]
      /\ \A m \in Node \ {n} : h.node[m] = b.node[m] /\ h.carry[m] = b.carry[m]
  <2> HIDE DEF s
  <2> QED
    BY <1>2 DEF RunFile
<1>4. /\ f \in RunFile /\ Sound(f) /\ ~f.closed
      /\ ~All(b, {"passed"})
      /\ gate = "HALT" => Halted(f)
      /\ gate # "HALT" => /\ Halted(f) <=> Halted(b)
                          /\ f.status = "done" => Settled(f)
                          /\ All(f, {"passed"}) => f.status = "done" \/ Owing(f)
      /\ gate \in {"PASS", "PARTIAL_PASS"} => f.node[n] \in Done
      /\ \A m \in Node : b.node[m] \in Done => f.node[m] \in Done
  <2>1. s = CASE gate = "PASS" -> "passed" [] gate = "PARTIAL_PASS" -> "partial_pass"
              [] gate = "FAIL" -> "failed" [] OTHER -> "halted"
    OBVIOUS
  <2> HIDE DEF s, h
  <2> QED
    BY <1>3, <1>1, <1>2, <2>1, CompletedIs
<1> HIDE DEF f
<1>5. l \in {Leaving, <<"write_run">>} /\ (l = Leaving <=> gate = "HALT" \/ f.status = "done")
  BY WritesAre
<1>6. /\ Tells(e)
      /\ Has(e, "halted") => gate = "HALT"
      /\ Has(e, "closed") => gate # "HALT" /\ f.status = "done"
      /\ l = Leaving => Has(e, "halted") \/ Has(e, "closed")
  <2>1. CASE gate = "HALT"
    BY <2>1, Telling
  <2>2. CASE gate # "HALT"
    <3> DEFINE d == <<"completed">>
               k == Closure(f)
    <3>1. Tells(d) /\ ~Has(d, "halted") /\ ~Has(d, "closed")
      BY Telling
    <3>2. /\ Tells(k) /\ ~Has(k, "halted")
          /\ Has(k, "closed") <=> f.status = "done"
      BY <1>4, ClosureTells
    <3>3. e = d \o k
      BY <2>2
    <3> HIDE DEF d, k, e
    <3>4. Tells(d \o k) /\ \A w : Has(d \o k, w) <=> Has(d, w) \/ Has(k, w)
      BY <3>1, <3>2, TellsMore
    <3> QED
      BY <1>5, <2>2, <3>1, <3>2, <3>3, <3>4
  <2> QED
    BY <2>1, <2>2
<1> HIDE DEF e, l
<1>7. l = Leaving => Place(f) = IF gate = "HALT" THEN "blocked" ELSE "done"
  BY <1>4, <1>5 DEF Place, Over, Halted, All, Settled
<1>8. l # Leaving => Owing(f) \/ (~Owing(b) /\ Place(f) = Place(b))
  BY <1>4, <1>5, SamePlace DEF Owing
<1>9. run[r] = b
  BY DEF b
<1> QED
  BY <1>1, <1>2, <1>4, <1>5, <1>6, <1>7, <1>8, <1>9, CommandBegins

LEMMA PassStep ==
  ASSUME OneOperator, RunInv, NEW p \in Proc, NEW r \in Run, NEW n \in Node, PassNode(p, r, n)
  PROVE  RunInv'
<1> DEFINE b == run[r]
           f == Closed([b EXCEPT !.node[n] = "passed", !.status = "active"])
           l == Writes(f)
           d == <<"completed">>
           k == Closure(f)
           gate == "PASS"
<1>1. /\ r \in active /\ b.node[n] \in {"pending", "active", "failed"}
      /\ Begin(p, r, n, gate, f, (l \o d) \o k)
  BY DEF PassNode
<1>2. /\ r \in created /\ b \in RunFile /\ Sound(b) /\ LastNode \in Node
      /\ gate \in Gate /\ gate # "HALT"
  BY <1>1, Types DEF RunInv, FilesInv, Gate
<1>3. run[r] = b
  OBVIOUS
<1> HIDE DEF b, gate
<1>4. /\ f \in RunFile /\ Sound(f) /\ ~f.closed /\ f.node[n] = "passed"
      /\ Halted(f) <=> Halted(b)
      /\ ~All(b, {"passed"})
      /\ f.status = "done" => Settled(f)
      /\ All(f, {"passed"}) => f.status = "done" \/ Owing(f)
      /\ \A m \in Node : b.node[m] \in Done => f.node[m] \in Done
  BY <1>1, <1>2, PassedIs
<1> HIDE DEF f
<1>5. l \in {Leaving, <<"write_run">>} /\ (l = Leaving <=> f.status = "done")
  BY WritesAre
<1>6. /\ Tells(d) /\ ~Has(d, "halted") /\ ~Has(d, "closed")
      /\ Tells(k) /\ ~Has(k, "halted")
      /\ Has(k, "closed") <=> f.status = "done"
  BY <1>4, ClosureTells, Telling
<1> HIDE DEF d, k
<1>7. Tells(d \o k) /\ \A w : Has(d \o k, w) <=> Has(d, w) \/ Has(k, w)
  BY <1>6, TellsMore
<1>8. (l \o d) \o k = l \o (d \o k)
  <2>1. l \in Seq(Write) /\ d \in Seq(Write) /\ k \in Seq(Write)
    BY <1>5, <1>6, LeavingIs, Zenon DEF Tells
  <2> QED
    BY <2>1, ConcatAssociative
<1> DEFINE e == d \o k
<1>9. Begin(p, r, n, gate, f, l \o e)
  BY <1>1, <1>8
<1>10. /\ Tells(e) /\ ~Has(e, "halted")
       /\ Has(e, "closed") <=> f.status = "done"
  BY <1>6, <1>7
<1> HIDE DEF e, l
<1>11. l = Leaving => Place(f) = IF gate = "HALT" THEN "blocked" ELSE "done"
  BY <1>2, <1>4, <1>5 DEF Place, Over, Halted, All, Settled
<1>12. l # Leaving => Owing(f) \/ (~Owing(b) /\ Place(f) = Place(b))
  BY <1>4, <1>5, SamePlace DEF Owing
<1>13. n = LastNode => f.node[LastNode] \in Done
  BY <1>4 DEF Done
<1> QED
  BY <1>2, <1>3, <1>4, <1>5, <1>9, <1>10, <1>11, <1>12, <1>13, CommandBegins

LEMMA CarryStep ==
  ASSUME OneOperator, RunInv, NEW p \in Proc, NEW r \in Run, NEW n \in Node, HandleCarry(p, r, n)
  PROVE  RunInv'
<1> DEFINE b == run[r]
           h == [b EXCEPT !.carry[n] = "handled"]
           g == Promoted(h, n)
           f == Closed(g)
           l == Writes(f)
           c == <<"carry">>
           d == IF g # h THEN <<"completed">> ELSE <<>>
           k == Closure(f)
           gate == "PASS"
<1>1. /\ r \in created /\ b.carry[n] = "open"
      /\ Begin(p, r, n, gate, f, ((l \o c) \o d) \o k)
  BY DEF HandleCarry
<1>2. b \in RunFile /\ Sound(b) /\ LastNode \in Node /\ gate \in Gate /\ gate # "HALT"
  BY <1>1, Types DEF RunInv, FilesInv, Gate
<1>3. run[r] = b
  OBVIOUS
<1> HIDE DEF b, gate
<1>4. /\ g \in RunFile /\ Sound(g) /\ ~g.closed
      /\ Halted(g) <=> Halted(b)
      /\ All(b, {"passed"}) => All(g, {"passed"})
      /\ g # h => g.node[n] = "passed"
      /\ \A m \in Node : b.node[m] \in Done => g.node[m] \in Done
  BY <1>1, <1>2, CarryHandled
<1> HIDE DEF g, h
<1>5. /\ f \in RunFile /\ Sound(f) /\ f.node = g.node /\ f.carry = g.carry /\ ~f.closed
      /\ f.status = "done" <=> All(g, {"passed"}) /\ \A m \in Node : g.carry[m] # "open"
  BY <1>4, ClosedIs
<1> HIDE DEF f
<1>6. /\ Halted(f) <=> Halted(b)
      /\ All(b, {"passed"}) => All(f, {"passed"})
      /\ f.status = "done" => Settled(f)
      /\ All(f, {"passed"}) => f.status = "done" \/ Owing(f)
  BY <1>4, <1>5, OfNodes DEF Settled, Owing
<1>7. l \in {Leaving, <<"write_run">>} /\ (l = Leaving <=> f.status = "done")
  BY WritesAre
<1>8. /\ Tells(c) /\ ~Has(c, "halted") /\ ~Has(c, "closed") /\ ~Has(c, "completed")
      /\ Tells(d) /\ ~Has(d, "halted") /\ ~Has(d, "closed")
      /\ Has(d, "completed") => g # h
      /\ Tells(k) /\ ~Has(k, "halted") /\ ~Has(k, "completed")
      /\ Has(k, "closed") <=> f.status = "done"
  BY <1>5, ClosureTells, Telling
<1> HIDE DEF c, d, k
<1> DEFINE a == c \o d
           e == a \o k
<1>9. Tells(a) /\ \A w : Has(a, w) <=> Has(c, w) \/ Has(d, w)
  BY <1>8, TellsMore
<1>10. ((l \o c) \o d) \o k = l \o e
  <2>1. /\ l \in Seq(Write) /\ c \in Seq(Write) /\ d \in Seq(Write) /\ k \in Seq(Write)
        /\ a \in Seq(Write)
    BY <1>7, <1>8, <1>9, LeavingIs, Zenon DEF Tells
  <2>2. (l \o c) \o d = l \o a
    BY <2>1, ConcatAssociative
  <2>3. (l \o a) \o k = l \o (a \o k)
    <3> HIDE DEF a
    <3> QED
      BY <2>1, ConcatAssociative
  <2> QED
    BY <2>2, <2>3
<1> HIDE DEF a
<1>11. Tells(e) /\ \A w : Has(e, w) <=> Has(a, w) \/ Has(k, w)
  BY <1>8, <1>9, TellsMore
<1>12. Begin(p, r, n, gate, f, l \o e)
  BY <1>1, <1>10
<1> HIDE DEF e, l
<1>13. /\ ~Has(e, "halted")
       /\ Has(e, "closed") <=> f.status = "done"
       /\ Has(e, "completed") => g # h
  BY <1>8, <1>9, <1>11
<1>14. l = Leaving => Place(f) = IF gate = "HALT" THEN "blocked" ELSE "done"
  BY <1>2, <1>6, <1>7 DEF Place, Over, Halted, All, Settled
<1>15. l # Leaving => Owing(f) \/ (~Owing(b) /\ Place(f) = Place(b))
  BY <1>6, <1>7, SamePlace DEF Owing
<1>16. n = LastNode /\ Has(e, "completed") => f.node[LastNode] \in Done
  BY <1>4, <1>5, <1>13 DEF Done
<1>17. b.node[LastNode] \in Done => f.node[LastNode] \in Done
  BY <1>2, <1>4, <1>5
<1> QED
  BY <1>1, <1>2, <1>3, <1>5, <1>6, <1>7, <1>11, <1>12, <1>13, <1>14, <1>15, <1>16, <1>17,
     CommandBegins

-----------------------------------------------------------------------------
(* A command goes on.                                                       *)

LEMMA UnderWay ==
  ASSUME RunInv, NEW p \in Proc, todo[p] # <<>>, Head(todo[p]) \notin ReconcileWrites
  PROVE  /\ ~Reconciles(p) /\ CommandInv(p) /\ (~cut => WillAgree(p))
         /\ todo[p] \in Seq(Write) /\ cmd[p] \in Command /\ cmd[p].copy \in RunFile
         /\ cmd[p].run \in created /\ cmd[p].run \in Run
<1>1. /\ Head(<<"derive", "fix_runs", "reconciled">>) = "derive"
      /\ Head(<<"fix_runs", "reconciled">>) = "fix_runs"
      /\ Head(<<"reconciled">>) = "reconciled"
  OBVIOUS
<1>2. ~Reconciles(p)
  BY <1>1 DEF Reconciles, ReconcileWrites
<1>3. CommandInv(p) /\ (~cut => WillAgree(p))
  BY <1>2 DEF RunInv, OperatorInv
<1>4. todo[p] \in Seq(Write) /\ cmd[p] \in Command
  BY DEF RunInv, TypeOK
<1>5. cmd[p].run \in created /\ cmd[p].run \in Run
  BY <1>3 DEF CommandInv, RunInv, TypeOK
<1> QED
  BY <1>2, <1>3, <1>4, <1>5 DEF Command

\* A write, after which p's command holds c and has t still to write.
FilesTyped ==
  /\ active' \in SUBSET Run /\ replay' \in Replay /\ behind' \in BOOLEAN
  /\ roadmap' \in [Run -> {"ready", "active", "done", "blocked"}]
  /\ run' \in [Run -> RunFile]

WriteMade(p, t, r, c) ==
  /\ created' = created /\ kills' = kills /\ cut' = cut
  /\ behind' => behind
  /\ \A q \in Run \ {r} : run'[q] = run[q]
  /\ Same(run'[r], c.copy) \/ WritesFirst(t)
  /\ run'[r].node[LastNode] \in Done => c.copy.node[LastNode] \in Done
  /\ Has(t, "write_active") /\ ~Has(t, "read_active") => c.active = active'
  /\ Has(t, "write_roadmap") /\ ~Has(t, "read_roadmap") => c.roadmap = roadmap'
  /\ ActiveAfter(t, r, active') = ActiveToBe(p)
  /\ RoadmapAfter(t, r, c.gate, roadmap') = RoadmapToBe(p)
  /\ ~cut => /\ \A q \in replay'.active \ ActiveToBe(p) :
                  q = r /\ (Has(t, "halted") \/ Has(t, "closed"))
             /\ \A q \in ActiveToBe(p) \ replay'.active : run'[q].node[LastNode] \in Done

LEMMA GoesOn ==
  ASSUME OneOperator, RunInv, NEW p \in Proc, NEW w, Do(p, w), w \notin ReconcileWrites,
         NEW t, t = Tail(todo[p]), NEW r, r = cmd[p].run,
         NEW c \in Command, c.run = r, c.node = cmd[p].node, c.gate = cmd[p].gate,
         Same(c.copy, cmd[p].copy), Sound(c.copy),
         Keep(p, c), FilesTyped, FilesInv', WriteMade(p, t, r, c)
  PROVE  RunInv'
<1>1. /\ todo[p] # <<>> /\ Head(todo[p]) \notin ReconcileWrites
      /\ todo' = [todo EXCEPT ![p] = t]
  BY DEF Do
<1>2. /\ ~Reconciles(p) /\ CommandInv(p) /\ (~cut => WillAgree(p))
      /\ todo[p] \in Seq(Write) /\ cmd[p] \in Command /\ cmd[p].copy \in RunFile
      /\ r \in created /\ r \in Run
  BY <1>1, UnderWay
<1>3. /\ t \in Seq(Write)
      /\ t = <<>> <=> Len(todo[p]) = 1
  BY <1>1, <1>2, TailIs
<1>4. todo'[p] = t /\ cmd'[p] = IF t = <<>> THEN Idle ELSE c
  BY <1>1, <1>3 DEF Keep, RunInv, TypeOK
<1>5. TypeOK'
  <2>1. cmd' \in [Proc -> Command] /\ todo' \in [Proc -> Seq(Write)]
    BY <1>1, <1>3, IdleIs DEF Keep, RunInv, TypeOK
  <2> QED
    BY <2>1 DEF RunInv, TypeOK, FilesTyped, WriteMade
<1>6. Script(t, c.copy, c.node, c.gate)
  <2>1. Script(t, cmd[p].copy, c.node, c.gate)
    BY <1>1, <1>2, ScriptTail DEF CommandInv
  <2> QED
    BY <2>1 DEF Script, Same, All
<1>7. /\ RunToBe(p) = [run EXCEPT ![r] = cmd[p].copy]
      /\ RunToBe(p)[r].node = c.copy.node /\ RunToBe(p)[r].carry = c.copy.carry
      /\ \A q \in Run \ {r} : RunToBe(p)[q] = run'[q]
  BY <1>1, <1>2 DEF RunToBe, Same, RunInv, TypeOK, WriteMade
<1>8. ASSUME ~cut, NEW g, g[r].node = c.copy.node, g[r].carry = c.copy.carry,
             \A q \in Run \ {r} : g[q] = run'[q]
      PROVE  /\ ActiveToBe(p) \subseteq created'
             /\ \A q \in created' : \/ Owing(g[q])
                                    \/ /\ q \in ActiveToBe(p) <=> ~Over(g[q])
                                       /\ RoadmapToBe(p)[q] = Place(g[q])
             /\ ~behind'
  <2>1. WillAgree(p) /\ created' = created /\ created \subseteq Run
    BY <1>2, <1>8 DEF RunInv, TypeOK, WriteMade
  <2>2. \A q \in created : g[q].node = RunToBe(p)[q].node /\ g[q].carry = RunToBe(p)[q].carry
    BY <1>7, <1>8, <2>1
  <2>3. \A q \in created : /\ Over(g[q]) <=> Over(RunToBe(p)[q])
                           /\ Place(g[q]) = Place(RunToBe(p)[q])
                           /\ Owing(g[q]) <=> Owing(RunToBe(p)[q])
    BY <2>2, OfNodes
  <2> QED
    BY <2>1, <2>3 DEF WillAgree, WriteMade
<1>9. CASE t = <<>>
  <2>1. ~WritesFirst(t) /\ \A v : ~Has(t, v)
    BY <1>9, HasNothing, Zenon
  <2>2. run'[r].node = c.copy.node /\ run'[r].carry = c.copy.carry
    BY <2>1 DEF Same, WriteMade
  <2>3. ~cut' => Agreement'
    BY <1>8, <2>1, <2>2 DEF Agreement, WriteMade, ActiveAfter, RoadmapAfter
  <2> QED
    BY <1>4, <1>5, <1>9, <2>3, ComesToRest
<1>10. CASE t # <<>>
  <2>1. todo'[p] = t /\ cmd'[p] = c
    BY <1>4, <1>10
  <2>2. ~Reconciles(p)'
    BY <1>3, <1>6, <2>1, NotReconciling DEF Reconciles, Script
  <2>3. CommandInv(p)'
    BY <1>2, <1>6, <2>1 DEF CommandInv, WriteMade
  <2>4. ~cut => WillAgree(p)'
    <3> SUFFICES ASSUME ~cut
                 PROVE  WillAgree(p)'
      OBVIOUS
    <3>1. ActiveToBe(p)' = ActiveToBe(p) /\ RoadmapToBe(p)' = RoadmapToBe(p)
        BY <2>1 DEF ActiveToBe, RoadmapToBe, WriteMade
    <3> DEFINE g == [run' EXCEPT ![r] = c.copy]
    <3>2. RunToBe(p)' = g
      BY <1>10, <2>1 DEF RunToBe
    <3>3. g[r].node = c.copy.node /\ g[r].carry = c.copy.carry /\ \A q \in Run \ {r} : g[q] = run'[q]
      BY <1>2 DEF FilesTyped
    <3> HIDE DEF g
    <3>4. /\ ActiveToBe(p) \subseteq created'
          /\ \A q \in created' : \/ Owing(g[q])
                                 \/ /\ q \in ActiveToBe(p) <=> ~Over(g[q])
                                    /\ RoadmapToBe(p)[q] = Place(g[q])
          /\ ~behind'
      BY <1>8, <3>3
    <3> QED
      BY <2>1, <3>1, <3>2, <3>4 DEF WillAgree, WriteMade
  <2>5. OperatorInv(p)'
    BY <1>10, <2>1, <2>2, <2>3, <2>4 DEF OperatorInv, WriteMade
  <2> QED
    BY <1>5, <2>5 DEF RunInv, OneOperator
<1> QED
  BY <1>9, <1>10

\* What a read changes: nothing but what the command holds.
LEMMA ReadStep ==
  ASSUME OneOperator, RunInv, NEW p \in Proc,
         NEW c \in Command, c.run = cmd[p].run, c.node = cmd[p].node, c.gate = cmd[p].gate,
         c.copy = cmd[p].copy, NEW w \in {"read_active", "read_roadmap"}, Do(p, w), Keep(p, c),
         UNCHANGED <<created, run, roadmap, active, behind, replay, kills, cut>>,
         c.active = IF w = "read_active" THEN active ELSE cmd[p].active,
         c.roadmap = IF w = "read_roadmap" THEN roadmap ELSE cmd[p].roadmap
  PROVE  RunInv'
<1> DEFINE t == Tail(todo[p])
           r == cmd[p].run
<1>1. todo[p] # <<>> /\ Head(todo[p]) = w /\ todo' = [todo EXCEPT ![p] = t]
  BY DEF Do
<1>2. Head(todo[p]) \notin ReconcileWrites
  BY <1>1 DEF ReconcileWrites
<1>3. /\ CommandInv(p) /\ (~cut => WillAgree(p))
      /\ todo[p] \in Seq(Write) /\ r \in created /\ r \in Run
  BY <1>1, <1>2, UnderWay
<1>4. \A v : v # w => (Has(t, v) <=> Has(todo[p], v))
  BY <1>1, <1>3, HasTail
<1>5. Same(run[r], cmd[p].copy) \/ WritesFirst(t)
  BY <1>1, <1>3, WritesFirstTail DEF CommandInv
<1>6. Sound(c.copy) /\ (run[r].node[LastNode] \in Done => c.copy.node[LastNode] \in Done)
      /\ Same(c.copy, cmd[p].copy)
  BY <1>3 DEF CommandInv, Same
<1>7. /\ Has(t, "write_active") /\ ~Has(t, "read_active") => c.active = active
      /\ Has(t, "write_roadmap") /\ ~Has(t, "read_roadmap") => c.roadmap = roadmap
  BY <1>3, <1>4 DEF CommandInv
<1>8. /\ ActiveAfter(t, r, active) = ActiveToBe(p)
      /\ RoadmapAfter(t, r, c.gate, roadmap) = RoadmapToBe(p)
  BY <1>4 DEF ActiveToBe, ActiveAfter, RoadmapToBe, RoadmapAfter
<1>9. ~cut => /\ \A q \in replay.active \ ActiveToBe(p) :
                   q = r /\ (Has(t, "halted") \/ Has(t, "closed"))
              /\ \A q \in ActiveToBe(p) \ replay.active : run[q].node[LastNode] \in Done
  BY <1>3, <1>4 DEF WillAgree
<1>10. TypeOK /\ FilesInv
  BY DEF RunInv
<1>11. FilesInv'
  BY <1>10 DEF FilesInv, Sound, All
<1> HIDE DEF t, r
<1>12. t = Tail(todo[p]) /\ r = cmd[p].run
  BY DEF t, r
<1>13. FilesTyped
  BY <1>10 DEF TypeOK, FilesTyped
<1>14. WriteMade(p, t, r, c)
  BY <1>5, <1>6, <1>7, <1>8, <1>9 DEF Same, WriteMade
<1>15. Do(p, w) /\ w \notin ReconcileWrites
  BY <1>1, <1>2
<1> QED
  BY <1>6, <1>11, <1>12, <1>13, <1>14, <1>15, GoesOn

LEMMA WriteActiveStep ==
  ASSUME OneOperator, RunInv, NEW p \in Proc, WriteActive(p)
  PROVE  RunInv'
<1> DEFINE t == Tail(todo[p])
           r == cmd[p].run
           c == [cmd[p] EXCEPT !.active = {}]
           w == "write_active"
<1>1. /\ Do(p, w) /\ todo[p] # <<>> /\ Head(todo[p]) = w /\ w \notin ReconcileWrites
      /\ active' = cmd[p].active \ {r} /\ Keep(p, c)
      /\ UNCHANGED <<created, run, roadmap, behind, replay, kills, cut>>
  BY DEF WriteActive, Do, ReconcileWrites
<1>2. /\ CommandInv(p) /\ (~cut => WillAgree(p)) /\ cmd[p] \in Command
      /\ todo[p] \in Seq(Write) /\ r \in created /\ r \in Run
  BY <1>1, UnderWay
<1>3. TypeOK /\ FilesInv /\ created \subseteq Run
  BY DEF RunInv, TypeOK
<1>4. /\ c \in Command /\ c.run = r /\ c.node = cmd[p].node /\ c.gate = cmd[p].gate
      /\ c.copy = cmd[p].copy /\ c.roadmap = cmd[p].roadmap
  BY <1>2 DEF Command
<1> HIDE DEF c
<1>5. \A v : v # w => (Has(t, v) <=> Has(todo[p], v))
  BY <1>1, <1>2, HasTail
<1>6. Has(todo[p], w) /\ ~Has(todo[p], "read_active") /\ ~Has(t, w)
  <2>1. Once(todo[p], "read_active", w)
    BY <1>2 DEF CommandInv, Script
  <2> QED
    BY <1>1, <1>2, <2>1, OnceTail, HasTail
<1>7. active' = active \ {r}
  BY <1>1, <1>2, <1>6 DEF CommandInv
<1>8. FilesInv'
  BY <1>1, <1>3, <1>7 DEF FilesInv, Sound, All
<1>9. FilesTyped
  BY <1>1, <1>3, <1>7 DEF TypeOK, FilesTyped
<1>10. Sound(c.copy) /\ Same(c.copy, cmd[p].copy)
  BY <1>2, <1>4 DEF CommandInv, Same
<1>11. WriteMade(p, t, r, c)
  <2>1. Same(run'[r], c.copy) \/ WritesFirst(t)
    BY <1>1, <1>2, <1>4, WritesFirstTail DEF CommandInv
  <2>2. run'[r].node[LastNode] \in Done => c.copy.node[LastNode] \in Done
    BY <1>1, <1>2, <1>4 DEF CommandInv
  <2>3. Has(t, "write_roadmap") /\ ~Has(t, "read_roadmap") => c.roadmap = roadmap'
    BY <1>1, <1>2, <1>4, <1>5 DEF CommandInv
  <2>4. /\ ActiveAfter(t, r, active') = ActiveToBe(p)
        /\ RoadmapAfter(t, r, c.gate, roadmap') = RoadmapToBe(p)
    BY <1>1, <1>4, <1>5, <1>6, <1>7 DEF ActiveToBe, ActiveAfter, RoadmapToBe, RoadmapAfter
  <2>5. ~cut => /\ \A q \in replay.active \ ActiveToBe(p) :
                     q = r /\ (Has(t, "halted") \/ Has(t, "closed"))
                /\ \A q \in ActiveToBe(p) \ replay.active : run[q].node[LastNode] \in Done
    BY <1>2, <1>5 DEF WillAgree
  <2> QED
    BY <1>1, <1>6, <2>1, <2>2, <2>3, <2>4, <2>5 DEF WriteMade
<1> HIDE DEF t, r
<1>12. t = Tail(todo[p]) /\ r = cmd[p].run
  BY DEF t, r
<1> QED
  BY <1>1, <1>4, <1>8, <1>9, <1>10, <1>11, <1>12, GoesOn

LEMMA WriteRoadmapStep ==
  ASSUME OneOperator, RunInv, NEW p \in Proc, WriteRoadmap(p)
  PROVE  RunInv'
<1> DEFINE t == Tail(todo[p])
           r == cmd[p].run
           c == [cmd[p] EXCEPT !.roadmap = Idle.roadmap]
           w == "write_roadmap"
           s == IF cmd[p].gate = "HALT" THEN "blocked" ELSE "done"
<1>1. /\ Do(p, w) /\ todo[p] # <<>> /\ Head(todo[p]) = w /\ w \notin ReconcileWrites
      /\ roadmap' = [cmd[p].roadmap EXCEPT ![r] = s] /\ Keep(p, c)
      /\ UNCHANGED <<created, run, active, behind, replay, kills, cut>>
  BY DEF WriteRoadmap, Do, ReconcileWrites
<1>2. /\ CommandInv(p) /\ (~cut => WillAgree(p)) /\ cmd[p] \in Command
      /\ todo[p] \in Seq(Write) /\ r \in created /\ r \in Run
  BY <1>1, UnderWay
<1>3. TypeOK /\ FilesInv
  BY DEF RunInv
<1>4. /\ c \in Command /\ c.run = r /\ c.node = cmd[p].node /\ c.gate = cmd[p].gate
      /\ c.copy = cmd[p].copy /\ c.active = cmd[p].active
  BY <1>2, IdleIs DEF Command
<1> HIDE DEF c
<1>5. \A v : v # w => (Has(t, v) <=> Has(todo[p], v))
  BY <1>1, <1>2, HasTail
<1>6. Has(todo[p], w) /\ ~Has(todo[p], "read_roadmap") /\ ~Has(t, w)
  <2>1. Once(todo[p], "read_roadmap", w)
    BY <1>2 DEF CommandInv, Script
  <2> QED
    BY <1>1, <1>2, <2>1, OnceTail, HasTail
<1>7. roadmap' = [roadmap EXCEPT ![r] = s]
  BY <1>1, <1>2, <1>6 DEF CommandInv
<1>8. FilesInv'
  BY <1>1, <1>3 DEF FilesInv, Sound, All
<1>9. FilesTyped
  BY <1>1, <1>3, <1>7 DEF TypeOK, FilesTyped
<1>10. Sound(c.copy) /\ Same(c.copy, cmd[p].copy)
  BY <1>2, <1>4 DEF CommandInv, Same
<1>11. WriteMade(p, t, r, c)
  <2>1. Same(run'[r], c.copy) \/ WritesFirst(t)
    BY <1>1, <1>2, <1>4, WritesFirstTail DEF CommandInv
  <2>2. run'[r].node[LastNode] \in Done => c.copy.node[LastNode] \in Done
    BY <1>1, <1>2, <1>4 DEF CommandInv
  <2>3. Has(t, "write_active") /\ ~Has(t, "read_active") => c.active = active'
    BY <1>1, <1>2, <1>4, <1>5 DEF CommandInv
  <2>4. /\ ActiveAfter(t, r, active') = ActiveToBe(p)
        /\ RoadmapAfter(t, r, c.gate, roadmap') = RoadmapToBe(p)
    BY <1>1, <1>4, <1>5, <1>6, <1>7 DEF ActiveToBe, ActiveAfter, RoadmapToBe, RoadmapAfter
  <2>5. ~cut => /\ \A q \in replay.active \ ActiveToBe(p) :
                     q = r /\ (Has(t, "halted") \/ Has(t, "closed"))
                /\ \A q \in ActiveToBe(p) \ replay.active : run[q].node[LastNode] \in Done
    BY <1>2, <1>5 DEF WillAgree
  <2> QED
    BY <1>1, <1>6, <2>1, <2>2, <2>3, <2>4, <2>5 DEF WriteMade
<1> HIDE DEF t, r
<1>12. t = Tail(todo[p]) /\ r = cmd[p].run
  BY DEF t, r
<1> QED
  BY <1>1, <1>4, <1>8, <1>9, <1>10, <1>11, <1>12, GoesOn

LEMMA WriteRunStep ==
  ASSUME OneOperator, RunInv, NEW p \in Proc, WriteRun(p)
  PROVE  RunInv'
<1> DEFINE t == Tail(todo[p])
           r == cmd[p].run
           c == cmd[p]
           f == c.copy
           w == "write_run"
<1>1. /\ Do(p, w) /\ todo[p] # <<>> /\ Head(todo[p]) = w /\ w \notin ReconcileWrites
      /\ run' = [run EXCEPT ![r] = f] /\ Keep(p, c)
      /\ UNCHANGED <<created, roadmap, active, behind, replay, kills, cut>>
  BY DEF WriteRun, Do, ReconcileWrites
<1>2. /\ CommandInv(p) /\ (~cut => WillAgree(p)) /\ c \in Command /\ f \in RunFile
      /\ todo[p] \in Seq(Write) /\ r \in created /\ r \in Run
  BY <1>1, UnderWay
<1>3. TypeOK /\ FilesInv
  BY DEF RunInv
<1>4. \A v : v # w => (Has(t, v) <=> Has(todo[p], v))
  BY <1>1, <1>2, HasTail
<1>5. Sound(f) /\ Same(f, cmd[p].copy)
      /\ (run[r].node[LastNode] \in Done => f.node[LastNode] \in Done)
  BY <1>2 DEF CommandInv, Same
<1>6. /\ FilesInv'
      /\ run' \in [Run -> RunFile]
      /\ run'[r] = f /\ \A q \in Run \ {r} : run'[q] = run[q]
      /\ \A q \in Run : run[q].node[LastNode] \in Done => run'[q].node[LastNode] \in Done
  <2>1. /\ created' = created /\ active' \subseteq created
        /\ \A q \in replay'.learned : q \in replay.learned
    BY <1>1, <1>3 DEF FilesInv
  <2> HIDE DEF f, r
  <2> QED
    BY <1>1, <1>2, <1>5, <2>1, FileReplaced
<1>7. FilesTyped
  BY <1>1, <1>3, <1>6 DEF TypeOK, FilesTyped
<1>8. WriteMade(p, t, r, c)
  <2>1. Same(run'[r], c.copy)
    BY <1>6 DEF Same
  <2>2. /\ Has(t, "write_active") /\ ~Has(t, "read_active") => c.active = active'
        /\ Has(t, "write_roadmap") /\ ~Has(t, "read_roadmap") => c.roadmap = roadmap'
    BY <1>1, <1>2, <1>4 DEF CommandInv
  <2>3. /\ ActiveAfter(t, r, active') = ActiveToBe(p)
        /\ RoadmapAfter(t, r, c.gate, roadmap') = RoadmapToBe(p)
    BY <1>1, <1>4 DEF ActiveToBe, ActiveAfter, RoadmapToBe, RoadmapAfter
  <2>4. ASSUME ~cut
        PROVE  /\ \A q \in replay.active \ ActiveToBe(p) :
                    q = r /\ (Has(t, "halted") \/ Has(t, "closed"))
               /\ \A q \in ActiveToBe(p) \ replay.active : run'[q].node[LastNode] \in Done
    <3>1. WillAgree(p) /\ ActiveToBe(p) \subseteq Run
      BY <1>2, <1>3, <2>4 DEF WillAgree, TypeOK
    <3> QED
      BY <1>4, <1>6, <3>1 DEF WillAgree
  <2> QED
    BY <1>1, <1>6, <2>1, <2>2, <2>3, <2>4 DEF WriteMade
<1> HIDE DEF t, r, c
<1>9. /\ t = Tail(todo[p]) /\ r = cmd[p].run /\ c \in Command /\ c.run = r
      /\ c.node = cmd[p].node /\ c.gate = cmd[p].gate
      /\ Same(c.copy, cmd[p].copy) /\ Sound(c.copy)
  BY <1>2, <1>5 DEF t, r, c
<1> QED
  BY <1>1, <1>6, <1>7, <1>8, <1>9, GoesOn

\* What an event does to the log, of the run that p's command is about.
LEMMA EventTold ==
  ASSUME RunInv, NEW p \in Proc, todo[p] # <<>>, Head(todo[p]) \in Event \ {"reconciled"}
  PROVE  LET x == Appended(p)
             r == cmd[p].run
         IN /\ x \in Replay
            /\ Same(run[r], cmd[p].copy)
            /\ \A q \in x.learned : q \in replay.learned \/ (q = r /\ run[r].node[LastNode] \in Done)
            /\ x.active \in {replay.active, replay.active \ {r}}
            /\ Head(todo[p]) \in {"halted", "closed"} => x.active = replay.active \ {r} /\ Over(run[r])
            /\ x.active # replay.active => Over(run[r]) \/ run[r].node[LastNode] \in Done
<1> DEFINE x == Appended(p)
           r == cmd[p].run
           w == Head(todo[p])
           n == cmd[p].node
           gate == cmd[p].gate
<1>1. w \notin ReconcileWrites
  BY DEF Event, ReconcileWrites
<1>2. /\ CommandInv(p) /\ cmd[p] \in Command /\ r \in Run /\ replay \in Replay /\ n \in Node
      /\ FilesInv /\ todo[p] \in Seq(Write) /\ Has(todo[p], w) /\ LastNode \in Node
  <2>1. TypeOK /\ FilesInv
    BY DEF RunInv
  <2> QED
    BY <1>1, <2>1, UnderWay, HasTail, Types DEF Command
<1>3. Same(run[r], cmd[p].copy)
  BY <1>2, WritesFirstTail DEF CommandInv, Event
<1>4. /\ w = "completed" /\ Learns(n, gate) => run[r].node[LastNode] \in Done
      /\ w = "halted" => Over(run[r])
      /\ w = "closed" => Over(run[r]) /\ run[r].node[LastNode] \in Done
  <2>1. Script(todo[p], cmd[p].copy, n, gate) /\ Sound(cmd[p].copy) /\ run[r].node = cmd[p].copy.node
    BY <1>2, <1>3 DEF CommandInv, Same
  <2> QED
    BY <1>2, <2>1 DEF Script, Sound, Over, Halted, All, Done, Learns
<1>5. CASE w = "completed"
  <2>1. x = EventCompleted(replay, r, n, gate)
    BY <1>5 DEF Appended
  <2> HIDE DEF x, r, n, gate
  <2>2. /\ x \in Replay
        /\ x.active \in {replay.active, replay.active \ {r}}
        /\ x.active # replay.active => Learns(n, gate)
        /\ x.learned = IF Learns(n, gate) THEN replay.learned \cup {r} ELSE replay.learned
    BY <1>2, <2>1, CompletedEvent
  <2> QED
    BY <1>3, <1>4, <1>5, <2>2 DEF x, r
<1>6. CASE w = "carry"
  <2>1. x = EventCarryHandled(replay, r, n)
    BY <1>6 DEF Appended
  <2> HIDE DEF x, r, n
  <2>2. /\ x \in Replay
        /\ x.active \in {replay.active, replay.active \ {r}}
        /\ x.active # replay.active => r \in replay.learned
        /\ x.learned = replay.learned
    BY <1>2, <2>1, CarryEvent
  <2>3. r \in replay.learned => run[r].node[LastNode] \in Done
    BY <1>2 DEF FilesInv
  <2> QED
    BY <1>3, <1>6, <2>2, <2>3 DEF x, r
<1>7. CASE w = "halted"
  <2>1. x = EventHalted(replay, r)
    BY <1>7 DEF Appended
  <2> HIDE DEF x, r
  <2>2. /\ x \in Replay /\ x.active = replay.active \ {r}
        /\ x.learned = replay.learned \ {r}
    BY <1>2, <2>1, HaltedEvent
  <2> QED
    BY <1>3, <1>4, <1>7, <2>2 DEF x, r
<1>8. CASE w = "closed"
  <2>1. x = EventClosed(replay, r)
    BY <1>8 DEF Appended
  <2> HIDE DEF x, r
  <2>2. /\ x \in Replay /\ x.active = replay.active \ {r}
        /\ x.learned = replay.learned \cup {r}
    BY <1>2, <2>1, ClosedEvent
  <2> QED
    BY <1>3, <1>4, <1>8, <2>2 DEF x, r
<1> QED
  BY <1>5, <1>6, <1>7, <1>8 DEF Event

LEMMA AppendEventStep ==
  ASSUME OneOperator, RunInv, NEW p \in Proc, AppendEvent(p)
  PROVE  RunInv'
<1> DEFINE t == Tail(todo[p])
           r == cmd[p].run
           w == Head(todo[p])
           x == Appended(p)
           c == IF w = "closed" THEN [cmd[p] EXCEPT !.copy.closed = TRUE] ELSE cmd[p]
<1>1. /\ Do(p, w) /\ todo[p] # <<>> /\ w \notin ReconcileWrites /\ w \in Event \ {"reconciled"}
      /\ replay' = x /\ behind' = FALSE /\ Keep(p, c)
      /\ UNCHANGED <<created, run, roadmap, active, kills, cut>>
  BY DEF AppendEvent, Do, ReconcileWrites, Event
<1>2. /\ CommandInv(p) /\ (~cut => WillAgree(p)) /\ cmd[p] \in Command
      /\ cmd[p].copy \in RunFile
      /\ todo[p] \in Seq(Write) /\ r \in created /\ r \in Run
  BY <1>1, UnderWay
<1>3. TypeOK /\ FilesInv
  BY DEF RunInv
<1>4. /\ x \in Replay
      /\ Same(run[r], cmd[p].copy)
      /\ \A q \in x.learned : q \in replay.learned \/ (q = r /\ run[r].node[LastNode] \in Done)
      /\ x.active \in {replay.active, replay.active \ {r}}
      /\ w \in {"halted", "closed"} => x.active = replay.active \ {r} /\ Over(run[r])
      /\ x.active # replay.active => Over(run[r]) \/ run[r].node[LastNode] \in Done
  BY <1>1, EventTold
<1> HIDE DEF x
<1>5. Has(todo[p], w) /\ \A v : v # w => (Has(t, v) <=> Has(todo[p], v))
  BY <1>1, <1>2, HasTail
<1>6. /\ c \in Command /\ c.run = r /\ c.node = cmd[p].node /\ c.gate = cmd[p].gate
      /\ c.active = cmd[p].active /\ c.roadmap = cmd[p].roadmap
      /\ Same(c.copy, cmd[p].copy) /\ Sound(c.copy)
  <2>1. CASE w = "closed"
    <3>1. /\ cmd[p].copy.status = "done" /\ Sound(cmd[p].copy)
          /\ \A n \in Node : cmd[p].copy.carry[n] # "open"
      BY <1>2, <1>5, <2>1 DEF CommandInv, Script
    <3> DEFINE b == cmd[p].copy
               f == [b EXCEPT !.closed = TRUE]
    <3>2. /\ f \in RunFile /\ f.closed = TRUE
          /\ f.node = b.node /\ f.carry = b.carry /\ f.status = b.status
      BY <1>2, ClosedWritten
    <3>3. /\ c \in Command /\ c.run = r /\ c.node = cmd[p].node /\ c.gate = cmd[p].gate
          /\ c.active = cmd[p].active /\ c.roadmap = cmd[p].roadmap /\ c.copy = f
      <4>1. c = [cmd[p] EXCEPT !.copy = f]
        BY <1>2, <2>1 DEF Command
      <4> HIDE DEF c, f
      <4> QED
        BY <1>2, <3>2, <4>1 DEF Command
    <3> HIDE DEF c, f
    <3>4. Sound(f)
      BY <3>1, <3>2 DEF Sound, All
    <3> QED
      BY <3>2, <3>3, <3>4 DEF Same
  <2>2. CASE w # "closed"
    BY <1>2, <2>2 DEF CommandInv, Same
  <2> QED
    BY <2>1, <2>2
<1> HIDE DEF c
<1>7. FilesInv'
  BY <1>1, <1>3, <1>4 DEF FilesInv, Sound, All
<1>8. FilesTyped
  BY <1>1, <1>3, <1>4 DEF TypeOK, FilesTyped
<1>9. WriteMade(p, t, r, c)
  <2>1. Same(run'[r], c.copy)
    BY <1>1, <1>4, <1>6 DEF Same
  <2>2. /\ Has(t, "write_active") /\ ~Has(t, "read_active") => c.active = active'
        /\ Has(t, "write_roadmap") /\ ~Has(t, "read_roadmap") => c.roadmap = roadmap'
    BY <1>1, <1>2, <1>5, <1>6 DEF CommandInv, Event
  <2>3. /\ ActiveAfter(t, r, active') = ActiveToBe(p)
        /\ RoadmapAfter(t, r, c.gate, roadmap') = RoadmapToBe(p)
    BY <1>1, <1>5, <1>6 DEF ActiveToBe, ActiveAfter, RoadmapToBe, RoadmapAfter, Event
  <2>4. ASSUME ~cut
        PROVE  /\ \A q \in x.active \ ActiveToBe(p) :
                    q = r /\ (Has(t, "halted") \/ Has(t, "closed"))
               /\ \A q \in ActiveToBe(p) \ x.active : run[q].node[LastNode] \in Done
    <3>1. /\ WillAgree(p)
          /\ RunToBe(p)[r].node = run[r].node /\ RunToBe(p)[r].carry = run[r].carry
      BY <1>1, <1>2, <1>3, <1>4, <2>4 DEF RunToBe, Same, TypeOK
    <3>2. Over(run[r]) => r \notin ActiveToBe(p) \/ run[r].node[LastNode] \in Done
      <4>1. LastNode \in Node
        BY <1>3, Types
      <4>2. Owing(run[r]) => run[r].node[LastNode] \in Done
        BY <4>1 DEF Owing, All, Done
      <4> QED
        BY <1>2, <3>1, <4>2, OfNodes DEF WillAgree
    <3> QED
      BY <1>4, <1>5, <3>1, <3>2 DEF WillAgree
  <2> QED
    BY <1>1, <2>1, <2>2, <2>3, <2>4, <1>2, <1>6 DEF WriteMade, Same
<1> HIDE DEF t, r, w
<1>10. t = Tail(todo[p]) /\ r = cmd[p].run
  BY DEF t, r
<1> QED
  BY <1>1, <1>6, <1>7, <1>8, <1>9, <1>10, GoesOn

-----------------------------------------------------------------------------
(* reconcile.                                                               *)

LEMMA ReconcileLists ==
  LET one == <<"derive", "fix_runs", "reconciled">>
      two == <<"fix_runs", "reconciled">>
      three == <<"reconciled">>
  IN /\ one \in Seq(Write) /\ two \in Seq(Write) /\ three \in Seq(Write)
     /\ one # <<>> /\ two # <<>> /\ three # <<>>
     /\ Head(one) = "derive" /\ Head(two) = "fix_runs" /\ Head(three) = "reconciled"
     /\ one # two /\ one # three /\ two # three
     /\ Tail(one) = two /\ Tail(two) = three /\ Tail(three) = <<>> /\ Len(three) = 1
<1> DEFINE one == <<"derive", "fix_runs", "reconciled">>
           two == <<"fix_runs", "reconciled">>
           three == <<"reconciled">>
<1>1. one \in Seq(Write) /\ two \in Seq(Write) /\ three \in Seq(Write)
  BY DEF Write
<1>2. Head(one) = "derive" /\ Head(two) = "fix_runs" /\ Head(three) = "reconciled"
  OBVIOUS
<1>3. Tail(one) = two /\ Tail(two) = three /\ Tail(three) = <<>> /\ Len(three) = 1
  OBVIOUS
<1>4. one # <<>> /\ two # <<>> /\ three # <<>>
  OBVIOUS
<1> HIDE DEF one, two, three
<1>5. one # two /\ one # three /\ two # three
  BY <1>2
<1> QED
  BY <1>1, <1>2, <1>3, <1>4, <1>5 DEF one, two, three

LEMMA Reconciling ==
  ASSUME RunInv, NEW p \in Proc, todo[p] # <<>>, Head(todo[p]) \in ReconcileWrites
  PROVE  /\ Reconciles(p) /\ ReconcileInv(p)
         /\ Head(todo[p]) = "derive" => todo[p] = <<"derive", "fix_runs", "reconciled">>
         /\ Head(todo[p]) = "fix_runs" => todo[p] = <<"fix_runs", "reconciled">>
         /\ Head(todo[p]) = "reconciled" => todo[p] = <<"reconciled">>
<1>1. todo[p] \in Seq(Write)
  BY DEF RunInv, TypeOK
<1>2. Head(todo[p]) = todo[p][1] /\ 1 \in DOMAIN todo[p]
  BY <1>1, TailIs
<1>3. Reconciles(p)
  BY <1>2 DEF RunInv, OperatorInv, CommandInv, Script
<1>4. ReconcileInv(p)
  BY <1>3 DEF RunInv, OperatorInv
<1> QED
  BY <1>3, <1>4, ReconcileLists DEF Reconciles

\* What reconcile derives from sound run files is where their nodes stand.
LEMMA DerivedIs ==
  ASSUME TypeOK, FilesInv
  PROVE  /\ DerivedActive = {r \in created : ~Over(run[r])}
         /\ \A r \in Run : DerivedRoadmap(run[r]) = Place(run[r])
<1>1. \A r \in Run : run[r] \in RunFile /\ Sound(run[r])
  BY DEF TypeOK, FilesInv
<1>2. \A r \in Run : (Finished(run[r]) <=> Over(run[r])) /\ DerivedRoadmap(run[r]) = Place(run[r])
  BY <1>1, DerivedIsPlace
<1> QED
  BY <1>2 DEF DerivedActive, TypeOK

\* An operator that goes on reconciling.
LEMMA KeepsReconciling ==
  ASSUME OneOperator, NEW p \in Proc, TypeOK', FilesInv', Reconciles(p)', ReconcileInv(p)'
  PROVE  RunInv'
<1>1. (todo[p])' # <<>>
  BY ReconcileLists DEF Reconciles
<1>2. OperatorInv(p)'
  BY <1>1 DEF OperatorInv
<1> QED
  BY <1>2 DEF RunInv, OneOperator

LEMMA ReconcileStep ==
  ASSUME OneOperator, RunInv, NEW p \in Proc, Reconcile(p)
  PROVE  RunInv'
<1> DEFINE c == [Idle EXCEPT !.active = DerivedActive, !.left = created]
           t == <<"derive", "fix_runs", "reconciled">>
<1>1. /\ todo' = [todo EXCEPT ![p] = t] /\ cmd' = [cmd EXCEPT ![p] = c]
      /\ UNCHANGED <<created, run, roadmap, active, behind, replay, kills, cut>>
  BY DEF Reconcile
<1>2. TypeOK /\ FilesInv /\ DerivedActive \subseteq created /\ created \subseteq Run
  BY DEF RunInv, TypeOK, DerivedActive
<1>3. c \in Command /\ c.active = DerivedActive /\ c.left = created
  BY <1>2, IdleIs DEF Command
<1>4. t \in Seq(Write)
  BY ReconcileLists
<1> HIDE DEF c, t
<1>5. todo'[p] = t /\ cmd'[p] = c
  BY <1>1, <1>2 DEF TypeOK
<1>6. TypeOK'
  BY <1>1, <1>2, <1>3, <1>4 DEF TypeOK
<1>7. FilesInv'
  BY <1>1, <1>2 DEF FilesInv, Sound, All
<1>8. Reconciles(p)'
  BY <1>5 DEF Reconciles, t
<1>9. DerivedActive' = DerivedActive
  BY <1>1 DEF DerivedActive
<1>10. ReconcileInv(p)'
  <2>1. t # <<"reconciled">>
    BY ReconcileLists DEF t
  <2> QED
    BY <1>1, <1>3, <1>5, <1>9, <2>1 DEF ReconcileInv, t
<1> QED
  BY <1>6, <1>7, <1>8, <1>10, KeepsReconciling

LEMMA DeriveStep ==
  ASSUME OneOperator, RunInv, NEW p \in Proc, Derive(p)
  PROVE  RunInv'
<1> DEFINE t == <<"fix_runs", "reconciled">>
<1>1. /\ todo[p] # <<>> /\ Head(todo[p]) = "derive" /\ todo' = [todo EXCEPT ![p] = Tail(todo[p])]
      /\ active' = cmd[p].active /\ behind' = FALSE
      /\ UNCHANGED <<created, run, roadmap, replay, cmd, kills, cut>>
  BY DEF Derive, Do
<1>2. ReconcileInv(p) /\ todo[p] = <<"derive", "fix_runs", "reconciled">>
  BY <1>1, Reconciling DEF ReconcileWrites
<1>3. TypeOK /\ FilesInv /\ DerivedActive \subseteq created /\ created \subseteq Run
  BY DEF RunInv, TypeOK, DerivedActive
<1>4. Tail(todo[p]) = t /\ t \in Seq(Write) /\ t # <<"reconciled">>
  BY <1>2, ReconcileLists
<1> HIDE DEF t
<1>5. todo'[p] = t
  BY <1>1, <1>3, <1>4 DEF TypeOK
<1>6. active' = DerivedActive /\ DerivedActive' = DerivedActive
  BY <1>1, <1>2 DEF ReconcileInv, DerivedActive
<1>7. TypeOK'
  BY <1>1, <1>3, <1>4, <1>6 DEF TypeOK
<1>8. FilesInv'
  BY <1>1, <1>3, <1>6 DEF FilesInv, Sound, All
<1>9. Reconciles(p)'
  BY <1>5 DEF Reconciles, t
<1>10. ReconcileInv(p)'
  BY <1>1, <1>2, <1>4, <1>5, <1>6 DEF ReconcileInv, ActiveAgrees
<1> QED
  BY <1>7, <1>8, <1>9, <1>10, KeepsReconciling

LEMMA FixRunStep ==
  ASSUME OneOperator, RunInv, NEW p \in Proc, FixRun(p)
  PROVE  RunInv'
<1>1. PICK r \in cmd[p].left :
        /\ todo[p] # <<>> /\ Head(todo[p]) = "fix_runs"
        /\ run' = [run EXCEPT ![r] = Repaired(@)]
        /\ cmd' = [cmd EXCEPT ![p].left = @ \ {r}]
        /\ UNCHANGED <<created, roadmap, active, behind, replay, todo, kills, cut>>
  BY DEF FixRun
<1>2. /\ Reconciles(p) /\ ReconcileInv(p) /\ todo[p] = <<"fix_runs", "reconciled">>
      /\ r \in created
  <2>1. Reconciles(p) /\ ReconcileInv(p) /\ todo[p] = <<"fix_runs", "reconciled">>
    BY <1>1, Reconciling DEF ReconcileWrites
  <2> QED
    BY <1>1, <2>1 DEF ReconcileInv
<1>3. TypeOK /\ FilesInv /\ created \subseteq Run /\ cmd[p] \in Command
  BY DEF RunInv, TypeOK
<1> DEFINE f == run[r]
           g == Repaired(f)
<1>4. f \in RunFile /\ Sound(f) /\ run' = [run EXCEPT ![r] = g]
  BY <1>1, <1>2, <1>3 DEF TypeOK, FilesInv
<1>5. g \in RunFile /\ Sound(g) /\ g.node = f.node /\ Repaired(g) = g
  BY <1>4, RepairedIs
<1> HIDE DEF g
<1>6. /\ FilesInv' /\ run' \in [Run -> RunFile]
      /\ run'[r] = g /\ \A q \in Run \ {r} : run'[q] = run[q]
  <2>1. /\ created' = created /\ active' \subseteq created
        /\ \A q \in replay'.learned : q \in replay.learned
        /\ run[r].node[LastNode] \in Done => g.node[LastNode] \in Done
    BY <1>1, <1>3, <1>5 DEF FilesInv
  <2> QED
    BY <1>2, <1>4, <1>5, <2>1, FileReplaced
<1> DEFINE c == [cmd[p] EXCEPT !.left = @ \ {r}]
<1>7. c \in Command /\ c.active = cmd[p].active /\ c.left = cmd[p].left \ {r}
  BY <1>3 DEF Command
<1>8. cmd' = [cmd EXCEPT ![p] = c]
  BY <1>1, <1>3 DEF TypeOK
<1> HIDE DEF c
<1>9. cmd'[p] = c /\ todo'[p] = todo[p]
  BY <1>1, <1>3, <1>8 DEF TypeOK
<1>10. TypeOK'
  BY <1>1, <1>3, <1>6, <1>7, <1>8 DEF TypeOK
<1>11. DerivedActive' = DerivedActive
  <2>1. \A q \in Run : /\ run[q] \in RunFile /\ Sound(run[q])
                       /\ run'[q] \in RunFile /\ Sound(run'[q])
                       /\ run'[q].node = run[q].node
    BY <1>3, <1>5, <1>6 DEF TypeOK, FilesInv
  <2>2. \A q \in Run : (Finished(run[q]) <=> Over(run[q])) /\ (Finished(run'[q]) <=> Over(run'[q]))
                       /\ (Over(run'[q]) <=> Over(run[q]))
    BY <2>1, DerivedIsPlace, OfNodes
  <2> QED
    BY <1>1, <1>3, <2>2 DEF DerivedActive
<1>12. Reconciles(p)'
  BY <1>2, <1>9 DEF Reconciles
<1>13. ReconcileInv(p)'
  <2>1. \A q \in created \ c.left : Repaired(run'[q]) = run'[q]
    BY <1>2, <1>3, <1>5, <1>6, <1>7 DEF ReconcileInv
  <2>2. <<"fix_runs", "reconciled">> # <<"reconciled">>
    BY ReconcileLists
  <2> QED
    BY <1>1, <1>2, <1>7, <1>9, <1>11, <2>1, <2>2, ReconcileLists DEF ReconcileInv, ActiveAgrees
<1> QED
  BY <1>6, <1>10, <1>12, <1>13, KeepsReconciling

LEMMA FixRoadmapStep ==
  ASSUME OneOperator, RunInv, NEW p \in Proc, FixRoadmap(p)
  PROVE  RunInv'
<1> DEFINE t == <<"reconciled">>
<1>1. /\ todo[p] # <<>> /\ Head(todo[p]) = "fix_runs" /\ cmd[p].left = {}
      /\ roadmap' = [r \in Run |-> IF r \in created THEN DerivedRoadmap(run[r]) ELSE roadmap[r]]
      /\ todo' = [todo EXCEPT ![p] = t]
      /\ UNCHANGED <<created, run, active, behind, replay, cmd, kills, cut>>
  BY DEF FixRoadmap
<1>2. ReconcileInv(p) /\ todo[p] = <<"fix_runs", "reconciled">>
  BY <1>1, Reconciling DEF ReconcileWrites
<1>3. TypeOK /\ FilesInv /\ created \subseteq Run
  BY DEF RunInv, TypeOK
<1>4. t \in Seq(Write)
  BY ReconcileLists
<1> HIDE DEF t
<1>5. todo'[p] = t
  BY <1>1, <1>3 DEF TypeOK
<1>6. \A r \in Run : DerivedRoadmap(run[r]) \in {"active", "done", "blocked"}
  BY DEF DerivedRoadmap
<1>7. TypeOK'
  <2>1. roadmap' \in [Run -> {"ready", "active", "done", "blocked"}]
    BY <1>1, <1>3, <1>6 DEF TypeOK
  <2> QED
    BY <1>1, <1>3, <1>4, <2>1 DEF TypeOK
<1>8. FilesInv'
  BY <1>1, <1>3 DEF FilesInv, Sound, All
<1>9. Reconciles(p)'
  BY <1>5 DEF Reconciles, t
<1>10. ReconcileInv(p)'
  <2>1. ActiveAgrees /\ ~behind
    BY <1>2, ReconcileLists DEF ReconcileInv
  <2>2. RoadmapAgrees'
    BY <1>1, <1>3 DEF RoadmapAgrees
  <2>3. ActiveAgrees' /\ DerivedActive' = DerivedActive
    BY <1>1, <2>1 DEF ActiveAgrees, DerivedActive
  <2> QED
    BY <1>1, <1>2, <2>1, <2>2, <2>3 DEF ReconcileInv
<1> QED
  BY <1>7, <1>8, <1>9, <1>10, KeepsReconciling

\* With the event at its end, reconcile has made everything agree.
LEMMA ReconcileEnds ==
  ASSUME OneOperator, RunInv, NEW p \in Proc, EndReconcile(p)
  PROVE  /\ RunInv'
         /\ (ActiveAgrees /\ RoadmapAgrees /\ ReplayAgrees /\ RunFilesAgree /\ ~behind)'
<1>1. /\ todo[p] # <<>> /\ Head(todo[p]) = "reconciled" /\ todo' = [todo EXCEPT ![p] = Tail(todo[p])]
      /\ replay' = Appended(p) /\ behind' = FALSE /\ cut' = FALSE /\ Keep(p, cmd[p])
      /\ UNCHANGED <<created, run, roadmap, active, kills>>
  BY DEF EndReconcile, Do
<1>2. /\ ReconcileInv(p) /\ todo[p] = <<"reconciled">> /\ Len(todo[p]) = 1 /\ Tail(todo[p]) = <<>>
  BY <1>1, Reconciling, ReconcileLists DEF ReconcileWrites
<1>3. /\ cmd[p].active = DerivedActive /\ ActiveAgrees /\ RoadmapAgrees /\ RunFilesAgree
      /\ cmd[p].left = {}
  BY <1>2, ReconcileLists DEF ReconcileInv, RunFilesAgree
<1>4. TypeOK /\ FilesInv /\ created \subseteq Run /\ DerivedActive \subseteq Run /\ replay \in Replay
  BY DEF RunInv, TypeOK, DerivedActive
<1>5. replay' = EventReconciled(replay, DerivedActive)
  BY <1>1, <1>3 DEF Appended
<1>6. replay' \in Replay /\ replay'.active = DerivedActive /\ replay'.learned = {}
  BY <1>4, <1>5, ReconciledEvent
<1>7. <<>> \in Seq(Write)
  BY EmptySeq
<1>8. todo'[p] = <<>> /\ cmd' = [cmd EXCEPT ![p] = Idle] /\ cmd'[p] = Idle
  BY <1>1, <1>2, <1>4 DEF Keep, TypeOK
<1>9. TypeOK'
  BY <1>1, <1>2, <1>4, <1>6, <1>7, <1>8, IdleIs DEF TypeOK
<1>10. FilesInv'
  BY <1>1, <1>4, <1>6 DEF FilesInv, Sound, All
<1>11. DerivedActive = {r \in created : ~Over(run[r])} /\ \A r \in Run : DerivedRoadmap(run[r]) = Place(run[r])
  BY <1>4, DerivedIs
<1>12. active = DerivedActive /\ \A r \in created : roadmap[r] = Place(run[r])
  BY <1>3, <1>4, <1>11 DEF ActiveAgrees, RoadmapAgrees
<1>13. Agreement'
  BY <1>1, <1>6, <1>11, <1>12 DEF Agreement
<1>14. RunInv'
  BY <1>8, <1>9, <1>10, <1>13, ComesToRest
<1>15. (ActiveAgrees /\ RoadmapAgrees /\ ReplayAgrees /\ RunFilesAgree /\ ~behind)'
  <2>1. DerivedActive' = DerivedActive
    BY <1>1 DEF DerivedActive
  <2> QED
    BY <1>1, <1>3, <1>6, <2>1 DEF ActiveAgrees, RoadmapAgrees, ReplayAgrees, RunFilesAgree
<1> QED
  BY <1>14, <1>15

-----------------------------------------------------------------------------
(* Kills.                                                                   *)

LEMMA KillStep ==
  ASSUME OneOperator, RunInv, NEW p \in Proc, Kill(p)
  PROVE  RunInv'
<1>1. /\ todo[p] # <<>> /\ kills < MaxKills /\ kills' = kills + 1 /\ cut' = TRUE
      /\ todo' = [todo EXCEPT ![p] = <<>>] /\ cmd' = [cmd EXCEPT ![p] = Idle]
      /\ UNCHANGED <<created, run, roadmap, active>>
  BY DEF Kill
<1>2. \/ replay' = replay /\ behind' = behind
      \/ Head(todo[p]) \in Event /\ replay' = Appended(p) /\ behind' = TRUE
  BY DEF Kill
<1>3. TypeOK /\ FilesInv
  BY DEF RunInv
<1>4. /\ replay' \in Replay /\ behind' \in BOOLEAN
      /\ \A q \in replay'.learned : run[q].node[LastNode] \in Done
  <2>1. CASE replay' = replay /\ behind' = behind
    BY <1>3, <2>1 DEF TypeOK, FilesInv
  <2>2. CASE Head(todo[p]) = "reconciled" /\ replay' = Appended(p) /\ behind' = TRUE
    <3>1. replay' = EventReconciled(replay, cmd[p].active)
      BY <2>2 DEF Appended
    <3>2. replay \in Replay /\ cmd[p].active \in SUBSET Run
      BY <1>3 DEF TypeOK, Command
    <3> QED
      BY <2>2, <3>1, <3>2, ReconciledEvent
  <2>3. CASE Head(todo[p]) \in Event \ {"reconciled"} /\ replay' = Appended(p) /\ behind' = TRUE
    <3> DEFINE x == Appended(p)
    <3>1. /\ x \in Replay
          /\ \A q \in x.learned : q \in replay.learned
                                  \/ (q = cmd[p].run /\ run[cmd[p].run].node[LastNode] \in Done)
      BY <1>1, <2>3, EventTold
    <3> HIDE DEF x
    <3>2. replay' = x
      BY <2>3 DEF x
    <3> QED
      BY <1>3, <2>3, <3>1, <3>2 DEF FilesInv
  <2> QED
    BY <1>2, <2>1, <2>2, <2>3
<1>5. kills' \in 0..MaxKills
  BY <1>1, <1>3, RunAssumption DEF TypeOK, RunAssumption
<1>6. <<>> \in Seq(Write)
  BY EmptySeq
<1>7. TypeOK'
  BY <1>1, <1>3, <1>4, <1>5, <1>6, IdleIs DEF TypeOK
<1>8. FilesInv'
  BY <1>1, <1>3, <1>4 DEF FilesInv, Sound, All
<1>9. todo'[p] = <<>> /\ cmd'[p] = Idle
  BY <1>1, <1>3 DEF TypeOK
<1> QED
  BY <1>1, <1>7, <1>8, <1>9, ComesToRest

-----------------------------------------------------------------------------
(* Every step.                                                              *)

LEMMA InitHolds ==
  ASSUME Init
  PROVE  RunInv
<1>1. TypeOK
  <2>1. <<>> \in Seq(Write)
    BY EmptySeq
  <2>2. replay \in Replay
    BY DEF Init, Replay
  <2>3. 0 \in 0..MaxKills
    BY RunAssumption DEF RunAssumption
  <2> QED
    BY <2>1, <2>2, <2>3, IdleIs DEF Init, TypeOK
<1>2. FilesInv
  BY PlannedIs DEF Init, FilesInv
<1>3. Agreement
  BY DEF Init, Agreement
<1>4. ASSUME NEW p \in Proc
      PROVE  OperatorInv(p)
  <2>1. todo[p] = <<>> /\ cmd[p] = Idle
    BY DEF Init
  <2> QED
    BY <1>3, <2>1, AtRest DEF OperatorInv
<1> QED
  BY <1>1, <1>2, <1>4 DEF RunInv

LEMMA StutterHolds ==
  ASSUME RunInv, UNCHANGED vars
  PROVE  RunInv'
<1>1. TypeOK' /\ FilesInv'
  BY DEF RunInv, TypeOK, FilesInv, Sound, All, vars
<1>2. ASSUME NEW p \in Proc
      PROVE  OperatorInv(p)'
  <2>1. OperatorInv(p)
    BY DEF RunInv
  <2> QED
    BY <2>1 DEF OperatorInv, Reconciles, ReconcileInv, CommandInv, WillAgree, ActiveToBe,
         RoadmapToBe, RunToBe, DerivedActive, ActiveAgrees, RoadmapAgrees, vars
<1> QED
  BY <1>1, <1>2 DEF RunInv

LEMMA StepHolds ==
  ASSUME OneOperator, RunInv, [Next]_vars
  PROVE  RunInv'
<1>1. CASE UNCHANGED vars
  BY <1>1, StutterHolds
<1>2. ASSUME NEW p \in Proc, Step(p)
      PROVE  RunInv'
  <2>1. cmd[p] \in Command /\ TypeOK
    BY DEF RunInv, TypeOK
  <2>2. CASE ReadActive(p)
    <3> DEFINE c == [cmd[p] EXCEPT !.active = active]
               w == "read_active"
    <3>1. /\ c \in Command /\ c.run = cmd[p].run /\ c.node = cmd[p].node /\ c.gate = cmd[p].gate
          /\ c.copy = cmd[p].copy /\ c.active = active /\ c.roadmap = cmd[p].roadmap
      BY <2>1 DEF Command, TypeOK
    <3>2. /\ Do(p, w) /\ Keep(p, c) /\ w \in {"read_active", "read_roadmap"}
          /\ UNCHANGED <<created, run, roadmap, active, behind, replay, kills, cut>>
      BY <2>2 DEF ReadActive
    <3>3. /\ c.active = IF w = "read_active" THEN active ELSE cmd[p].active
          /\ c.roadmap = IF w = "read_roadmap" THEN roadmap ELSE cmd[p].roadmap
      BY <3>1
    <3> HIDE DEF c, w
    <3> QED
      BY <3>1, <3>2, <3>3, ReadStep
  <2>3. CASE ReadRoadmap(p)
    <3> DEFINE c == [cmd[p] EXCEPT !.roadmap = roadmap]
               w == "read_roadmap"
    <3>1. /\ c \in Command /\ c.run = cmd[p].run /\ c.node = cmd[p].node /\ c.gate = cmd[p].gate
          /\ c.copy = cmd[p].copy /\ c.active = cmd[p].active /\ c.roadmap = roadmap
      BY <2>1 DEF Command, TypeOK
    <3>2. /\ Do(p, w) /\ Keep(p, c) /\ w \in {"read_active", "read_roadmap"}
          /\ UNCHANGED <<created, run, roadmap, active, behind, replay, kills, cut>>
      BY <2>3 DEF ReadRoadmap
    <3>3. /\ c.active = IF w = "read_active" THEN active ELSE cmd[p].active
          /\ c.roadmap = IF w = "read_roadmap" THEN roadmap ELSE cmd[p].roadmap
      BY <3>1
    <3> HIDE DEF c, w
    <3> QED
      BY <3>1, <3>2, <3>3, ReadStep
  <2> QED
    BY <1>2, <2>2, <2>3, WriteActiveStep, WriteRoadmapStep, WriteRunStep, AppendEventStep,
       DeriveStep, FixRunStep, FixRoadmapStep, ReconcileEnds DEF Step
<1>3. ASSUME NEW p \in Proc, Tick(p)
      PROVE  RunInv'
  BY <1>3, CreateStep, LearnStep, ReopenStep, PassStep DEF Tick
<1>4. ASSUME NEW p \in Proc, NEW r \in Run, NEW n \in Node,
             \/ StartNode(p, r, n) \/ HandleCarry(p, r, n)
             \/ \E g \in Gate : CompleteNode(p, r, n, g)
      PROVE  RunInv'
  BY <1>4, StartStep, CarryStep, CompleteStep
<1> QED
  BY <1>1, <1>2, <1>3, <1>4, ReconcileStep, KillStep, HaltStep DEF Next

-----------------------------------------------------------------------------
(* Theorems.                                                                *)

LEMMA InvHolds ==
  ASSUME OneOperator
  PROVE  Spec => []RunInv
<1>1. RunInv /\ [Next]_vars => RunInv'
  BY StepHolds
<1>2. Init => RunInv
  BY InitHolds
<1> QED
  BY <1>1, <1>2, PTL DEF Spec

\* Every state the project's files, its log and its commands get into is one
\* the code's types allow, for one operator.
THEOREM RunTypes ==
  ASSUME OneOperator
  PROVE  Spec => []TypeOK
<1>1. RunInv => TypeOK
  BY DEF RunInv
<1> QED
  BY <1>1, InvHolds, PTL

LEMMA QuietAgrees ==
  ASSUME RunInv, Quiet, ~cut, Proc # {}
  PROVE  Agreement
  BY AtRest DEF RunInv, OperatorInv, Quiet

\* The order in which closeRunIfComplete, haltRun, completeNode and carry
\* write active_runs, the roadmap, run.json and their events leaves the lists
\* in agreement with the run files, but for runs that are Owing, whenever no
\* command was killed.
THEOREM StateStaysAgreed ==
  ASSUME OneOperator, Proc # {}
  PROVE  Spec => []StateAgrees
<1>1. RunInv => StateAgrees
  <2> SUFFICES ASSUME RunInv, Quiet, ~cut
               PROVE  /\ active \subseteq created
                      /\ \A r \in created : \/ Owing(run[r])
                                            \/ /\ r \in active <=> r \in DerivedActive
                                               /\ roadmap[r] = DerivedRoadmap(run[r])
                      /\ ~behind
    BY DEF StateAgrees
  <2>1. TypeOK /\ FilesInv /\ created \subseteq Run
    BY DEF RunInv, TypeOK
  <2> QED
    BY <2>1, QuietAgrees, DerivedIs DEF Agreement
<1> QED
  BY <1>1, InvHolds, PTL

\* Replaying events.jsonl never revives a run that closeRunIfComplete or a
\* halt has taken out, and loses one only after its learn node has passed.
THEOREM ReplayStaysCautious ==
  ASSUME OneOperator, Proc # {}
  PROVE  Spec => []ReplayIsCautious
<1>1. RunInv => ReplayIsCautious
  BY QuietAgrees DEF ReplayIsCautious, Agreement, Done
<1> QED
  BY <1>1, InvHolds, PTL

\* project reconcile --apply leaves active_runs, the roadmap, the log and all
\* run files in agreement, after any number of kills at any write.
THEOREM ReconcilesRepair ==
  ASSUME OneOperator
  PROVE  Spec => ReconcileRepairs
<1>1. RunInv /\ [Next]_vars =>
        [\A p \in Proc : EndReconcile(p) =>
           (ActiveAgrees /\ RoadmapAgrees /\ ReplayAgrees /\ RunFilesAgree /\ ~behind)']_vars
  BY ReconcileEnds
<1> QED
  BY <1>1, InvHolds, PTL DEF Spec, ReconcileRepairs
=============================================================================
