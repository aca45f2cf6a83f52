---------------------- MODULE BenchmarkControllerProofs ----------------------
(* The benchmark controller keeps its counts and its results, for any       *)
(* number of runs, coordinators, claims, kills and resets.                  *)
EXTENDS BenchmarkController, TLAPS

\* The attempts of a run are accounted for.
Counted(f) ==
  /\ f.attempt = f.recoveries + (IF f.status \in Claimable THEN 0 ELSE 1)
  /\ f.attempt <= f.fencing

\* A coordinator has a run from its claim until it ends it.
Busy(c) == coord[c].at \notin {"off", "loop"}

\* c has the claim that r is running under, and no other coordinator has.
Current(c) ==
  /\ run[coord[c].run].status = "running"
  /\ run[coord[c].run].fencing = coord[c].fencing

Claims ==
  \A c \in Coordinator : Busy(c) =>
    /\ coord[c].run \in Run
    /\ coord[c].fencing \in 1..run[coord[c].run].fencing
    /\ Current(c) => run[coord[c].run].by = c

\* From the result file to the record: what c is about to record is of its claim.
Files ==
  \A c \in Coordinator :
    /\ coord[c].at \in {"evaluated", "hashed"} =>
         /\ file[coord[c].run] > 0
         /\ Current(c) /\ coord[c].run \notin strayed =>
              file[coord[c].run] = coord[c].fencing
    /\ coord[c].at = "hashed" =>
         /\ coord[c].seen > 0
         /\ Current(c) /\ coord[c].run \notin strayed =>
              coord[c].seen = coord[c].fencing

ControllerInv ==
  /\ TypeOK
  /\ \A r \in Run : Counted(run[r])
  /\ Claims
  /\ Files
  /\ ResultIsOfItsClaim
  /\ StatusIsHonest

-----------------------------------------------------------------------------
(* The steps, as far as the records are concerned.                          *)

\* c goes on with its claim, or leaves it; it has nothing evaluated then.
Moves(c) ==
  \E p \in Process :
    /\ coord' = [coord EXCEPT ![c] = p]
    /\ p.at \notin {"evaluated", "hashed"}
    /\ p.at \notin {"off", "loop"} =>
         Busy(c) /\ p.run = coord[c].run /\ p.fencing = coord[c].fencing

\* The directory and the bounded counters.
RestTyped ==
  /\ workspace' \in [Run -> {"absent", "partial", "whole"}]
  /\ kills' \in 0..MaxKills /\ UNCHANGED <<lapsed, resets>>

Works(c) == Moves(c) /\ RestTyped /\ UNCHANGED <<run, status, file, strayed>>

Refreshes(c) ==
  /\ Moves(c) /\ RestTyped /\ UNCHANGED <<file, strayed>>
  /\ run' = Recovered /\ status' = RecoveredStatus

Records(c) ==
  /\ Moves(c) /\ RestTyped /\ UNCHANGED <<file, strayed>>
  /\ coord'[c].at \in {"off", "loop"}
  /\ Busy(c) /\ HoldsLease(c)
  /\ \E s \in Ended \cup {"interrupted"}, result \in 0..MaxClaims :
       /\ run' = [Recovered EXCEPT ![coord[c].run] = Finished(@, s, result)]
       /\ status' = ControllerStatus(run')
       /\ s \in {"completed", "invalid"} =>
            coord[c].at = "hashed" /\ result = coord[c].seen

\* A process that is off, or looks for a run, is a process.
LEMMA IdleProcesses ==
  ASSUME NEW D \in SUBSET Run, NEW at \in {"off", "loop"}
  PROVE  /\ Off \in Process /\ Off.at = "off"
         /\ [Off EXCEPT !.at = at, !.done = D] \in Process
         /\ [Off EXCEPT !.at = at, !.done = D].at = at
<1>1. 0 \in 0..MaxClaims /\ None \in Run \cup {None}
  BY BenchmarkAssumption
<1> QED
  BY <1>1 DEF Process, Off, At

\* c takes another place, with the claim it has or with none.
LEMMA PlaceMoves ==
  ASSUME TypeOK, NEW c \in Coordinator, NEW at \in At \ {"evaluated", "hashed"},
         coord' = [coord EXCEPT ![c].at = at],
         Busy(c) \/ at = "loop"
  PROVE  Moves(c) /\ coord'[c].at = at
<1> DEFINE p == [coord[c] EXCEPT !.at = at]
<1>1. coord[c] \in Process
  BY DEF TypeOK
<1>2. p \in Process /\ p.at = at /\ p.run = coord[c].run /\ p.fencing = coord[c].fencing
  BY <1>1 DEF Process
<1>3. coord' = [coord EXCEPT ![c] = p]
  OBVIOUS
<1>4. coord'[c] = p
  BY <1>3 DEF TypeOK
<1> HIDE DEF p
<1> QED
  BY <1>2, <1>3, <1>4 DEF Moves

\* c has no claim any more.
LEMMA IdleMoves ==
  ASSUME TypeOK, NEW c \in Coordinator,
         NEW p \in Process, p.at \in {"off", "loop"}, coord' = [coord EXCEPT ![c] = p]
  PROVE  Moves(c) /\ coord'[c].at = p.at
  BY DEF Moves, TypeOK

\* Most steps of a coordinator leave the records alone.
LEMMA WorkSteps ==
  ASSUME TypeOK, NEW c \in Coordinator,
         BeginPrepare(c) \/ EndPrepare(c) \/ Execute(c) \/ Throw(c) \/ Drop(c) \/ Kill(c)
  PROVE  Works(c)
<1>1. CASE BeginPrepare(c)
  <2>1. PICK at \in {"prepared", "copying"} : coord' = [coord EXCEPT ![c].at = at]
    BY <1>1 DEF BeginPrepare, Goes
  <2>2. Moves(c)
    BY <1>1, <2>1, PlaceMoves DEF BeginPrepare, Busy, At
  <2>3. workspace' \in [Run -> {"absent", "partial", "whole"}]
    BY <1>1 DEF BeginPrepare, TypeOK
  <2> QED
    BY <1>1, <2>2, <2>3 DEF BeginPrepare, Goes, Works, RestTyped, TypeOK
<1>2. CASE EndPrepare(c)
  <2>1. Moves(c)
    BY <1>2, PlaceMoves DEF EndPrepare, Goes, Busy, At
  <2> QED
    BY <1>2, <2>1 DEF EndPrepare, Goes, Works, RestTyped, TypeOK
<1>3. CASE Execute(c)
  <2>1. PICK o \in {"timed_out", "resource", "ran"} :
          coord' = [coord EXCEPT ![c].at = "executed", ![c].outcome = o]
    BY <1>3 DEF Execute
  <2> DEFINE p == [coord[c] EXCEPT !.at = "executed", !.outcome = o]
  <2>2. coord[c] \in Process
    BY DEF TypeOK
  <2>3. p \in Process /\ p.at = "executed" /\ p.run = coord[c].run /\ p.fencing = coord[c].fencing
    BY <2>2 DEF Process, At
  <2>4. coord' = [coord EXCEPT ![c] = p]
    BY <2>1 DEF TypeOK
  <2> HIDE DEF p
  <2>5. Moves(c)
    BY <1>3, <2>3, <2>4 DEF Execute, Moves, Busy
  <2> QED
    BY <1>3, <2>5 DEF Execute, Works, RestTyped, TypeOK
<1>4. CASE Throw(c)
  <2>1. Moves(c)
    BY <1>4, PlaceMoves DEF Throw, Goes, Busy, At
  <2> QED
    BY <1>4, <2>1 DEF Throw, Goes, Works, RestTyped, TypeOK
<1>5. CASE Drop(c)
  <2>1. Moves(c)
    BY <1>5, IdleProcesses, IdleMoves DEF Drop
  <2> QED
    BY <1>5, <2>1 DEF Drop, Works, RestTyped, TypeOK
<1>6. CASE Kill(c)
  <2>1. Moves(c)
    BY <1>6, IdleProcesses, IdleMoves DEF Kill
  <2>2. kills' \in 0..MaxKills
    BY <1>6, BenchmarkAssumption DEF Kill, TypeOK
  <2> QED
    BY <1>6, <2>1, <2>2 DEF Kill, Works, RestTyped, TypeOK
<1> QED
  BY <1>1, <1>2, <1>3, <1>4, <1>5, <1>6

\* Every command and every look under the lock begins with a recovery.
LEMMA RefreshSteps ==
  ASSUME TypeOK, NEW c \in Coordinator, Start(c) \/ Stop(c) \/ Update(c)
  PROVE  Works(c) \/ Refreshes(c)
<1>1. CASE Start(c)
  <2>1. Moves(c)
    BY <1>1, PlaceMoves DEF Start, At
  <2> QED
    BY <1>1, <2>1 DEF Start, Refreshes, RestTyped, TypeOK
<1>2. CASE Stop(c)
  <2>1. Moves(c)
    BY <1>2, IdleProcesses, IdleMoves DEF Stop
  <2> QED
    BY <1>2, <2>1 DEF Stop, Refreshes, RestTyped, TypeOK
<1>3. CASE Update(c)
  <2>1. Moves(c)
    <3>1. PICK at \in {"updated", "throwing"} : coord' = [coord EXCEPT ![c].at = at]
      BY <1>3 DEF Update
    <3> QED
      BY <1>3, <3>1, PlaceMoves DEF Update, Busy, At
  <2> QED
    BY <1>3, <2>1 DEF Update, Works, Refreshes, RestTyped, TypeOK
<1> QED
  BY <1>1, <1>2, <1>3

\* A run is ended under its lease, or not at all.
LEMMA EndSteps ==
  ASSUME TypeOK, NEW c \in Coordinator,
         NEW s \in Ended \cup {"interrupted"}, NEW result \in 0..MaxClaims,
         NEW next \in {"off", "loop"},
         Busy(c), Ends(c, s, result, next),
         s \in {"completed", "invalid"} => coord[c].at = "hashed" /\ result = coord[c].seen
  PROVE  Works(c) \/ Records(c)
<1>1. RestTyped /\ UNCHANGED <<file, strayed>>
  BY DEF Ends, RestTyped, TypeOK
<1>2. CASE HoldsLease(c)
  <2>1. coord[c].done \in SUBSET Run
    BY DEF TypeOK, Process
  <2>2. coord' = [coord EXCEPT ![c] = [Off EXCEPT !.at = next, !.done = coord[c].done]]
    BY <1>2 DEF Ends
  <2>3. Moves(c) /\ coord'[c].at = next
    BY <2>1, <2>2, IdleProcesses, IdleMoves
  <2>4. /\ run' = [Recovered EXCEPT ![coord[c].run] = Finished(@, s, result)]
        /\ status' = ControllerStatus(run')
    BY <1>2 DEF Ends
  <2> QED
    BY <1>1, <1>2, <2>3, <2>4 DEF Records
<1>3. CASE ~HoldsLease(c)
  <2>1. Moves(c)
    BY <1>3, PlaceMoves DEF Ends, At
  <2> QED
    BY <1>1, <1>3, <2>1 DEF Ends, Works
<1> QED
  BY <1>2, <1>3

\* The five ways a run ends.
LEMMA RecordSteps ==
  ASSUME TypeOK, NEW c \in Coordinator,
         FinishInterrupted(c) \/ FinishGuarded(c) \/ FinishCompleted(c)
           \/ FinishInvalid(c) \/ Catch(c)
  PROVE  Works(c) \/ Records(c)
<1> USE DEF Busy, Ended
<1>0. 0 \in 0..MaxClaims /\ coord[c].seen \in 0..MaxClaims
  BY BenchmarkAssumption DEF TypeOK, Process
<1>1. CASE FinishInterrupted(c)
  <2>1. Busy(c) /\ Ends(c, "interrupted", 0, "loop")
    BY <1>1 DEF FinishInterrupted
  <2> QED
    BY <1>0, <2>1, EndSteps
<1>2. CASE FinishGuarded(c)
  <2>1. Busy(c) /\ Ends(c, "failed", 0, "off")
    BY <1>2 DEF FinishGuarded
  <2> QED
    BY <1>0, <2>1, EndSteps
<1>3. CASE FinishCompleted(c)
  <2>1. coord[c].at = "hashed" /\ Ends(c, "completed", coord[c].seen, "loop")
    BY <1>3 DEF FinishCompleted
  <2> QED
    BY <1>0, <2>1, EndSteps
<1>4. CASE FinishInvalid(c)
  <2>1. coord[c].at = "hashed" /\ Ends(c, "invalid", coord[c].seen, "off")
    BY <1>4 DEF FinishInvalid
  <2> QED
    BY <1>0, <2>1, EndSteps
<1>5. CASE Catch(c)
  <2>1. Moves(c) /\ coord'[c].at = "off"
    BY <1>5, IdleProcesses, IdleMoves DEF Catch
  <2>2. CASE HoldsLease(c)
    <3>1. run' = [Recovered EXCEPT ![coord[c].run] = Finished(@, "failed", 0)]
          /\ status' = ControllerStatus(run')
      BY <1>5, <2>2 DEF Catch
    <3>2. Busy(c) /\ RestTyped /\ UNCHANGED <<file, strayed>>
      BY <1>5 DEF Catch, RestTyped, TypeOK
    <3>3. \E s \in Ended \cup {"interrupted"}, result \in 0..MaxClaims :
            /\ run' = [Recovered EXCEPT ![coord[c].run] = Finished(@, s, result)]
            /\ status' = ControllerStatus(run')
            /\ s \in {"completed", "invalid"} =>
                 coord[c].at = "hashed" /\ result = coord[c].seen
      <4>1. "failed" \in Ended \cup {"interrupted"}
        OBVIOUS
      <4> QED
        BY <1>0, <3>1, <4>1
    <3> QED
      BY <2>1, <2>2, <3>2, <3>3 DEF Records
  <2>3. CASE ~HoldsLease(c)
    BY <1>5, <2>1, <2>3 DEF Catch, Works, RestTyped, TypeOK
  <2> QED
    BY <2>2, <2>3
<1> QED
  BY <1>1, <1>2, <1>3, <1>4, <1>5

-----------------------------------------------------------------------------
(* Each of these steps keeps the invariant.                                 *)

\* A recovery interrupts the runs that were abandoned and leaves the others.
LEMMA RecoveryFacts ==
  ASSUME TypeOK, \A r \in Run : Counted(run[r])
  PROVE  /\ Recovered \in [Run -> RunFile]
         /\ \A r \in Run :
              /\ Counted(Recovered[r])
              /\ Recovered[r].fencing = run[r].fencing
              /\ ~Abandoned(r) => Recovered[r] = run[r]
              /\ Abandoned(r) => /\ Recovered[r].status = "interrupted"
                                /\ run[r].status = "running"
<1>1. ASSUME NEW r \in Run, Abandoned(r)
      PROVE  /\ Interrupted(run[r]) \in RunFile /\ Counted(Interrupted(run[r]))
             /\ Interrupted(run[r]).fencing = run[r].fencing
             /\ Interrupted(run[r]).status = "interrupted" /\ run[r].status = "running"
  <2>1. run[r] \in RunFile /\ Counted(run[r]) /\ run[r].status = "running"
    BY <1>1 DEF TypeOK, Abandoned
  <2>2. MaxClaims \in Nat /\ run[r].recoveries + 1 \in 0..MaxClaims
    BY <2>1, BenchmarkAssumption DEF RunFile, Counted, Claimable
  <2>3. Interrupted(run[r]) \in RunFile
    BY <2>1, <2>2 DEF Interrupted, RunFile, Claimable
  <2>4. run[r].attempt = run[r].recoveries + 1 /\ run[r].attempt <= run[r].fencing
    BY <2>1 DEF Counted, Claimable
  <2>5. /\ Interrupted(run[r]).attempt = run[r].attempt
        /\ Interrupted(run[r]).recoveries = run[r].recoveries + 1
        /\ Interrupted(run[r]).fencing = run[r].fencing
        /\ Interrupted(run[r]).status = "interrupted"
    BY <2>1 DEF Interrupted, RunFile
  <2> QED
    BY <2>1, <2>2, <2>3, <2>4, <2>5 DEF Claimable, Counted, RunFile
<1>2. \A r \in Run : run[r] \in RunFile
  BY DEF TypeOK
<1> QED
  BY <1>1, <1>2 DEF Recovered

\* No run goes back to running, and none gets another token.
Calms ==
  \A r \in Run : /\ run'[r].fencing = run[r].fencing
                 /\ run'[r].status = "running" => run'[r] = run[r]

\* A step that only moves c and ends runs keeps what is known of the claims.
LEMMA MovesKeepClaims ==
  ASSUME TypeOK, Claims, Files, NEW c \in Coordinator, Moves(c), Calms,
         UNCHANGED <<file, strayed>>
  PROVE  Claims' /\ Files' /\ coord' \in [Coordinator -> Process]
<1>1. PICK p \in Process :
        /\ coord' = [coord EXCEPT ![c] = p]
        /\ p.at \notin {"evaluated", "hashed"}
        /\ p.at \notin {"off", "loop"} =>
             Busy(c) /\ p.run = coord[c].run /\ p.fencing = coord[c].fencing
  BY DEF Moves
<1>2. coord' \in [Coordinator -> Process] /\ coord'[c] = p
      /\ \A d \in Coordinator \ {c} : coord'[d] = coord[d]
  BY <1>1 DEF TypeOK
<1>3. Claims'
  BY <1>1, <1>2 DEF Claims, Busy, Current, Calms
<1>4. \A d \in Coordinator : coord[d].at \in {"evaluated", "hashed"} => coord[d].run \in Run
  BY DEF Claims, Busy
<1>5. Files'
  BY <1>1, <1>2, <1>4 DEF Files, Current, Calms
<1> QED
  BY <1>2, <1>3, <1>5

\* The step of a coordinator at work.
LEMMA WorksKeep ==
  ASSUME ControllerInv, NEW c \in Coordinator, Works(c)
  PROVE  ControllerInv'
<1>1. Moves(c) /\ Calms /\ RestTyped /\ UNCHANGED <<run, status, file, strayed>>
  BY DEF Works, Calms
<1>2. Claims' /\ Files' /\ coord' \in [Coordinator -> Process]
  BY <1>1, MovesKeepClaims DEF ControllerInv
<1>3. TypeOK'
  BY <1>1, <1>2 DEF ControllerInv, TypeOK, RestTyped
<1>4. (\A r \in Run : Counted(run[r]))' /\ ResultIsOfItsClaim' /\ StatusIsHonest'
  BY <1>1 DEF ControllerInv, ResultIsOfItsClaim, StatusIsHonest
<1> QED
  BY <1>2, <1>3, <1>4 DEF ControllerInv

\* A look under the lock.
LEMMA RefreshesKeep ==
  ASSUME ControllerInv, NEW c \in Coordinator, Refreshes(c)
  PROVE  ControllerInv'
<1>1. Moves(c) /\ RestTyped /\ UNCHANGED <<file, strayed>>
      /\ run' = Recovered /\ status' = RecoveredStatus
  BY DEF Refreshes
<1>2. /\ run' \in [Run -> RunFile]
      /\ \A r \in Run : /\ Counted(run'[r])
                        /\ run'[r].fencing = run[r].fencing
                        /\ ~Abandoned(r) => run'[r] = run[r]
                        /\ Abandoned(r) => /\ run'[r].status = "interrupted"
                                          /\ run[r].status = "running"
  BY <1>1, RecoveryFacts DEF ControllerInv
<1>3. Calms
  BY <1>2 DEF Calms
<1>4. Claims' /\ Files' /\ coord' \in [Coordinator -> Process]
  BY <1>1, <1>3, MovesKeepClaims DEF ControllerInv
<1>5. TypeOK'
  BY <1>1, <1>2, <1>4 DEF ControllerInv, TypeOK, RestTyped, RecoveredStatus
<1>6. ResultIsOfItsClaim'
  BY <1>1, <1>2 DEF ControllerInv, ResultIsOfItsClaim
<1>7. StatusIsHonest'
  BY <1>1, <1>2 DEF ControllerInv, StatusIsHonest, RecoveredStatus
<1> QED
  BY <1>2, <1>4, <1>5, <1>6, <1>7 DEF ControllerInv

\* Whoever holds the lease of a run is at work on it: it is not abandoned.
LEMMA HolderIsAlive ==
  ASSUME ControllerInv, NEW c \in Coordinator, Busy(c), HoldsLease(c)
  PROVE  coord[c].run \in Run /\ Current(c) /\ ~Abandoned(coord[c].run)
  BY DEF ControllerInv, Claims, HoldsLease, Current, Abandoned, Alive

\* The end of a run.
LEMMA RecordsKeep ==
  ASSUME ControllerInv, NEW c \in Coordinator, Records(c)
  PROVE  ControllerInv'
<1>1. /\ Moves(c) /\ RestTyped /\ UNCHANGED <<file, strayed>>
      /\ Busy(c) /\ HoldsLease(c)
  BY DEF Records
<1>2. PICK s \in Ended \cup {"interrupted"}, result \in 0..MaxClaims :
        /\ run' = [Recovered EXCEPT ![coord[c].run] = Finished(@, s, result)]
        /\ status' = ControllerStatus(run')
        /\ s \in {"completed", "invalid"} => coord[c].at = "hashed" /\ result = coord[c].seen
  BY DEF Records
<1>3. coord[c].run \in Run /\ Current(c) /\ ~Abandoned(coord[c].run)
  BY <1>1, HolderIsAlive
<1> DEFINE q == coord[c].run
<1>4. /\ Recovered \in [Run -> RunFile] /\ Recovered[q] = run[q]
      /\ \A r \in Run : /\ Counted(Recovered[r])
                        /\ Recovered[r].fencing = run[r].fencing
                        /\ Recovered[r] = run[r] \/ Recovered[r].status = "interrupted"
  BY <1>3, RecoveryFacts DEF ControllerInv
<1>5. /\ Finished(run[q], s, result) \in RunFile /\ Counted(Finished(run[q], s, result))
      /\ Finished(run[q], s, result).status = s
      /\ Finished(run[q], s, result).fencing = run[q].fencing
      /\ Finished(run[q], s, result).result = result
  <2>1. run[q] \in RunFile /\ Counted(run[q]) /\ run[q].status = "running"
    BY <1>3 DEF ControllerInv, TypeOK, Current
  <2>2. MaxClaims \in Nat /\ run[q].recoveries + 1 \in 0..MaxClaims
    BY <2>1, BenchmarkAssumption DEF RunFile, Counted, Claimable
  <2>3. Finished(run[q], s, result) \in RunFile
    BY <2>1, <2>2 DEF Finished, RunFile, Claimable, Ended
  <2>4. run[q].attempt = run[q].recoveries + 1 /\ run[q].attempt <= run[q].fencing
    BY <2>1 DEF Counted, Claimable
  <2>5. /\ Finished(run[q], s, result).attempt = run[q].attempt
        /\ Finished(run[q], s, result).recoveries
             = IF s = "interrupted" THEN run[q].recoveries + 1 ELSE run[q].recoveries
        /\ Finished(run[q], s, result).fencing = run[q].fencing
        /\ Finished(run[q], s, result).status = s
        /\ Finished(run[q], s, result).result = result
    BY <2>1 DEF Finished, RunFile
  <2>6. s \in Claimable <=> s = "interrupted"
    BY DEF Ended, Claimable
  <2> QED
    BY <2>1, <2>2, <2>3, <2>4, <2>5, <2>6 DEF Counted, RunFile
<1>6. /\ run' \in [Run -> RunFile] /\ run'[q] = Finished(run[q], s, result)
      /\ \A r \in Run \ {q} : run'[r] = Recovered[r]
  BY <1>2, <1>3, <1>4, <1>5
<1>7. Calms
  BY <1>3, <1>4, <1>5, <1>6 DEF Calms, Ended
<1>8. Claims' /\ Files' /\ coord' \in [Coordinator -> Process]
  BY <1>1, <1>7, MovesKeepClaims DEF ControllerInv
<1>9. TypeOK'
  BY <1>1, <1>2, <1>6, <1>8 DEF ControllerInv, TypeOK, RestTyped, ControllerStatus
<1>10. (\A r \in Run : Counted(run[r]))'
  BY <1>4, <1>5, <1>6
<1>11. ResultIsOfItsClaim'
  <2>1. s \in {"completed", "invalid"} =>
          /\ result > 0
          /\ q \notin strayed => result = run[q].fencing /\ file[q] = result
    BY <1>2, <1>3 DEF ControllerInv, Files, Current
  <2>2. \A r \in Run \ {q} : run'[r].status \in {"completed", "invalid"} => run'[r] = run[r]
    BY <1>4, <1>6
  <2> QED
    BY <1>1, <1>5, <1>6, <2>1, <2>2 DEF ControllerInv, ResultIsOfItsClaim
<1>12. StatusIsHonest'
  BY <1>2 DEF StatusIsHonest, ControllerStatus
<1> QED
  BY <1>8, <1>9, <1>10, <1>11, <1>12 DEF ControllerInv

\* A run is claimed.
LEMMA ClaimKeeps ==
  ASSUME ControllerInv, NEW c \in Coordinator, NEW r \in Run, Claim(c, r)
  PROVE  ControllerInv'
<1>1. /\ Recovered \in [Run -> RunFile]
      /\ \A q \in Run : /\ Counted(Recovered[q])
                        /\ Recovered[q].fencing = run[q].fencing
                        /\ Recovered[q] = run[q] \/ Recovered[q].status = "interrupted"
  BY RecoveryFacts DEF ControllerInv
<1> DEFINE f == Recovered[r]
           p == [Off EXCEPT !.at = "claimed", !.run = r, !.done = coord[c].done \cup {r},
                            !.fencing = run[r].fencing + 1, !.attempt = run[r].attempt + 1]
<1>2. /\ r \in Run /\ f \in RunFile /\ Counted(f) /\ f.status \in Claimable
      /\ f.fencing = run[r].fencing /\ run[r].fencing < MaxClaims
  BY <1>1 DEF Claim, Available
<1>3. /\ MaxClaims \in Nat /\ run[r] \in RunFile /\ run[r].attempt <= run[r].fencing
      /\ coord[c] \in Process
  BY BenchmarkAssumption DEF ControllerInv, TypeOK, Counted
<1>4. /\ Claimed(f, c) \in RunFile
      /\ Claimed(f, c).status = "running" /\ Claimed(f, c).by = c
      /\ Claimed(f, c).fencing = run[r].fencing + 1
      /\ Claimed(f, c).attempt = f.attempt + 1 /\ Claimed(f, c).recoveries = f.recoveries
  <2>1. f.attempt + 1 \in 0..MaxClaims /\ f.fencing + 1 \in 0..MaxClaims
    BY <1>2, <1>3 DEF RunFile, Counted
  <2> QED
    BY <1>2, <2>1 DEF Claimed, RunFile
<1>5. /\ run' = [Recovered EXCEPT ![r] = Claimed(f, c)]
      /\ status' = "running" /\ coord' = [coord EXCEPT ![c] = p]
      /\ UNCHANGED <<workspace, file, lapsed, strayed, kills, resets>>
  BY DEF Claim
<1>6. /\ p \in Process /\ p.at = "claimed" /\ p.run = r
      /\ p.fencing = run[r].fencing + 1
  <2>1. run[r].attempt + 1 \in 0..MaxClaims /\ run[r].fencing + 1 \in 0..MaxClaims
        /\ 0 \in 0..MaxClaims /\ coord[c].done \cup {r} \in SUBSET Run
    BY <1>2, <1>3 DEF RunFile, Process
  <2> QED
    BY <2>1 DEF Process, At, Off
<1> HIDE DEF p, f
<1>7. /\ run' \in [Run -> RunFile] /\ run'[r] = Claimed(f, c)
      /\ \A q \in Run \ {r} : run'[q] = Recovered[q]
  BY <1>1, <1>4, <1>5
<1>8. /\ coord' \in [Coordinator -> Process] /\ coord'[c] = p
      /\ \A d \in Coordinator \ {c} : coord'[d] = coord[d]
  BY <1>5, <1>6 DEF ControllerInv, TypeOK
<1>9. TypeOK'
  BY <1>5, <1>7, <1>8 DEF ControllerInv, TypeOK
<1>10. (\A q \in Run : Counted(run[q]))'
  <2>1. Counted(Claimed(f, c))
    BY <1>2, <1>3, <1>4 DEF Counted, Claimable, RunFile
  <2> QED
    BY <1>1, <1>7, <2>1
<1>11. \A d \in Coordinator \ {c} : Busy(d) =>
         /\ coord[d].run \in Run /\ coord[d].fencing \in 1..run[coord[d].run].fencing
         /\ run'[coord[d].run].fencing \in Nat
         /\ run'[coord[d].run].fencing >= run[coord[d].run].fencing
         /\ run'[coord[d].run].status = "running"
              /\ run'[coord[d].run].fencing = coord[d].fencing =>
              coord[d].run # r /\ run'[coord[d].run] = run[coord[d].run]
  <2> SUFFICES ASSUME NEW d \in Coordinator \ {c}, Busy(d)
               PROVE  /\ coord[d].run \in Run /\ coord[d].fencing \in 1..run[coord[d].run].fencing
                      /\ run'[coord[d].run].fencing \in Nat
                      /\ run'[coord[d].run].fencing >= run[coord[d].run].fencing
                      /\ run'[coord[d].run].status = "running"
                           /\ run'[coord[d].run].fencing = coord[d].fencing =>
                           coord[d].run # r /\ run'[coord[d].run] = run[coord[d].run]
    OBVIOUS
  <2>1. coord[d].run \in Run /\ coord[d].fencing \in 1..run[coord[d].run].fencing
        /\ run[coord[d].run].fencing \in Nat
    BY DEF ControllerInv, Claims, TypeOK, RunFile
  <2>2. CASE coord[d].run = r
    BY <1>4, <1>7, <2>1, <2>2
  <2>3. CASE coord[d].run # r
    BY <1>1, <1>7, <2>1, <2>3
  <2> QED
    BY <2>1, <2>2, <2>3
<1>12. Claims'
  <2>1. p.fencing \in 1..run'[r].fencing /\ run'[r].by = c
    BY <1>3, <1>4, <1>6, <1>7 DEF RunFile
  <2> QED
    <3>1. ASSUME NEW d \in Coordinator \ {c}, Busy(d)
          PROVE  /\ coord[d].run \in Run
                 /\ coord[d].fencing \in 1..run'[coord[d].run].fencing
                 /\ run'[coord[d].run].status = "running"
                      /\ run'[coord[d].run].fencing = coord[d].fencing =>
                      run'[coord[d].run].by = d
      <4>1. run[coord[d].run].fencing \in Nat
        BY <1>11, <3>1 DEF ControllerInv, TypeOK, RunFile
      <4>2. coord[d].fencing \in 1..run'[coord[d].run].fencing
        BY <1>11, <3>1, <4>1
      <4> QED
        BY <1>11, <3>1, <4>2 DEF ControllerInv, Claims, Current
    <3> QED
      BY <1>6, <1>8, <2>1, <3>1 DEF Claims, Busy, Current
<1>13. Files'
  BY <1>5, <1>6, <1>8, <1>11 DEF ControllerInv, Files, Busy, Current
<1>14. ResultIsOfItsClaim'
  BY <1>1, <1>4, <1>5, <1>7 DEF ControllerInv, ResultIsOfItsClaim
<1>15. StatusIsHonest'
  BY <1>4, <1>5, <1>7 DEF StatusIsHonest
<1> QED
  BY <1>9, <1>10, <1>12, <1>13, <1>14, <1>15 DEF ControllerInv

\* The result file is written.
LEMMA EvaluateKeeps ==
  ASSUME ControllerInv, NEW c \in Coordinator, Evaluate(c)
  PROVE  ControllerInv'
<1> DEFINE q == coord[c].run
<1>1. PICK o \in {"valid", "invalid", "gap"} :
        coord' = [coord EXCEPT ![c].at = "evaluated", ![c].outcome = o]
  BY DEF Evaluate
<1>2. /\ Busy(c) /\ q \in Run /\ coord[c].fencing \in 1..run[q].fencing
      /\ file' = [file EXCEPT ![q] = coord[c].fencing]
      /\ strayed' = IF HoldsLease(c) THEN strayed ELSE strayed \cup {q}
      /\ UNCHANGED <<run, status, workspace, lapsed, kills, resets>>
  BY DEF Evaluate, Busy, ControllerInv, Claims
<1>3. coord[c] \in Process /\ run \in [Run -> RunFile] /\ MaxClaims \in Nat
  BY BenchmarkAssumption DEF ControllerInv, TypeOK
<1>4. /\ coord' \in [Coordinator -> Process]
      /\ coord'[c].at = "evaluated" /\ coord'[c].run = q /\ coord'[c].fencing = coord[c].fencing
      /\ \A d \in Coordinator \ {c} : coord'[d] = coord[d]
  BY <1>1, <1>3 DEF ControllerInv, TypeOK, Process, At
<1>5. coord[c].fencing \in 1..MaxClaims
  BY <1>2, <1>3 DEF RunFile
<1>6. file' \in [Run -> 0..MaxClaims] /\ file'[q] = coord[c].fencing
      /\ \A r \in Run \ {q} : file'[r] = file[r]
  BY <1>2, <1>5 DEF ControllerInv, TypeOK
<1>7. TypeOK'
  BY <1>2, <1>4, <1>6 DEF ControllerInv, TypeOK
<1>8. Claims'
  BY <1>2, <1>4 DEF ControllerInv, Claims, Busy, Current
<1>9. Files'
  <2>1. \A d \in Coordinator \ {c} :
          Busy(d) /\ coord[d].run = q /\ Current(d) => q \in strayed'
    BY <1>2, HolderIsAlive DEF ControllerInv, Claims, Current, HoldsLease
  <2>2. \A d \in Coordinator \ {c} :
          coord[d].at \in {"evaluated", "hashed"} => Busy(d) /\ coord[d].run \in Run
    BY DEF ControllerInv, Claims, Busy
  <2>3. strayed \subseteq strayed'
    BY <1>2
  <2> QED
    <3>1. ASSUME NEW d \in Coordinator \ {c}, coord[d].at \in {"evaluated", "hashed"},
                 Current(d)' /\ coord[d].run \notin strayed'
          PROVE  coord[d].run # q /\ Current(d) /\ coord[d].run \notin strayed
      BY <1>2, <1>4, <2>1, <2>2, <2>3, <3>1 DEF Current
    <3>2. ASSUME NEW d \in Coordinator \ {c}, coord[d].at \in {"evaluated", "hashed"}
          PROVE  file'[coord[d].run] > 0
      BY <1>5, <1>6, <2>2, <3>2 DEF ControllerInv, Files
    <3> QED
      BY <1>4, <1>5, <1>6, <2>2, <3>1, <3>2 DEF ControllerInv, Files
<1>10. ResultIsOfItsClaim'
  <2>1. run[q].status \in {"completed", "invalid"} => q \in strayed'
    BY <1>2 DEF HoldsLease
  <2> QED
    BY <1>2, <1>6, <2>1 DEF ControllerInv, ResultIsOfItsClaim
<1>11. (\A r \in Run : Counted(run[r]))' /\ StatusIsHonest'
  BY <1>2 DEF ControllerInv, StatusIsHonest
<1> QED
  BY <1>7, <1>8, <1>9, <1>10, <1>11 DEF ControllerInv

\* The result file is read again for its hash.
LEMMA HashKeeps ==
  ASSUME ControllerInv, NEW c \in Coordinator, Hash(c)
  PROVE  ControllerInv'
<1> DEFINE q == coord[c].run
<1>1. /\ coord[c].at = "evaluated" /\ q \in Run
      /\ coord' = [coord EXCEPT ![c].at = "hashed", ![c].seen = file[q]]
      /\ UNCHANGED <<run, status, workspace, file, lapsed, strayed, kills, resets>>
  BY DEF Hash, ControllerInv, Claims, Busy
<1>2. coord[c] \in Process /\ file[q] \in 0..MaxClaims
  BY <1>1 DEF ControllerInv, TypeOK
<1>3. /\ coord' \in [Coordinator -> Process]
      /\ coord'[c].at = "hashed" /\ coord'[c].run = q /\ coord'[c].seen = file[q]
      /\ coord'[c].fencing = coord[c].fencing
      /\ \A d \in Coordinator \ {c} : coord'[d] = coord[d]
  BY <1>1, <1>2 DEF ControllerInv, TypeOK, Process, At
<1>4. TypeOK'
  BY <1>1, <1>3 DEF ControllerInv, TypeOK
<1>5. Claims'
  BY <1>1, <1>3 DEF ControllerInv, Claims, Busy, Current
<1>6. Files'
  BY <1>1, <1>3 DEF ControllerInv, Files, Current
<1>7. (\A r \in Run : Counted(run[r]))' /\ StatusIsHonest' /\ ResultIsOfItsClaim'
  BY <1>1 DEF ControllerInv, StatusIsHonest, ResultIsOfItsClaim
<1> QED
  BY <1>4, <1>5, <1>6, <1>7 DEF ControllerInv

\* The time of a lease passes.
LEMMA LapseKeeps ==
  ASSUME ControllerInv, NEW r \in Run, Lapse(r)
  PROVE  ControllerInv'
<1>1. run[r].fencing \in 1..MaxClaims
  BY BenchmarkAssumption DEF Lapse, ControllerInv, TypeOK, RunFile, Counted, Claimable
<1>2. TypeOK'
  BY <1>1 DEF Lapse, ControllerInv, TypeOK
<1> QED
  BY <1>2 DEF Lapse, ControllerInv, Claims, Files, Busy, Current, ResultIsOfItsClaim,
              StatusIsHonest

\* A run is started over.
LEMMA ResetKeeps ==
  ASSUME ControllerInv, NEW r \in Run, Reset(r)
  PROVE  ControllerInv'
<1> DEFINE n == [NewRun EXCEPT !.fencing = run[r].fencing]
<1>1. /\ run' = [run EXCEPT ![r] = n] /\ status' = "pending" /\ resets' = resets + 1
      /\ workspace' = [workspace EXCEPT ![r] = "absent"] /\ resets < MaxResets
      /\ UNCHANGED <<file, lapsed, coord, strayed, kills>>
  BY DEF Reset
<1>2. run[r] \in RunFile /\ 0 \in 0..MaxClaims /\ {MaxResets, MaxClaims} \subseteq Nat
  BY BenchmarkAssumption DEF ControllerInv, TypeOK
<1>3. /\ n \in RunFile /\ n.fencing = run[r].fencing /\ n.status = "pending"
      /\ n.attempt = 0 /\ n.recoveries = 0
  BY <1>2 DEF NewRun, RunFile, Claimable
<1> HIDE DEF n
<1>4. /\ run' \in [Run -> RunFile] /\ run'[r] = n
      /\ \A q \in Run \ {r} : run'[q] = run[q]
  BY <1>1, <1>3 DEF ControllerInv, TypeOK
<1>5. TypeOK'
  BY <1>1, <1>2, <1>4 DEF ControllerInv, TypeOK
<1>6. (\A q \in Run : Counted(run[q]))'
  BY <1>2, <1>3, <1>4 DEF ControllerInv, Counted, Claimable, RunFile
<1>7. Claims'
  BY <1>1, <1>3, <1>4 DEF ControllerInv, Claims, Busy, Current
<1>8. Files'
  <2>1. \A d \in Coordinator : coord[d].at \in {"evaluated", "hashed"} => coord[d].run \in Run
    BY DEF ControllerInv, Claims, Busy
  <2> QED
    BY <1>1, <1>3, <1>4, <2>1 DEF ControllerInv, Files, Current
<1>9. ResultIsOfItsClaim' /\ StatusIsHonest'
  BY <1>1, <1>3, <1>4 DEF ControllerInv, ResultIsOfItsClaim, StatusIsHonest
<1> QED
  BY <1>5, <1>6, <1>7, <1>8, <1>9 DEF ControllerInv

-----------------------------------------------------------------------------
(* The theorems.                                                            *)

\* At first no run was claimed.
LEMMA InitKeeps == Init => ControllerInv
<1> SUFFICES ASSUME Init PROVE ControllerInv
  OBVIOUS
<1>1. /\ 0 \in 0..MaxClaims /\ 0 \in 0..MaxKills /\ 0 \in 0..MaxResets
      /\ None \in Coordinator \cup {None}
  BY BenchmarkAssumption
<1>2. NewRun \in RunFile /\ Counted(NewRun) /\ NewRun.status = "pending"
  BY <1>1 DEF NewRun, RunFile, Claimable, Counted
<1>3. Off \in Process /\ Off.at = "off"
  BY IdleProcesses
<1>4. TypeOK
  BY <1>1, <1>2, <1>3 DEF Init, TypeOK
<1>5. Claims /\ Files
  BY <1>3 DEF Init, Claims, Files, Busy
<1>6. (\A r \in Run : Counted(run[r])) /\ ResultIsOfItsClaim
  BY <1>2 DEF Init, ResultIsOfItsClaim
<1>7. StatusIsHonest
  BY <1>2, BenchmarkAssumption DEF Init, StatusIsHonest
<1> QED
  BY <1>4, <1>5, <1>6, <1>7 DEF ControllerInv

\* Each step keeps the invariant.
LEMMA NextKeeps == ControllerInv /\ [Next]_vars => ControllerInv'
<1> SUFFICES ASSUME ControllerInv, [Next]_vars PROVE ControllerInv'
  OBVIOUS
<1>0. TypeOK
  BY DEF ControllerInv
<1>1. ASSUME NEW c \in Coordinator, Step(c) \/ Loop(c) \/ Throw(c) \/ Drop(c) \/ Kill(c)
      PROVE  ControllerInv'
  <2>1. CASE BeginPrepare(c) \/ EndPrepare(c) \/ Execute(c) \/ Throw(c) \/ Drop(c) \/ Kill(c)
    BY <1>0, <2>1, WorkSteps, WorksKeep
  <2>2. CASE Start(c) \/ Stop(c) \/ Update(c)
    BY <1>0, <2>2, RefreshSteps, WorksKeep, RefreshesKeep
  <2>3. CASE FinishInterrupted(c) \/ FinishGuarded(c) \/ FinishCompleted(c)
               \/ FinishInvalid(c) \/ Catch(c)
    BY <1>0, <2>3, RecordSteps, WorksKeep, RecordsKeep
  <2>4. CASE \E r \in Run : Claim(c, r)
    BY <2>4, ClaimKeeps
  <2>5. CASE Evaluate(c)
    BY <2>5, EvaluateKeeps
  <2>6. CASE Hash(c)
    BY <2>6, HashKeeps
  <2> QED
    BY <1>1, <2>1, <2>2, <2>3, <2>4, <2>5, <2>6 DEF Step, Loop
<1>2. ASSUME NEW r \in Run, Lapse(r) \/ Reset(r) PROVE ControllerInv'
  BY <1>2, LapseKeeps, ResetKeeps
<1>3. CASE UNCHANGED vars
  BY <1>3 DEF vars, ControllerInv, TypeOK, Claims, Files, Busy, Current, ResultIsOfItsClaim,
              StatusIsHonest
<1> QED
  BY <1>1, <1>2, <1>3 DEF Next

\* The invariant holds throughout.
LEMMA Throughout == Spec => []ControllerInv
<1>1. Init => ControllerInv
  BY InitKeeps
<1>2. ControllerInv /\ [Next]_vars => ControllerInv'
  BY NextKeeps
<1> QED
  BY <1>1, <1>2, PTL DEF Spec

\* The types of the controller's state: the bounds on attempts and recoveries
\* hold because each is counted once.
THEOREM BenchmarkTypes == Spec => []TypeOK
<1>1. ControllerInv => TypeOK
  BY DEF ControllerInv
<1> QED
  BY <1>1, Throughout, PTL

\* A recorded result is of the claim that ended the run, and is in the file
\* unless a coordinator without a lease wrote it.
THEOREM ResultsAreOfTheirClaims == Spec => []ResultIsOfItsClaim
<1>1. ControllerInv => ResultIsOfItsClaim
  BY DEF ControllerInv
<1> QED
  BY <1>1, Throughout, PTL

\* recovery_count counts each attempt without a verdict once.
THEOREM RecoveriesAreCounted == Spec => []RecoveryIsCounted
<1>1. ControllerInv => RecoveryIsCounted
  BY DEF ControllerInv, RecoveryIsCounted, Counted
<1> QED
  BY <1>1, Throughout, PTL

\* The status of the controller is that of its runs.
THEOREM StatusStaysHonest == Spec => []StatusIsHonest
<1>1. ControllerInv => StatusIsHonest
  BY DEF ControllerInv
<1> QED
  BY <1>1, Throughout, PTL

\* A run that was completed stays as it is.
THEOREM CompletedStays == Spec => CompletedIsFinal
<1>1. ASSUME ControllerInv, [Next]_vars, NEW r \in Run, run[r].status = "completed"
      PROVE  run'[r] = run[r]
  <2>1. TypeOK /\ \A q \in Run : Counted(run[q])
    BY <1>1 DEF ControllerInv
  <2>2. Recovered \in [Run -> RunFile] /\ Recovered[r] = run[r]
    BY <1>1, <2>1, RecoveryFacts
  <2>3. ASSUME NEW c \in Coordinator, Works(c) \/ Refreshes(c) PROVE run'[r] = run[r]
    BY <2>2, <2>3 DEF Works, Refreshes
  <2>4. ASSUME NEW c \in Coordinator, Records(c) PROVE run'[r] = run[r]
    <3>1. coord[c].run # r
      BY <1>1, <2>4 DEF Records, HoldsLease
    <3> QED
      BY <2>2, <2>4, <3>1 DEF Records
  <2>5. ASSUME NEW c \in Coordinator, NEW q \in Run, Claim(c, q) PROVE run'[r] = run[r]
    <3>1. q # r
      BY <1>1, <2>2, <2>5 DEF Claim, Available, Claimable
    <3> QED
      BY <2>2, <2>5, <3>1 DEF Claim
  <2>6. ASSUME NEW c \in Coordinator, Step(c) \/ Loop(c) \/ Throw(c) \/ Drop(c) \/ Kill(c)
        PROVE  run'[r] = run[r]
    <3>1. CASE BeginPrepare(c) \/ EndPrepare(c) \/ Execute(c) \/ Throw(c) \/ Drop(c)
                 \/ Kill(c)
      BY <2>1, <2>3, <3>1, WorkSteps
    <3>2. CASE Start(c) \/ Stop(c) \/ Update(c)
      BY <2>1, <2>3, <3>2, RefreshSteps
    <3>3. CASE FinishInterrupted(c) \/ FinishGuarded(c) \/ FinishCompleted(c)
                 \/ FinishInvalid(c) \/ Catch(c)
      BY <2>1, <2>3, <2>4, <3>3, RecordSteps
    <3>4. CASE Evaluate(c) \/ Hash(c)
      BY <3>4 DEF Evaluate, Hash
    <3>5. CASE \E q \in Run : Claim(c, q)
      BY <2>5, <3>5
    <3> QED
      BY <2>6, <3>1, <3>2, <3>3, <3>4, <3>5 DEF Step, Loop
  <2>7. ASSUME NEW q \in Run, Lapse(q) \/ Reset(q) PROVE run'[r] = run[r]
    BY <1>1, <2>1, <2>7 DEF Lapse, Reset, Resettable, TypeOK
  <2>8. CASE UNCHANGED vars
    BY <2>8 DEF vars
  <2> QED
    BY <1>1, <2>6, <2>7, <2>8 DEF Next
<1>2. ControllerInv /\ [Next]_vars
        => \A r \in Run : run[r].status = "completed" => run'[r] = run[r]
  BY <1>1
<1> QED
  BY <1>2, Throughout, PTL DEF CompletedIsFinal, Spec
=============================================================================
