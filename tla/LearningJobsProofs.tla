------------------------- MODULE LearningJobsProofs -------------------------
(* A proposal is applied once, and between transactions its state, its job, *)
(* its receipt and its section of the knowledge agree unless a command wrote *)
(* over records that had changed since it read them: the proofs for any     *)
(* number of texts, runs, users, failures and kills.                        *)
EXTENDS LearningJobs, FiniteSetTheorems, SequenceTheorems, TLAPS

\* What the argument needs of the shape of the files.
Shaped(f) ==
  /\ f = [proposals |-> f.proposals, jobs |-> f.jobs, knowledge |-> f.knowledge,
          receipts |-> f.receipts, learned |-> f.learned]
  /\ f.receipts \in [Id -> Nat]

\* A receipt is of a committed application.
Covered(f) == \A i \in Id : /\ f.receipts[i] <= 1
                            /\ f.receipts[i] > 0 => <<"apply", i>> \in keys

\* A transaction in progress, or left behind.
Open ==
  /\ tx = [by |-> tx.by, op |-> tx.op, step |-> tx.step, backup |-> tx.backup, after |-> tx.after]
  /\ tx.op = <<tx.op[1], tx.op[2]>>
  /\ tx.step \in {"begun", "appended", "written"}
  /\ tx.op \notin keys
  /\ Shaped(tx.backup) /\ Covered(tx.backup)

\* Until it writes a receipt there are the receipts of its backup; then
\* there is one more, of its own proposal.
OneMore ==
  \/ files.receipts = tx.backup.receipts
  \/ /\ tx.step = "written" /\ tx.op[1] = "apply"
     /\ files.receipts = [tx.backup.receipts EXCEPT ![tx.op[2]] = @ + 1]

ReceiptInv ==
  /\ Shaped(files)
  /\ tx = NoTx => Covered(files)
  /\ tx # NoTx => Open /\ OneMore /\ (tx.step = "appended" => tx.op[1] = "apply")

-----------------------------------------------------------------------------
(* The steps, as far as receipts are concerned.                             *)

\* Files are written, receipts are not.
KeepsReceipts == Shaped(files') /\ files'.receipts = files.receipts

Quiet == KeepsReceipts /\ UNCHANGED <<keys, tx>>

Opens ==
  \E q, what, on : /\ tx = NoTx
                   /\ <<what, on>> \notin keys
                   /\ tx' = [by |-> q, op |-> <<what, on>>, step |-> "begun",
                             backup |-> files, after |-> files]
                   /\ UNCHANGED <<files, keys>>

Writes ==
  /\ KeepsReceipts
  /\ tx.step = "begun"
  /\ \E s \in {"appended", "written"} : \E a : /\ tx' = [tx EXCEPT !.step = s, !.after = a]
                                               /\ s = "appended" => tx.op[1] = "apply"
  /\ UNCHANGED keys

Receipts ==
  /\ tx.step = "appended"
  /\ Shaped(files')
  /\ files'.receipts = [files.receipts EXCEPT ![tx.op[2]] = @ + 1]
  /\ \E a : tx' = [tx EXCEPT !.step = "written", !.after = a]
  /\ UNCHANGED keys

Closes ==
  /\ tx.step = "written"
  /\ keys' = IF tx.op[1] = "failed" THEN keys ELSE keys \cup {tx.op}
  /\ tx' = NoTx
  /\ UNCHANGED files

Restores == tx # NoTx /\ files' = tx.backup /\ tx' = NoTx /\ UNCHANGED keys

Orphans == tx' = [tx EXCEPT !.by = None] /\ tx # NoTx /\ UNCHANGED <<files, keys>>

\* A record of this form is shaped.
LEMMA FilesShape ==
  ASSUME NEW a, NEW b, NEW c, NEW d \in [Id -> Nat], NEW e
  PROVE  Shaped([proposals |-> a, jobs |-> b, knowledge |-> c, receipts |-> d, learned |-> e])
  BY DEF Shaped

\* Counting once more keeps a counter a counter.
LEMMA OneMoreType ==
  ASSUME NEW S, NEW r \in [S -> Nat], NEW i
  PROVE  [r EXCEPT ![i] = @ + 1] \in [S -> Nat]
<1>1. [r EXCEPT ![i] = @ + 1] = [j \in S |-> IF j = i THEN r[j] + 1 ELSE r[j]]
  OBVIOUS
<1>2. \A j \in S : (IF j = i THEN r[j] + 1 ELSE r[j]) \in Nat
  OBVIOUS
<1> QED
  BY <1>1, <1>2

\* Changing another part of the files leaves the receipts, and the shape.
LEMMA OtherParts ==
  ASSUME NEW f, Shaped(f), NEW x, NEW g,
         \/ g = [f EXCEPT !.knowledge = x]
         \/ g = [f EXCEPT !.jobs = x]
         \/ g = [f EXCEPT !.proposals = x]
  PROVE  Shaped(g) /\ g.receipts = f.receipts
<1>1. /\ f = [proposals |-> f.proposals, jobs |-> f.jobs, knowledge |-> f.knowledge,
              receipts |-> f.receipts, learned |-> f.learned]
      /\ f.receipts \in [Id -> Nat]
  BY DEF Shaped
<1>2. PICK a, b, c, e :
        g = [proposals |-> a, jobs |-> b, knowledge |-> c, receipts |-> f.receipts, learned |-> e]
  <2>1. CASE g = [f EXCEPT !.knowledge = x]
    <3>1. g = [proposals |-> f.proposals, jobs |-> f.jobs, knowledge |-> x,
               receipts |-> f.receipts, learned |-> f.learned]
      BY <1>1, <2>1
    <3> QED
      BY <3>1
  <2>2. CASE g = [f EXCEPT !.jobs = x]
    <3>1. g = [proposals |-> f.proposals, jobs |-> x, knowledge |-> f.knowledge,
               receipts |-> f.receipts, learned |-> f.learned]
      BY <1>1, <2>2
    <3> QED
      BY <3>1
  <2>3. CASE g = [f EXCEPT !.proposals = x]
    <3>1. g = [proposals |-> x, jobs |-> f.jobs, knowledge |-> f.knowledge,
               receipts |-> f.receipts, learned |-> f.learned]
      BY <1>1, <2>3
    <3> QED
      BY <3>1
  <2> QED
    BY <2>1, <2>2, <2>3
<1>3. Shaped(g)
  BY <1>1, <1>2, FilesShape
<1>4. g.receipts = f.receipts
  BY <1>2
<1> QED
  BY <1>3, <1>4

\* A transaction's step is one of these.
LEMMA NoTxStep == NoTx.step = "none" /\ NoTx.by = None
  BY DEF NoTx

\* The steps of transactions, in those terms.
LEMMA TransactionSteps ==
  ASSUME ReceiptInv, NEW p \in Proc, TransactionStep(p)
  PROVE  Writes \/ Receipts \/ Closes \/ Restores
<1>1. Shaped(files)
  BY DEF ReceiptInv
<1>2. CASE WriteLearn(p)
  <2>1. PICK x, y, z, new :
          /\ new = [files EXCEPT !.proposals = x, !.jobs = y, !.learned = z]
          /\ tx.step = "begun"
          /\ files' = new
          /\ tx' = [tx EXCEPT !.step = "written", !.after = new]
          /\ keys' = keys
    BY <1>2 DEF WriteLearn, Puts
  <2>2. Shaped(new) /\ new.receipts = files.receipts
    <3>1. /\ files = [proposals |-> files.proposals, jobs |-> files.jobs,
                      knowledge |-> files.knowledge, receipts |-> files.receipts,
                      learned |-> files.learned]
          /\ files.receipts \in [Id -> Nat]
      BY <1>1 DEF Shaped
    <3>2. new = [proposals |-> x, jobs |-> y, knowledge |-> files.knowledge,
               receipts |-> files.receipts, learned |-> z]
      BY <2>1, <3>1
    <3> QED
      BY <3>1, <3>2, FilesShape
  <2>3. KeepsReceipts
    BY <2>1, <2>2 DEF KeepsReceipts
  <2> QED
    BY <2>1, <2>3 DEF Writes
<1>3. CASE WriteApproval(p)
  <2>1. PICK x, y, new :
          /\ new = [files EXCEPT !.proposals = x, !.jobs = y]
          /\ tx.step = "begun"
          /\ files' = new
          /\ tx' = [tx EXCEPT !.step = "written", !.after = new]
          /\ keys' = keys
    BY <1>3 DEF WriteApproval, Puts
  <2>2. Shaped(new) /\ new.receipts = files.receipts
    <3>1. /\ files = [proposals |-> files.proposals, jobs |-> files.jobs,
                      knowledge |-> files.knowledge, receipts |-> files.receipts,
                      learned |-> files.learned]
          /\ files.receipts \in [Id -> Nat]
      BY <1>1 DEF Shaped
    <3>2. new = [proposals |-> x, jobs |-> y, knowledge |-> files.knowledge,
               receipts |-> files.receipts, learned |-> files.learned]
      BY <2>1, <3>1
    <3> QED
      BY <3>1, <3>2, FilesShape
  <2>3. KeepsReceipts
    BY <2>1, <2>2 DEF KeepsReceipts
  <2> QED
    BY <2>1, <2>3 DEF Writes
<1>4. CASE AppendKnowledge(p)
  <2>1. PICK x, y, new :
          /\ new = [files EXCEPT !.jobs = x, !.knowledge = y]
          /\ tx.step = "begun" /\ tx.op[1] = "apply"
          /\ files' = new
          /\ tx' = [tx EXCEPT !.step = "appended", !.after = new]
          /\ keys' = keys
    BY <1>4 DEF AppendKnowledge, Puts
  <2>2. Shaped(new) /\ new.receipts = files.receipts
    <3>1. /\ files = [proposals |-> files.proposals, jobs |-> files.jobs,
                      knowledge |-> files.knowledge, receipts |-> files.receipts,
                      learned |-> files.learned]
          /\ files.receipts \in [Id -> Nat]
      BY <1>1 DEF Shaped
    <3>2. new = [proposals |-> files.proposals, jobs |-> x, knowledge |-> y,
               receipts |-> files.receipts, learned |-> files.learned]
      BY <2>1, <3>1
    <3> QED
      BY <3>1, <3>2, FilesShape
  <2>3. KeepsReceipts
    BY <2>1, <2>2 DEF KeepsReceipts
  <2> QED
    BY <2>1, <2>3 DEF Writes
<1>5. CASE WriteReceipt(p)
  <2> DEFINE i == tx.op[2]
             more == [files.receipts EXCEPT ![i] = @ + 1]
  <2>1. PICK x, y, new :
          /\ new = [files EXCEPT !.receipts[i] = @ + 1, !.proposals = x, !.jobs = y]
          /\ tx.step = "appended"
          /\ files' = new
          /\ tx' = [tx EXCEPT !.step = "written", !.after = new]
          /\ keys' = keys
    BY <1>5 DEF WriteReceipt, Puts
  <2>2. /\ files = [proposals |-> files.proposals, jobs |-> files.jobs,
                    knowledge |-> files.knowledge, receipts |-> files.receipts,
                    learned |-> files.learned]
        /\ files.receipts \in [Id -> Nat]
    BY <1>1 DEF Shaped
  <2>3. more \in [Id -> Nat]
    BY <2>2, OneMoreType
  <2>4. new = [proposals |-> x, jobs |-> y, knowledge |-> files.knowledge,
               receipts |-> more, learned |-> files.learned]
    BY <2>1, <2>2
  <2>5. Shaped(new) /\ new.receipts = more
    BY <2>3, <2>4, FilesShape
  <2> QED
    BY <2>1, <2>5 DEF Receipts
<1>6. CASE AlreadyApplied(p)
  BY <1>1, <1>6 DEF AlreadyApplied, Puts, Writes, KeepsReceipts
<1>7. CASE WriteFailure(p)
  <2>1. PICK x, new :
          /\ new = [files EXCEPT !.jobs = x] \/ new = files
          /\ tx.step = "begun"
          /\ files' = new
          /\ tx' = [tx EXCEPT !.step = "written", !.after = new]
          /\ keys' = keys
    BY <1>7 DEF WriteFailure, Puts
  <2>2. Shaped(new) /\ new.receipts = files.receipts
    BY <1>1, <2>1, OtherParts
  <2>3. KeepsReceipts
    BY <2>1, <2>2 DEF KeepsReceipts
  <2> QED
    BY <2>1, <2>3 DEF Writes
<1>8. CASE Commit(p)
  BY <1>8 DEF Commit, Closes
<1>9. CASE ApplyThrows(p) \/ ApproveThrows(p)
  <2>1. tx.by = p /\ Restored /\ keys' = keys
    BY <1>9 DEF ApplyThrows, ApproveThrows
  <2>2. tx # NoTx
    BY <2>1, NoTxStep, LearningAssumption
  <2> QED
    BY <2>1, <2>2 DEF Restored, Restores
<1> QED
  BY <1>2, <1>3, <1>4, <1>5, <1>6, <1>7, <1>8, <1>9 DEF TransactionStep

\* The other steps of processes: they open a transaction or write no receipt.
LEMMA OtherSteps ==
  ASSUME ReceiptInv, NEW p \in Proc,
         CommandStep(p) \/ LockStep(p) \/ Tick(p) \/ Kill(p) \/ UserCommand(p)
  PROVE  Quiet \/ Opens \/ Orphans
<1>1. Shaped(files)
  BY DEF ReceiptInv
<1>2. ASSUME UNCHANGED <<files, keys, tx>>  PROVE Quiet
  BY <1>1, <1>2 DEF Quiet, KeepsReceipts
<1>3. ASSUME NEW what, NEW on, Begin(p, <<what, on>>)  PROVE Opens
  BY <1>3 DEF Begin, Opens
<1>4. CASE CommandStep(p)
  <2>1. CASE SkipApproved(p) \/ SeeProposed(p) \/ Done(p) \/ ApplySelect(p)
             \/ RefreshReadApplied(p) \/ RefreshReadFile(p) \/ RefreshDone(p)
    BY <2>1, <1>2 DEF SkipApproved, SeeProposed, Done, ApplySelect,
                      RefreshReadApplied, RefreshReadFile, RefreshDone
  <2>2. CASE ProposeWriteProposals(p)
    BY <1>1, <2>2, OtherParts DEF ProposeWriteProposals, Overwrites, Quiet, KeepsReceipts
  <2>3. CASE ProposeWriteJobs(p)
    BY <1>1, <2>3, OtherParts DEF ProposeWriteJobs, Overwrites, Quiet, KeepsReceipts
  <2>4. CASE ApplyQueue(p)
    <3>1. PICK x : files' = [files EXCEPT !.jobs = x] /\ UNCHANGED <<keys, tx>>
      BY <2>4 DEF ApplyQueue, Overwrites
    <3> QED
      BY <1>1, <3>1, OtherParts DEF Quiet, KeepsReceipts
  <2>5. CASE RefreshWriteFile(p)
    <3>1. CASE UNCHANGED <<files, keys, tx>>
      BY <3>1, <1>2
    <3>2. CASE ~UNCHANGED <<files, keys, tx>>
      <4>1. PICK x : files' = [files EXCEPT !.knowledge = x] /\ UNCHANGED <<keys, tx>>
        BY <2>5, <3>2 DEF RefreshWriteFile, Overwrites
      <4> QED
        BY <1>1, <4>1, OtherParts DEF Quiet, KeepsReceipts
    <3> QED
      BY <3>1, <3>2
  <2> QED
    BY <1>4, <2>1, <2>2, <2>3, <2>4, <2>5 DEF CommandStep
<1>5. CASE LockStep(p)
  BY <1>5, <1>2, <1>3 DEF LockStep, BeginAutoApprove, BeginApply, BeginFailure, Replay
<1>6. CASE Tick(p)
  <2>1. ASSUME NEW r \in Run, BeginLearn(p, r)  PROVE Opens
    BY <2>1, <1>3 DEF BeginLearn
  <2>2. CASE SelectJobs(p)
    BY <2>2, <1>2 DEF SelectJobs
  <2> QED
    BY <1>6, <2>1, <2>2 DEF Tick
<1>7. CASE Kill(p)
  <2>1. CASE tx.by = p
    BY <1>7, <2>1, NoTxStep, LearningAssumption DEF Kill, Orphans
  <2>2. CASE tx.by # p
    BY <1>7, <2>2, <1>2 DEF Kill
  <2> QED
    BY <2>1, <2>2
<1>8. CASE UserCommand(p)
  <2>1. ASSUME NEW r \in Run, ProposeRead(p, r)  PROVE Quiet
    BY <2>1, <1>2 DEF ProposeRead, Reads
  <2>2. ASSUME NEW i \in Id, BeginApprove(p, i)  PROVE Opens
    BY <2>2, <1>3 DEF BeginApprove
  <2>3. ASSUME NEW i \in Id, ApplyRead(p, i)  PROVE Quiet
    BY <2>3, <1>2 DEF ApplyRead, Reads
  <2>4. CASE RefreshRender(p)
    BY <1>1, <2>4, OtherParts DEF RefreshRender, Overwrites, Quiet, KeepsReceipts
  <2> QED
    BY <1>8, <2>1, <2>2, <2>3, <2>4 DEF UserCommand
<1> QED
  BY <1>4, <1>5, <1>6, <1>7, <1>8

-----------------------------------------------------------------------------
\* Receipts are covered from the start.
LEMMA InitReceipts == Init => ReceiptInv
  BY DEF Init, ReceiptInv, NewFiles, Shaped, Covered

\* Every step keeps them covered.
LEMMA StepReceipts == ReceiptInv /\ [Next]_vars => ReceiptInv'
<1> SUFFICES ASSUME ReceiptInv, [Next]_vars  PROVE ReceiptInv'
  OBVIOUS
<1> USE NoTxStep DEF ReceiptInv
<1>1. CASE Quiet
  BY <1>1 DEF Quiet, KeepsReceipts, Covered, Open, OneMore
<1>2. CASE Opens
  <2>1. PICK q, what, on :
          /\ tx = NoTx
          /\ <<what, on>> \notin keys
          /\ tx' = [by |-> q, op |-> <<what, on>>, step |-> "begun",
                    backup |-> files, after |-> files]
          /\ UNCHANGED <<files, keys>>
    BY <1>2 DEF Opens
  <2>2. tx' # NoTx
    BY <2>1
  <2>3. Open' /\ OneMore' /\ tx'.step # "appended"
    BY <2>1 DEF Open, OneMore, Covered
  <2> QED
    BY <2>1, <2>2, <2>3
<1>3. CASE Writes
  <2>1. tx # NoTx
    BY <1>3 DEF Writes
  <2>s. PICK s \in {"appended", "written"} :
          \E a : /\ tx' = [tx EXCEPT !.step = s, !.after = a]
                 /\ s = "appended" => tx.op[1] = "apply"
    BY <1>3 DEF Writes
  <2>2. PICK a : /\ tx' = [tx EXCEPT !.step = s, !.after = a]
                 /\ s = "appended" => tx.op[1] = "apply"
    BY <2>s
  <2>3. tx' = [by |-> tx.by, op |-> tx.op, step |-> s, backup |-> tx.backup, after |-> a]
    BY <2>1, <2>2 DEF Open
  <2>4. tx' # NoTx
    BY <2>3
  <2>5. Shaped(files') /\ files'.receipts = tx.backup.receipts /\ keys' = keys
    BY <1>3, <2>1 DEF Writes, KeepsReceipts, OneMore
  <2>6. Open' /\ OneMore' /\ (tx'.step = "appended" => tx'.op[1] = "apply")
    BY <2>1, <2>2, <2>3, <2>5 DEF Open, OneMore, Covered
  <2> QED
    BY <2>4, <2>5, <2>6
<1>4. CASE Receipts
  <2>1. tx # NoTx
    BY <1>4 DEF Receipts
  <2>2. PICK a : tx' = [tx EXCEPT !.step = "written", !.after = a]
    BY <1>4 DEF Receipts
  <2>3. tx' = [by |-> tx.by, op |-> tx.op, step |-> "written", backup |-> tx.backup, after |-> a]
    BY <2>1, <2>2 DEF Open
  <2>4. tx' # NoTx
    BY <2>3
  <2>5. /\ tx.op[1] = "apply" /\ keys' = keys /\ Shaped(files')
        /\ files'.receipts = [tx.backup.receipts EXCEPT ![tx.op[2]] = @ + 1]
    BY <1>4, <2>1 DEF Receipts, OneMore
  <2>6. Open' /\ OneMore'
    BY <2>1, <2>3, <2>5 DEF Open, OneMore, Covered
  <2> QED
    BY <2>3, <2>4, <2>5, <2>6
<1>5. CASE Closes
  <2>1. tx # NoTx
    BY <1>5 DEF Closes
  <2>2. CASE files.receipts = tx.backup.receipts
    BY <1>5, <2>1, <2>2 DEF Closes, Open, Covered
  <2>3. CASE files.receipts # tx.backup.receipts
    <3> DEFINE i == tx.op[2]
    <3>1. /\ tx.op = <<"apply", i>> /\ <<"apply", i>> \notin keys
          /\ files.receipts = [tx.backup.receipts EXCEPT ![i] = @ + 1]
          /\ tx.backup.receipts \in [Id -> Nat]
          /\ Covered(tx.backup)
      BY <2>1, <2>3 DEF OneMore, Open, Shaped
    <3>2. keys' = keys \cup {<<"apply", i>>}
      BY <1>5, <3>1, <2>3, <2>1 DEF Closes, OneMore
    <3> HIDE DEF i
    <3>3. ASSUME NEW j \in Id
          PROVE  files.receipts[j] <= 1 /\ (files.receipts[j] > 0 => <<"apply", j>> \in keys')
      <4>0. tx.backup.receipts[j] <= 1 /\ (tx.backup.receipts[j] > 0 => <<"apply", j>> \in keys)
        BY <3>1 DEF Covered
      <4>1. CASE j = i
        <5>1. tx.backup.receipts[j] = 0
          BY <3>1, <4>0, <4>1
        <5> QED
          BY <3>1, <3>2, <4>1, <5>1
      <4>2. CASE j # i
        <5>1. files.receipts[j] = tx.backup.receipts[j]
          BY <3>1, <4>2
        <5> QED
          BY <3>2, <4>0, <5>1
      <4> QED
        BY <4>1, <4>2
    <3>4. Covered(files)'
      BY <1>5, <3>3 DEF Closes, Covered
    <3> QED
      BY <1>5, <3>4 DEF Closes
  <2> QED
    BY <2>2, <2>3
<1>6. CASE Restores
  BY <1>6 DEF Restores, Open, Covered
<1>7. CASE Orphans
  <2>1. tx' = [by |-> None, op |-> tx.op, step |-> tx.step, backup |-> tx.backup, after |-> tx.after]
    BY <1>7 DEF Orphans, Open
  <2>2. tx' # NoTx
    BY <1>7, <2>1 DEF Orphans, Open
  <2>3. Open' /\ OneMore' /\ (tx'.step = "appended" => tx'.op[1] = "apply")
    BY <1>7, <2>1 DEF Orphans, Open, OneMore, Covered
  <2> QED
    BY <1>7, <2>2, <2>3 DEF Orphans
<1>8. CASE Recover
  BY <1>8, <1>6 DEF Recover, Restored, Restores
<1>9. CASE UNCHANGED vars
  <2>1. Quiet
    BY <1>9 DEF vars, Quiet, KeepsReceipts
  <2> QED
    BY <2>1, <1>1
<1> QED
  BY <1>1, <1>2, <1>3, <1>4, <1>5, <1>6, <1>7, <1>8, <1>9,
     TransactionSteps, OtherSteps DEF Next, Proc

\* With a transaction in progress, too, no proposal has two receipts.
LEMMA ReceiptsOnce == ReceiptInv => AppliedOnce
<1> SUFFICES ASSUME ReceiptInv, NEW i \in Id  PROVE files.receipts[i] <= 1
  BY DEF AppliedOnce
<1>1. CASE tx = NoTx
  BY <1>1 DEF ReceiptInv, Covered
<1>2. CASE tx # NoTx /\ files.receipts = tx.backup.receipts
  BY <1>2 DEF ReceiptInv, Open, Covered
<1>3. CASE tx # NoTx /\ files.receipts # tx.backup.receipts
  <2> DEFINE j == tx.op[2]
  <2>1. /\ <<"apply", j>> \notin keys
        /\ files.receipts = [tx.backup.receipts EXCEPT ![j] = @ + 1]
        /\ tx.backup.receipts \in [Id -> Nat]
    BY <1>3 DEF ReceiptInv, Open, OneMore, Shaped
  <2>2. Covered(tx.backup)
    BY <1>3 DEF ReceiptInv, Open
  <2>3. tx.backup.receipts[i] <= 1 /\ (tx.backup.receipts[i] > 0 => <<"apply", i>> \in keys)
    BY <2>2 DEF Covered
  <2> HIDE DEF j
  <2>4. CASE j = i
    <3>1. tx.backup.receipts[i] = 0
      BY <2>1, <2>3, <2>4
    <3> QED
      BY <2>1, <2>4, <3>1
  <2>5. CASE j # i
    BY <2>1, <2>3, <2>5
  <2> QED
    BY <2>4, <2>5
<1> QED
  BY <1>1, <1>2, <1>3

\* Every behaviour keeps receipts unique: a queued, requeued, retried,
\* replayed, rolled back or overwritten proposal is applied once.
THEOREM AppliesOnce == Spec => []AppliedOnce
<1>1. Init => ReceiptInv
  BY InitReceipts
<1>2. ReceiptInv /\ [Next]_vars => ReceiptInv'
  BY StepReceipts
<1>3. ReceiptInv => AppliedOnce
  BY ReceiptsOnce
<1> QED
  BY <1>1, <1>2, <1>3, PTL DEF Spec

-----------------------------------------------------------------------------
(* What the writes do to the records of a proposal.                         *)

\* The job of i is applied.
JobDone(f, i) == JobIs(f, i, "applied")

\* A sequence of jobs, seen as a function.
LEMMA JobsAt ==
  ASSUME NEW f, NEW i
  PROVE  /\ HasJob(f, i) <=> \E k \in DOMAIN f.jobs : f.jobs[k].id = i
         /\ JobDone(f, i) <=> \E k \in DOMAIN f.jobs : f.jobs[k].id = i /\ f.jobs[k].status = "applied"
<1>1. HasJob(f, i) <=> \E k \in DOMAIN f.jobs : f.jobs[k].id = i
  BY DEF HasJob, JobsOf
<1>2. JobDone(f, i) <=> \E k \in DOMAIN f.jobs : f.jobs[k].id = i /\ f.jobs[k].status = "applied"
  BY DEF JobDone, JobIs, JobsOf
<1> QED
  BY <1>1, <1>2

\* Changing a job's status changes no other job.
LEMMA ChangingAJob ==
  ASSUME NEW f, f.jobs \in Seq(Job), NEW g, NEW i, NEW s \in JobStatus, NEW n \in {0, 1},
         g.jobs = WithJob(f.jobs, i, s, n)
  PROVE  /\ g.jobs \in Seq(Job)
         /\ \A x : HasJob(g, x) <=> HasJob(f, x)
         /\ \A x : x # i => (JobDone(g, x) <=> JobDone(f, x))
         /\ JobDone(g, i) <=> HasJob(f, i) /\ s = "applied"
<1> DEFINE J == f.jobs
           Changed(j) == [j EXCEPT !.status = s, !.attempt = IF @ < Retries THEN @ + n ELSE @]
           N == Len(J)
<1>1. J \in [1..N -> Job] /\ N \in Nat /\ DOMAIN J = 1..N
  OBVIOUS
<1>2. \A j \in Job : /\ Changed(j) \in Job
                     /\ Changed(j).id = j.id
                     /\ Changed(j).status = s
  <2>1. SUFFICES ASSUME NEW j \in Job
                 PROVE  Changed(j) \in Job /\ Changed(j).id = j.id /\ Changed(j).status = s
    OBVIOUS
  <2>2. PICK x \in Id, y \in JobStatus, z \in 0..Retries :
          j = [id |-> x, status |-> y, attempt |-> z]
    BY DEF Job
  <2>3. PICK a : a = IF z < Retries THEN z + n ELSE z
    OBVIOUS
  <2>4. a \in 0..Retries
    BY <2>3, LearningAssumption
  <2>5. Changed(j) = [id |-> x, status |-> s, attempt |-> a]
    <3>1. j.attempt = z
      BY <2>2
    <3>2. Changed(j) = [j EXCEPT !.status = s, !.attempt = a]
      BY <2>3, <3>1
    <3> HIDE DEF Changed
    <3> QED
      BY <2>2, <3>2
  <2>6. Changed(j) \in Job
    BY <2>4, <2>5 DEF Job
  <2> QED
    BY <2>2, <2>5, <2>6
<1>3. g.jobs = [k \in 1..N |-> IF J[k].id = i THEN Changed(J[k]) ELSE J[k]]
  BY <1>1 DEF WithJob
<1> HIDE DEF Changed
<1>4. g.jobs \in [1..N -> Job]
  BY <1>1, <1>2, <1>3
<1>5. \A k \in 1..N : /\ g.jobs[k].id = J[k].id
                      /\ g.jobs[k].status = IF J[k].id = i THEN s ELSE J[k].status
  BY <1>1, <1>2, <1>3
<1>6. DOMAIN g.jobs = 1..N
  BY <1>4
<1>7. g.jobs \in Seq(Job)
  BY <1>1, <1>4
<1>8. \A x : HasJob(g, x) <=> HasJob(f, x)
  BY <1>1, <1>5, <1>6, JobsAt
<1>9. \A x : x # i => (JobDone(g, x) <=> JobDone(f, x))
  BY <1>1, <1>5, <1>6, JobsAt
<1>10. JobDone(g, i) <=> HasJob(f, i) /\ s = "applied"
  BY <1>1, <1>5, <1>6, JobsAt
<1> QED
  BY <1>7, <1>8, <1>9, <1>10

\* A new job that is not applied.
LEMMA NewJobs ==
  ASSUME NEW f, f.jobs \in Seq(Job), NEW g, NEW new \in Seq(Job),
         \A j \in Range(new) : j.status # "applied",
         g.jobs = f.jobs \o new
  PROVE  /\ g.jobs \in Seq(Job)
         /\ \A x : HasJob(g, x) <=> HasJob(f, x) \/ \E j \in Range(new) : j.id = x
         /\ \A x : JobDone(g, x) <=> JobDone(f, x)
<1>1. g.jobs \in Seq(Job) /\ Range(g.jobs) = Range(f.jobs) \cup Range(new)
  BY ConcatProperties, RangeConcatenation
<1>2. ASSUME NEW h
      PROVE  \A x : /\ HasJob(h, x) <=> \E j \in Range(h.jobs) : j.id = x
                    /\ JobDone(h, x) <=> \E j \in Range(h.jobs) : j.id = x /\ j.status = "applied"
  BY JobsAt DEF Range
<1>3. ASSUME NEW x
      PROVE  /\ HasJob(g, x) <=> HasJob(f, x) \/ \E j \in Range(new) : j.id = x
             /\ JobDone(g, x) <=> JobDone(f, x)
  <2>1. /\ HasJob(g, x) <=> \E j \in Range(g.jobs) : j.id = x
        /\ JobDone(g, x) <=> \E j \in Range(g.jobs) : j.id = x /\ j.status = "applied"
    BY <1>2
  <2>2. /\ HasJob(f, x) <=> \E j \in Range(f.jobs) : j.id = x
        /\ JobDone(f, x) <=> \E j \in Range(f.jobs) : j.id = x /\ j.status = "applied"
    BY <1>2
  <2> QED
    BY <1>1, <2>1, <2>2
<1> QED
  BY <1>1, <1>3

\* Queueing: the job is there, and as much applied as before.
LEMMA QueueingAJob ==
  ASSUME NEW f, f.jobs \in Seq(Job), NEW i \in Id, NEW g, g.jobs = JobsQueued(f, i)
  PROVE  /\ g.jobs \in Seq(Job)
         /\ \A x : HasJob(g, x) <=> HasJob(f, x) \/ x = i
         /\ \A x : JobDone(g, x) <=> JobDone(f, x)
<1>1. CASE HasJob(f, i) /\ JobDone(f, i)
  <2>1. g.jobs = f.jobs
    BY <1>1 DEF JobsQueued, JobDone
  <2> QED
    BY <1>1, <2>1, JobsAt
<1>2. CASE HasJob(f, i) /\ ~JobDone(f, i)
  <2>1. g.jobs = WithJob(f.jobs, i, "queued", 0)
    BY <1>2 DEF JobsQueued, JobDone
  <2>2. "queued" \in JobStatus /\ "queued" # "applied"
    BY DEF JobStatus
  <2> QED
    BY <1>2, <2>1, <2>2, ChangingAJob
<1>3. CASE ~HasJob(f, i)
  <2> DEFINE new == <<NewJob(i, "queued")>>
  <2>1. NewJob(i, "queued") \in Job
    BY LearningAssumption DEF NewJob, Job, JobStatus
  <2>2. g.jobs = f.jobs \o new
    BY <1>3, <2>1 DEF JobsQueued
  <2>3. /\ new \in Seq(Job) /\ Range(new) = {NewJob(i, "queued")}
    BY <2>1 DEF Range
  <2> HIDE DEF new
  <2>4. \A j \in Range(new) : j.id = i /\ j.status # "applied"
    BY <2>3 DEF NewJob
  <2>5. /\ g.jobs \in Seq(Job)
        /\ \A x : HasJob(g, x) <=> HasJob(f, x) \/ \E j \in Range(new) : j.id = x
        /\ \A x : JobDone(g, x) <=> JobDone(f, x)
    BY <2>2, <2>3, <2>4, NewJobs
  <2>6. \A x : (\E j \in Range(new) : j.id = x) <=> x = i
    BY <2>3, <2>4
  <2> QED
    BY <2>5, <2>6
<1> QED
  BY <1>1, <1>2, <1>3

\* Proposing: the new proposals have jobs, and as many are applied as before.
LEMMA ProposingJobs ==
  ASSUME NEW f, f.jobs \in Seq(Job), NEW ids \in Seq(Id), NEW g, g.jobs = JobsProposed(f, ids)
  PROVE  /\ g.jobs \in Seq(Job)
         /\ \A x : HasJob(g, x) <=> HasJob(f, x) \/ \E k \in DOMAIN ids : ids[k] = x
         /\ \A x : JobDone(g, x) <=> JobDone(f, x)
<1> DEFINE new == [k \in DOMAIN ids |-> NewJob(ids[k], "waiting_approval")]
<1>1. DOMAIN ids = 1..Len(ids) /\ Len(ids) \in Nat /\ \A k \in DOMAIN ids : ids[k] \in Id
  OBVIOUS
<1>2. \A i \in Id : NewJob(i, "waiting_approval") \in Job
  BY LearningAssumption DEF NewJob, Job, JobStatus
<1>3. new \in [1..Len(ids) -> Job]
  BY <1>1, <1>2
<1>4. /\ new \in Seq(Job) /\ DOMAIN new = DOMAIN ids
      /\ \A k \in DOMAIN ids : new[k].id = ids[k] /\ new[k].status # "applied"
  BY <1>1, <1>3 DEF NewJob
<1>5. g.jobs = f.jobs \o new
  BY DEF JobsProposed
<1> HIDE DEF new
<1>6. \A j \in Range(new) : j.status # "applied"
  BY <1>4 DEF Range
<1>7. /\ g.jobs \in Seq(Job)
      /\ \A x : HasJob(g, x) <=> HasJob(f, x) \/ \E j \in Range(new) : j.id = x
      /\ \A x : JobDone(g, x) <=> JobDone(f, x)
  BY <1>4, <1>5, <1>6, NewJobs
<1>8. \A x : (\E j \in Range(new) : j.id = x) <=> (\E k \in DOMAIN ids : ids[k] = x)
  BY <1>4 DEF Range
<1> QED
  BY <1>7, <1>8

-----------------------------------------------------------------------------
(* What holds of the files, of the copies that are kept of them, and of     *)
(* those who hold them.  n tells how many ids of each text were given out.  *)

Given(n, i) == i[2] <= n[i[1]]

\* A set of files, with no trace of an id that was not given out.
Store(n, f) ==
  /\ f \in Files
  /\ \A i \in Id : f.proposals[i] # "none" \/ HasJob(f, i) => Given(n, i)

Untouched(f, i) == f.proposals[i] = "none" /\ ~HasJob(f, i)

\* A proposal and its job agree.
Agree(f, i) ==
  /\ f.proposals[i] = "applied" => f.receipts[i] > 0
  /\ f.proposals[i] = "applied" <=> JobDone(f, i)

\* g, written over f, has lost nothing of i.
Good(f, g, i) ==
  /\ Agree(f, i) => Agree(g, i)
  /\ f.proposals[i] = "applied" => g.proposals[i] = "applied"
  /\ i \in f.knowledge => i \in g.knowledge
  /\ g.proposals[i] = "applied" /\ f.proposals[i] # "applied" => i \in g.knowledge

\* The same of i in both.
Same(f, b, i) ==
  /\ f.proposals[i] = b.proposals[i]
  /\ HasJob(f, i) <=> HasJob(b, i)
  /\ JobDone(f, i) <=> JobDone(b, i)

\* A set of files, part by part.
LEMMA FilesParts ==
  ASSUME NEW f \in Files
  PROVE  /\ f = [proposals |-> f.proposals, jobs |-> f.jobs, knowledge |-> f.knowledge,
                 receipts |-> f.receipts, learned |-> f.learned]
         /\ f.proposals \in [Id -> ProposalStatus] /\ f.jobs \in Seq(Job)
         /\ f.knowledge \subseteq Id /\ f.receipts \in [Id -> Nat] /\ f.learned \subseteq Run
  BY DEF Files

\* ... and put together.
LEMMA FilesOf ==
  ASSUME NEW P \in [Id -> ProposalStatus], NEW J \in Seq(Job), NEW K \in SUBSET Id,
         NEW R \in [Id -> Nat], NEW L \in SUBSET Run, NEW g,
         g = [proposals |-> P, jobs |-> J, knowledge |-> K, receipts |-> R, learned |-> L]
  PROVE  /\ g \in Files
         /\ g.proposals = P /\ g.jobs = J /\ g.knowledge = K /\ g.receipts = R /\ g.learned = L
  BY DEF Files

\* Records of which no proposal differs.
LEMMA NoDifference ==
  ASSUME NEW f, NEW b, NEW i \in Id
  PROVE  /\ JobsOf(f, i) = JobsOf(b, i) => (JobDone(f, i) <=> JobDone(b, i))
         /\ i \notin Differ(f, b) => Same(f, b, i)
  BY DEF Differ, Same, HasJob, JobDone, JobIs

\* The new files have no trace of anything.
LEMMA NewStore ==
  ASSUME NEW n
  PROVE  /\ Store(n, NewFiles)
         /\ \A i \in Id : Untouched(NewFiles, i) /\ Agree(NewFiles, i)
<1>1. NewFiles \in Files
  BY DEF NewFiles, Files, ProposalStatus
<1>2. \A i \in Id : /\ NewFiles.proposals[i] = "none"
                    /\ ~HasJob(NewFiles, i) /\ ~JobDone(NewFiles, i)
  <2>1. NewFiles.jobs = <<>> /\ \A i \in Id : NewFiles.proposals[i] = "none"
    BY DEF NewFiles
  <2> QED
    BY <2>1, JobsAt
<1> QED
  BY <1>1, <1>2 DEF Store, Untouched, Agree

\* More ids are given out: what held of the files holds.
LEMMA MoreGiven ==
  ASSUME NEW n, NEW m, \A i \in Id : Given(n, i) => Given(m, i), NEW f, Store(n, f)
  PROVE  Store(m, f)
  BY DEF Store

-----------------------------------------------------------------------------
(* The writes.                                                              *)

\* Proposing new ids, in either file or in both.
LEMMA ProposingNew ==
  ASSUME NEW n, NEW f, Store(n, f), NEW b, Store(n, b), NEW ids \in Seq(Id),
         \A k \in DOMAIN ids : Given(n, ids[k]) /\ Untouched(b, ids[k]),
         NEW P \in {f.proposals, Proposed(b, ids)}, NEW J \in {f.jobs, JobsProposed(b, ids)},
         NEW L \in SUBSET Run, NEW g,
         g = [proposals |-> P, jobs |-> J, knowledge |-> f.knowledge,
              receipts |-> f.receipts, learned |-> L]
  PROVE  /\ Store(n, g)
         /\ \A i \in Id : Same(f, b, i) => Good(f, g, i)
         /\ \A i \in Id : P = f.proposals /\ JobsOf(f, i) = JobsOf(b, i) => Good(f, g, i)
<1>1. f \in Files /\ b \in Files
  BY DEF Store
<1>p. /\ f.proposals \in [Id -> ProposalStatus] /\ f.jobs \in Seq(Job)
      /\ f.knowledge \in SUBSET Id /\ f.receipts \in [Id -> Nat] /\ f.learned \in SUBSET Run
  BY <1>1, FilesParts
<1>q. b.proposals \in [Id -> ProposalStatus] /\ b.jobs \in Seq(Job)
  BY <1>1, FilesParts
<1>2. \A k \in DOMAIN ids : ids[k] \in Id
  OBVIOUS
<1>3. /\ Proposed(b, ids) \in [Id -> ProposalStatus]
      /\ \A i \in Id : Proposed(b, ids)[i] =
           IF \E k \in DOMAIN ids : ids[k] = i THEN "proposed" ELSE b.proposals[i]
  BY <1>1, FilesParts DEF Proposed, ProposalStatus
<1>4. JobsProposed(b, ids) \in Seq(Job)
  <2>1. PICK h : h = [jobs |-> JobsProposed(b, ids)]
    OBVIOUS
  <2>2. h.jobs = JobsProposed(b, ids)
    BY <2>1
  <2> QED
    BY <2>2, <1>q, ProposingJobs
<1>5. P \in [Id -> ProposalStatus] /\ J \in Seq(Job)
  BY <1>1, <1>3, <1>4, FilesParts
<1>6. /\ g \in Files
      /\ g.proposals = P /\ g.jobs = J /\ g.knowledge = f.knowledge /\ g.receipts = f.receipts
  BY <1>1, <1>5, <1>p DEF Files
<1>7. \A i \in Id : \/ g.proposals[i] = f.proposals[i]
                    \/ (\E k \in DOMAIN ids : ids[k] = i) /\ g.proposals[i] = "proposed"
                    \/ g.proposals[i] = b.proposals[i]
  BY <1>3, <1>6
<1>8. \/ \A i : /\ HasJob(g, i) <=> HasJob(f, i)
                /\ JobDone(g, i) <=> JobDone(f, i)
      \/ \A i : /\ HasJob(g, i) <=> HasJob(b, i) \/ \E k \in DOMAIN ids : ids[k] = i
                /\ JobDone(g, i) <=> JobDone(b, i)
  <2>1. CASE J = f.jobs
    BY <1>6, <2>1, JobsAt
  <2>2. CASE J = JobsProposed(b, ids)
    BY <1>1, <1>6, <2>2, <1>q, ProposingJobs
  <2> QED
    BY <2>1, <2>2
<1>9. \A i \in Id : JobDone(f, i) => HasJob(f, i)
  BY JobsAt
<1>10. Store(n, g)
  BY <1>6, <1>7, <1>8 DEF Store
<1>11. \A i \in Id : Same(f, b, i) => Good(f, g, i)
  BY <1>6, <1>7, <1>8, <1>9 DEF Same, Good, Agree, Untouched
<1>12. ASSUME NEW i \in Id, P = f.proposals, JobsOf(f, i) = JobsOf(b, i)
       PROVE  Good(f, g, i)
  <2>1. JobDone(f, i) <=> JobDone(b, i)
    BY <1>12, NoDifference
  <2> QED
    BY <1>6, <1>8, <1>12, <2>1 DEF Good, Agree
<1> QED
  BY <1>10, <1>11, <1>12

\* Approving a proposal and queueing its job, or queueing it alone.
LEMMA Queueing ==
  ASSUME NEW n, NEW f, Store(n, f), NEW b, Store(n, b), NEW j \in Id, Given(n, j),
         NEW P \in {f.proposals, [b.proposals EXCEPT ![j] = "approved"]}, NEW g,
         g = [proposals |-> P, jobs |-> JobsQueued(b, j), knowledge |-> f.knowledge,
              receipts |-> f.receipts, learned |-> f.learned]
  PROVE  /\ Store(n, g)
         /\ \A i \in Id : Same(f, b, i) /\ (i # j \/ b.proposals[j] # "applied" \/ P = f.proposals)
                          => Good(f, g, i)
<1>1. f \in Files /\ b \in Files
  BY DEF Store
<1>p. /\ f.proposals \in [Id -> ProposalStatus] /\ f.jobs \in Seq(Job)
      /\ f.knowledge \in SUBSET Id /\ f.receipts \in [Id -> Nat] /\ f.learned \in SUBSET Run
  BY <1>1, FilesParts
<1>q. b.proposals \in [Id -> ProposalStatus] /\ b.jobs \in Seq(Job)
  BY <1>1, FilesParts
<1>2. /\ [b.proposals EXCEPT ![j] = "approved"] \in [Id -> ProposalStatus]
      /\ \A i \in Id : [b.proposals EXCEPT ![j] = "approved"][i] =
           IF i = j THEN "approved" ELSE b.proposals[i]
  BY <1>1, FilesParts DEF ProposalStatus
<1>3. JobsQueued(b, j) \in Seq(Job)
  <2>1. PICK h : h = [jobs |-> JobsQueued(b, j)]
    OBVIOUS
  <2>2. h.jobs = JobsQueued(b, j)
    BY <2>1
  <2> QED
    BY <2>2, <1>q, QueueingAJob
<1>4. /\ g \in Files
      /\ g.proposals = P /\ g.jobs = JobsQueued(b, j)
      /\ g.knowledge = f.knowledge /\ g.receipts = f.receipts
  BY <1>1, <1>2, <1>3, <1>p DEF Files
<1>5. \A i : /\ HasJob(g, i) <=> HasJob(b, i) \/ i = j
             /\ JobDone(g, i) <=> JobDone(b, i)
  BY <1>1, <1>4, <1>q, QueueingAJob
<1>6. \A i \in Id : \/ P = f.proposals /\ g.proposals[i] = f.proposals[i]
                    \/ i = j /\ g.proposals[i] = "approved"
                    \/ i # j /\ g.proposals[i] = b.proposals[i]
  BY <1>2, <1>4
<1>7. Store(n, g)
  BY <1>4, <1>5, <1>6 DEF Store
<1>8. ASSUME NEW i \in Id, Same(f, b, i), i # j \/ b.proposals[j] # "applied" \/ P = f.proposals
      PROVE  Good(f, g, i)
  BY <1>4, <1>5, <1>6, <1>8 DEF Same, Good, Agree
<1> QED
  BY <1>7, <1>8

\* A job runs, and its section is appended; or it fails.
LEMMA Running ==
  ASSUME NEW n, NEW f, Store(n, f), NEW b, Store(n, b), NEW j \in Id, ~JobDone(b, j),
         NEW s \in {"running", "failed"}, NEW t \in {0, 1}, NEW K \in SUBSET Id, NEW g,
         g = [proposals |-> f.proposals, jobs |-> WithJob(b.jobs, j, s, t), knowledge |-> K,
              receipts |-> f.receipts, learned |-> f.learned]
  PROVE  /\ Store(n, g)
         /\ HasJob(g, j) <=> HasJob(b, j)
         /\ \A i \in Id : Same(f, b, i) /\ (i \in f.knowledge => i \in K) => Good(f, g, i)
<1>1. f \in Files /\ b \in Files
  BY DEF Store
<1>p. /\ f.proposals \in [Id -> ProposalStatus] /\ f.jobs \in Seq(Job)
      /\ f.knowledge \in SUBSET Id /\ f.receipts \in [Id -> Nat] /\ f.learned \in SUBSET Run
  BY <1>1, FilesParts
<1>q. b.proposals \in [Id -> ProposalStatus] /\ b.jobs \in Seq(Job)
  BY <1>1, FilesParts
<1>2. s \in JobStatus /\ s # "applied"
  BY DEF JobStatus
<1>3. WithJob(b.jobs, j, s, t) \in Seq(Job)
  <2>1. PICK h : h = [jobs |-> WithJob(b.jobs, j, s, t)]
    OBVIOUS
  <2>2. h.jobs = WithJob(b.jobs, j, s, t)
    BY <2>1
  <2> QED
    BY <2>2, <1>2, <1>q, ChangingAJob
<1>4. /\ g \in Files
      /\ g.proposals = f.proposals /\ g.jobs = WithJob(b.jobs, j, s, t)
      /\ g.knowledge = K /\ g.receipts = f.receipts
  BY <1>1, <1>3, <1>p DEF Files
<1>5. \A i : /\ HasJob(g, i) <=> HasJob(b, i)
             /\ JobDone(g, i) <=> JobDone(b, i)
  <2>1. PICK h : h = g
    OBVIOUS
  <2>2. h.jobs = WithJob(b.jobs, j, s, t)
    BY <1>4, <2>1
  <2>3. /\ \A x : HasJob(h, x) <=> HasJob(b, x)
        /\ \A x : x # j => (JobDone(h, x) <=> JobDone(b, x))
        /\ JobDone(h, j) <=> HasJob(b, j) /\ s = "applied"
    BY <1>2, <1>q, <2>2, ChangingAJob
  <2> QED
    BY <1>2, <2>1, <2>3
<1>6. Store(n, g)
  BY <1>4, <1>5 DEF Store
<1>7. \A i \in Id : Same(f, b, i) /\ (i \in f.knowledge => i \in K) => Good(f, g, i)
  BY <1>4, <1>5 DEF Same, Good, Agree
<1> QED
  BY <1>5, <1>6, <1>7

\* The receipt of an application is written.
LEMMA Receiving ==
  ASSUME NEW n, NEW f, Store(n, f), NEW b, Store(n, b), NEW j \in Id, HasJob(b, j), NEW g,
         g = [proposals |-> [b.proposals EXCEPT ![j] = "applied"],
              jobs |-> WithJob(b.jobs, j, "applied", 1), knowledge |-> f.knowledge,
              receipts |-> [f.receipts EXCEPT ![j] = @ + 1], learned |-> f.learned]
  PROVE  /\ Store(n, g)
         /\ \A i \in Id : Same(f, b, i) /\ (i = j => i \in f.knowledge) => Good(f, g, i)
<1>1. f \in Files /\ b \in Files
  BY DEF Store
<1>p. /\ f.proposals \in [Id -> ProposalStatus] /\ f.jobs \in Seq(Job)
      /\ f.knowledge \in SUBSET Id /\ f.receipts \in [Id -> Nat] /\ f.learned \in SUBSET Run
  BY <1>1, FilesParts
<1>q. b.proposals \in [Id -> ProposalStatus] /\ b.jobs \in Seq(Job)
  BY <1>1, FilesParts
<1>2. /\ [b.proposals EXCEPT ![j] = "applied"] \in [Id -> ProposalStatus]
      /\ \A i \in Id : [b.proposals EXCEPT ![j] = "applied"][i] =
           IF i = j THEN "applied" ELSE b.proposals[i]
  BY <1>1, FilesParts DEF ProposalStatus
<1>3. /\ [f.receipts EXCEPT ![j] = @ + 1] \in [Id -> Nat]
      /\ \A i \in Id : [f.receipts EXCEPT ![j] = @ + 1][i] =
           IF i = j THEN f.receipts[i] + 1 ELSE f.receipts[i]
  BY <1>1, FilesParts
<1>4. "applied" \in JobStatus
  BY DEF JobStatus
<1>5. WithJob(b.jobs, j, "applied", 1) \in Seq(Job)
  <2>1. PICK h : h = [jobs |-> WithJob(b.jobs, j, "applied", 1)]
    OBVIOUS
  <2>2. h.jobs = WithJob(b.jobs, j, "applied", 1)
    BY <2>1
  <2> QED
    BY <2>2, <1>4, <1>q, ChangingAJob
<1>6. /\ g \in Files
      /\ g.proposals = [b.proposals EXCEPT ![j] = "applied"]
      /\ g.jobs = WithJob(b.jobs, j, "applied", 1)
      /\ g.knowledge = f.knowledge
      /\ g.receipts = [f.receipts EXCEPT ![j] = @ + 1]
  BY <1>1, <1>2, <1>3, <1>5, <1>p DEF Files
<1>7. \A i : /\ HasJob(g, i) <=> HasJob(b, i)
             /\ i # j => (JobDone(g, i) <=> JobDone(b, i))
             /\ i = j => JobDone(g, i)
  <2>1. PICK h : h = g
    OBVIOUS
  <2>2. h.jobs = WithJob(b.jobs, j, "applied", 1)
    BY <1>6, <2>1
  <2>3. /\ \A x : HasJob(h, x) <=> HasJob(b, x)
        /\ \A x : x # j => (JobDone(h, x) <=> JobDone(b, x))
        /\ JobDone(h, j) <=> HasJob(b, j)
    BY <1>4, <1>q, <2>2, ChangingAJob
  <2> QED
    BY <2>1, <2>3
<1>8. Store(n, g)
  BY <1>2, <1>6, <1>7 DEF Store
<1>9. ASSUME NEW i \in Id, Same(f, b, i), i = j => i \in f.knowledge
      PROVE  Good(f, g, i)
  <2>1. f.receipts[i] \in Nat
    BY <1>1, FilesParts
  <2>2. CASE i = j
    BY <1>2, <1>3, <1>6, <1>7, <1>9, <2>1, <2>2 DEF Good, Agree
  <2>3. CASE i # j
    BY <1>2, <1>3, <1>6, <1>7, <1>9, <2>1, <2>3 DEF Same, Good, Agree
  <2> QED
    BY <2>2, <2>3
<1> QED
  BY <1>8, <1>9

\* decisions.md is written anew.
LEMMA Sections ==
  ASSUME NEW n, NEW f, Store(n, f), NEW K \in SUBSET Id, NEW g,
         g = [proposals |-> f.proposals, jobs |-> f.jobs, knowledge |-> K,
              receipts |-> f.receipts, learned |-> f.learned]
  PROVE  /\ Store(n, g)
         /\ \A i \in Id : Agree(f, i) => Agree(g, i)
         /\ \A i \in Id : (i \in f.knowledge => i \in K) => Good(f, g, i)
<1>1. f \in Files
  BY DEF Store
<1>p. /\ f.proposals \in [Id -> ProposalStatus] /\ f.jobs \in Seq(Job)
      /\ f.knowledge \in SUBSET Id /\ f.receipts \in [Id -> Nat] /\ f.learned \in SUBSET Run
  BY <1>1, FilesParts
<1>2. /\ g \in Files
      /\ g.proposals = f.proposals /\ g.jobs = f.jobs
      /\ g.knowledge = K /\ g.receipts = f.receipts
  BY <1>1, <1>p DEF Files
<1>3. \A i : /\ HasJob(g, i) <=> HasJob(f, i)
             /\ JobDone(g, i) <=> JobDone(f, i)
  BY <1>2, JobsAt
<1>4. Store(n, g)
  BY <1>2, <1>3 DEF Store
<1>5. \A i \in Id : Agree(f, i) => Agree(g, i)
  BY <1>2, <1>3 DEF Agree
<1>6. \A i \in Id : (i \in f.knowledge => i \in K) => Good(f, g, i)
  BY <1>2, <1>5 DEF Good
<1> QED
  BY <1>4, <1>5, <1>6

-----------------------------------------------------------------------------
(* Lists of ids.                                                            *)

\* There are finitely many ids.
LEMMA IdsFinite == \A S \in SUBSET Id : IsFiniteSet(S)
<1>1. IsFiniteSet(Change) /\ IsFiniteSet(1..MaxIssues)
  BY FS_Interval, LearningAssumption
<1>2. IsFiniteSet(Id)
  BY <1>1, FS_Product DEF Id
<1>3. ASSUME NEW S \in SUBSET Id  PROVE IsFiniteSet(S)
  BY <1>2, FS_Subset
<1> QED
  BY <1>3

\* A list of a set has its members.
LEMMA ListOf ==
  ASSUME NEW S \in SUBSET Id
  PROVE  /\ SetToSeq(S) \in Seq(Id)
         /\ Range(SetToSeq(S)) = S
<1> DEFINE n == Cardinality(S)
           f == SetToSeq(S)
<1>1. IsFiniteSet(S)
  BY IdsFinite
<1>2. n \in Nat /\ ExistsBijection(1..n, S)
  BY <1>1, FS_CardinalityType
<1>3. \E g \in [1..n -> S] : IsInjective(g)
  BY <1>2 DEF ExistsBijection, Bijection, Injection, IsInjective
<1>4. f \in [1..n -> S] /\ IsInjective(f)
  BY <1>3 DEF SetToSeq
<1>5. f \in Injection(1..n, S)
  BY <1>4 DEF Injection
<1>6. Cardinality(1..n) = n
  BY <1>2, FS_Interval
<1>7. f \in Surjection(1..n, S)
  BY <1>1, <1>5, <1>6, FS_Injection
<1>8. Range(f) = S
  BY <1>4, <1>7 DEF Surjection, Range
<1>9. f \in Seq(Id)
  BY <1>2, <1>4
<1> QED
  BY <1>8, <1>9

\* What is left of a list.
LEMMA TailOf ==
  ASSUME NEW s \in Seq(Id), s # <<>>
  PROVE  /\ Tail(s) \in Seq(Id)
         /\ Head(s) \in Id /\ 1 \in DOMAIN s /\ Head(s) = s[1]
         /\ \A k \in DOMAIN Tail(s) : k + 1 \in DOMAIN s /\ Tail(s)[k] = s[k + 1]
         /\ \A i \in Range(s) : i = Head(s) \/ i \in Range(Tail(s))
<1>1. /\ Tail(s) \in Seq(Id) /\ Head(s) = s[1] /\ DOMAIN s = 1..Len(s) /\ Len(s) \in Nat \ {0}
      /\ DOMAIN Tail(s) = 1..(Len(s) - 1)
      /\ \A k \in 1..(Len(s) - 1) : Tail(s)[k] = s[k + 1]
  OBVIOUS
<1>2. Head(s) \in Id /\ 1 \in DOMAIN s
  BY <1>1
<1>3. \A k \in DOMAIN Tail(s) : k + 1 \in DOMAIN s /\ Tail(s)[k] = s[k + 1]
  BY <1>1
<1>4. ASSUME NEW k \in DOMAIN s
      PROVE  s[k] = Head(s) \/ \E m \in DOMAIN Tail(s) : Tail(s)[m] = s[k]
  <2>1. CASE k = 1
    BY <1>1, <2>1
  <2>2. CASE k # 1
    <3>1. k - 1 \in DOMAIN Tail(s) /\ Tail(s)[k - 1] = s[k]
      BY <1>1, <2>2
    <3> QED
      BY <3>1
  <2> QED
    BY <2>1, <2>2
<1>5. \A i \in Range(s) : i = Head(s) \/ i \in Range(Tail(s))
  BY <1>4 DEF Range
<1> QED
  BY <1>1, <1>2, <1>3, <1>5

-----------------------------------------------------------------------------
(* The invariant.                                                           *)

\* What a process does is sane: what it read has no trace of an id that was
\* not given out, nor of the ids it is about to propose.
Sane(n, r) ==
  /\ r = [at |-> r.at, ids |-> r.ids, saw |-> r.saw]
  /\ Store(n, r.saw)
  /\ r.at \notin {"applying", "failing"} => r.ids \in Seq(Id)
  /\ r.at \in {"waiting", "append_write", "apply"} => r.ids # <<>>
  /\ r.at \in {"learning", "approving", "waiting", "propose", "propose_jobs", "apply"} =>
       \A k \in DOMAIN r.ids : Given(n, r.ids[k])
  /\ r.at \in {"propose", "propose_jobs"} =>
       \A k \in DOMAIN r.ids : Untouched(r.saw, r.ids[k])

\* A transaction in progress, or left behind.
HeldTx(n, t) ==
  /\ t = [by |-> t.by, op |-> t.op, step |-> t.step, backup |-> t.backup, after |-> t.after]
  /\ t.step \in {"begun", "appended", "written"}
  /\ Store(n, t.backup) /\ Store(n, t.after)
  /\ t.op[1] \in {"approve", "auto"} => t.op[2] \in Id /\ Given(n, t.op[2])
  /\ t.op[1] = "learn" => t.op[2] \in Run
  /\ t.step = "appended" => t.op[1] = "apply" /\ t.op[2] \in Id /\ HasJob(t.after, t.op[2])

\* Whoever holds the transaction t is at the place of its operation.
Busy(t, p, r) ==
  t.by = p =>
    \/ /\ t.op[1] = "learn" /\ r.at = "learning"
       /\ t.step = "begun" => \A k \in DOMAIN r.ids : Untouched(t.after, r.ids[k])
    \/ t.op[1] = "auto" /\ r.at = "approving" /\ r.ids # <<>>
    \/ t.op[1] = "apply" /\ r.at = "applying" /\ r.ids # <<>>
    \/ t.op[1] = "failed" /\ r.at = "failing"
    \/ t.op[1] = "approve" /\ r.at = "approve"

RecordsInv ==
  /\ issued \in [Change -> 0..MaxIssues]
  /\ Store(issued, files)
  /\ proc = [p \in Proc |-> proc[p]]
  /\ \A p \in Proc : Sane(issued, proc[p]) /\ Busy(tx, p, proc[p])
  /\ tx # NoTx => HeldTx(issued, tx)

\* A refresh that is about to put the section of i back.
WillRestore(r, i) ==
  \/ r.at = "rendered"
  \/ r.at = "append" /\ i \in Range(r.ids)
  \/ r.at = "append_write" /\ i \in Range(r.ids) /\ i \notin r.saw.knowledge

\* No record that a stale write left alone is at odds with its like, now or
\* once the transaction is rolled back.
AgreeInv ==
  \A i \in Id \ lost :
    /\ Agree(files, i)
    /\ tx # NoTx => /\ Agree(tx.backup, i)
                    /\ tx.backup.proposals[i] = "applied" => files.proposals[i] = "applied"
    /\ tx.step = "appended" /\ tx.op[2] = i => i \in files.knowledge
    /\ files.proposals[i] = "applied" =>
         i \in files.knowledge \/ \E p \in Proc : WillRestore(proc[p], i)

-----------------------------------------------------------------------------
(* The kinds of steps.                                                      *)

\* Ids are given out, never taken back.
OnlyMoreGiven ==
  /\ issued' \in [Change -> 0..MaxIssues]
  /\ \A i \in Id : Given(issued, i) => Given(issued', i)

\* Without a new change the same ids are given out.
LEMMA SameGiven == RecordsInv /\ issued' = issued => OnlyMoreGiven
  BY DEF RecordsInv, OnlyMoreGiven

\* What a process has read is no less sound when more ids are given out.
LEMMA SaneStays ==
  ASSUME NEW n, NEW m, \A i \in Id : Given(n, i) => Given(m, i), NEW r, Sane(n, r)
  PROVE  Sane(m, r)
<1>1. Store(m, r.saw)
  BY MoreGiven DEF Sane
<1>2. r.at \in {"learning", "approving", "waiting", "propose", "propose_jobs", "apply"} =>
        \A k \in DOMAIN r.ids : r.ids[k] \in Id
  BY DEF Sane
<1> QED
  BY <1>1, <1>2 DEF Sane

\* ... and so does a transaction.
LEMMA HeldStays ==
  ASSUME NEW n, NEW m, \A i \in Id : Given(n, i) => Given(m, i), NEW t, HeldTx(n, t)
  PROVE  HeldTx(m, t)
  BY MoreGiven DEF HeldTx

\* A process goes on to what is sane.
LEMMA OneGoesOn ==
  ASSUME RecordsInv, OnlyMoreGiven, NEW p \in Proc, NEW r, Sane(issued', r),
         proc' = [proc EXCEPT ![p] = r]
  PROVE  /\ proc'[p] = r
         /\ \A q \in Proc : q # p => proc'[q] = proc[q]
         /\ proc' = [q \in Proc |-> proc'[q]]
         /\ \A q \in Proc : Sane(issued', proc'[q])
<1>1. proc = [q \in Proc |-> proc[q]] /\ \A q \in Proc : Sane(issued, proc[q])
  BY DEF RecordsInv
<1>2. /\ proc'[p] = r
      /\ \A q \in Proc : q # p => proc'[q] = proc[q]
      /\ proc' = [q \in Proc |-> proc'[q]]
  BY <1>1
<1>3. ASSUME NEW q \in Proc  PROVE Sane(issued', proc'[q])
  <2>1. CASE q = p
    BY <1>2, <2>1
  <2>2. CASE q # p
    BY <1>1, <1>2, <2>2, SaneStays DEF OnlyMoreGiven
  <2> QED
    BY <2>1, <2>2
<1> QED
  BY <1>2, <1>3

\* A process that holds no transaction goes on, and may write.
LEMMA MoveStep ==
  ASSUME RecordsInv, OnlyMoreGiven, NEW p \in Proc, NEW r, Sane(issued', r),
         proc' = [proc EXCEPT ![p] = r], tx' = tx, tx.by # p, Store(issued', files')
  PROVE  RecordsInv'
<1>1. /\ proc' = [q \in Proc |-> proc'[q]]
      /\ \A q \in Proc : Sane(issued', proc'[q])
      /\ \A q \in Proc : q # p => proc'[q] = proc[q]
  BY OneGoesOn
<1>2. \A q \in Proc : Busy(tx', q, proc'[q])
  BY <1>1 DEF RecordsInv, Busy
<1>3. tx' # NoTx => HeldTx(issued', tx')
  BY HeldStays DEF RecordsInv, OnlyMoreGiven
<1> QED
  BY <1>1, <1>2, <1>3 DEF RecordsInv, OnlyMoreGiven

\* A transaction writes.
LEMMA WriteStep ==
  ASSUME RecordsInv, NEW p \in Proc, tx.by = p, UNCHANGED <<issued, proc>>,
         NEW new, Store(issued, new), files' = new, NEW s \in {"appended", "written"},
         tx' = [tx EXCEPT !.step = s, !.after = new],
         s = "appended" => tx.op[1] = "apply" /\ tx.op[2] \in Id /\ HasJob(new, tx.op[2])
  PROVE  /\ RecordsInv'
         /\ tx # NoTx /\ tx' # NoTx
         /\ tx'.backup = tx.backup /\ tx'.op = tx.op /\ tx'.step = s
<1>1. tx # NoTx
  BY NoTxStep, LearningAssumption
<1>2. HeldTx(issued, tx)
  BY <1>1 DEF RecordsInv
<1>3. tx' = [by |-> tx.by, op |-> tx.op, step |-> s, backup |-> tx.backup, after |-> new]
  BY <1>2 DEF HeldTx
<1>4. /\ tx'.by = tx.by /\ tx'.op = tx.op /\ tx'.step = s
      /\ tx'.backup = tx.backup /\ tx'.after = new /\ tx' # NoTx
  BY <1>3, NoTxStep
<1>5. HeldTx(issued', tx')
  BY <1>2, <1>3, <1>4 DEF HeldTx
<1>6. \A q \in Proc : Busy(tx', q, proc'[q])
  BY <1>4 DEF RecordsInv, Busy
<1> QED
  BY <1>1, <1>4, <1>5, <1>6 DEF RecordsInv

\* A transaction is opened.
LEMMA OpenStep ==
  ASSUME RecordsInv, OnlyMoreGiven, NEW p \in Proc, NEW r, Sane(issued', r),
         proc' = [proc EXCEPT ![p] = r], NEW op, Begin(p, op),
         op[1] \in {"approve", "auto"} => op[2] \in Id /\ Given(issued', op[2]),
         op[1] = "learn" => op[2] \in Run,
         Busy(tx', p, r)
  PROVE  /\ RecordsInv'
         /\ tx = NoTx /\ tx' # NoTx /\ tx'.backup = files /\ tx'.step = "begun" /\ files' = files
<1>1. /\ tx = NoTx
      /\ tx' = [by |-> p, op |-> op, step |-> "begun", backup |-> files, after |-> files]
      /\ files' = files
  BY DEF Begin
<1>2. /\ tx'.by = p /\ tx'.op = op /\ tx'.step = "begun" /\ tx'.backup = files
      /\ tx'.after = files /\ tx' # NoTx
  BY <1>1, NoTxStep
<1>3. Store(issued', files)
  BY MoreGiven DEF RecordsInv, OnlyMoreGiven
<1>4. HeldTx(issued', tx')
  BY <1>1, <1>2, <1>3 DEF HeldTx
<1>5. /\ proc' = [q \in Proc |-> proc'[q]] /\ proc'[p] = r
      /\ \A q \in Proc : Sane(issued', proc'[q])
  BY OneGoesOn
<1>6. \A q \in Proc : Busy(tx', q, proc'[q])
  BY <1>2, <1>5 DEF Busy
<1> QED
  BY <1>1, <1>2, <1>3, <1>4, <1>5, <1>6 DEF RecordsInv, OnlyMoreGiven

\* A transaction is over.
LEMMA CloseStep ==
  ASSUME RecordsInv, issued' = issued, tx' = NoTx, Store(issued, files'),
         \/ proc' = proc
         \/ \E p \in Proc : \E r : Sane(issued', r) /\ proc' = [proc EXCEPT ![p] = r]
  PROVE  RecordsInv'
<1>1. /\ proc' = [q \in Proc |-> proc'[q]]
      /\ \A q \in Proc : Sane(issued', proc'[q])
  <2>1. CASE proc' = proc
    BY <2>1 DEF RecordsInv
  <2>2. ASSUME NEW p \in Proc, NEW r, Sane(issued', r), proc' = [proc EXCEPT ![p] = r]
        PROVE  /\ proc' = [q \in Proc |-> proc'[q]]
               /\ \A q \in Proc : Sane(issued', proc'[q])
    BY <2>2, OneGoesOn, SameGiven
  <2> QED
    BY <2>1, <2>2
<1>2. \A q \in Proc : Busy(tx', q, proc'[q])
  BY NoTxStep, LearningAssumption DEF Busy
<1> QED
  BY <1>1, <1>2 DEF RecordsInv

\* Files are written over without harm, and a refresh still puts back what
\* it was to put back: the records agree as before.
LEMMA AgreeStep ==
  ASSUME AgreeInv, lost \subseteq lost',
         \A i \in Id \ lost' : Good(files, files', i),
         \/ tx' = NoTx
         \/ tx = NoTx /\ tx'.backup = files /\ tx'.step = "begun"
         \/ /\ tx # NoTx /\ tx'.backup = tx.backup /\ tx'.op = tx.op
            /\ tx'.step = "appended" => tx.step = "appended" \/ tx.op[2] \in files'.knowledge,
         \A i \in Id \ lost' : \A q \in Proc :
           WillRestore(proc[q], i) => \/ WillRestore(proc'[q], i)
                                      \/ files.proposals[i] # "applied"
                                      \/ i \in files'.knowledge
  PROVE  AgreeInv'
<1> SUFFICES ASSUME NEW i \in Id \ lost'
             PROVE  /\ Agree(files', i)
                    /\ tx' # NoTx => /\ Agree(tx'.backup, i)
                                     /\ tx'.backup.proposals[i] = "applied" =>
                                          files'.proposals[i] = "applied"
                    /\ tx'.step = "appended" /\ tx'.op[2] = i => i \in files'.knowledge
                    /\ files'.proposals[i] = "applied" =>
                         i \in files'.knowledge \/ \E p \in Proc : WillRestore(proc'[p], i)
  BY DEF AgreeInv
<1>1. i \in Id \ lost /\ Good(files, files', i)
  OBVIOUS
<1>2. /\ Agree(files, i)
      /\ tx # NoTx => /\ Agree(tx.backup, i)
                      /\ tx.backup.proposals[i] = "applied" => files.proposals[i] = "applied"
      /\ tx.step = "appended" /\ tx.op[2] = i => i \in files.knowledge
      /\ files.proposals[i] = "applied" =>
           i \in files.knowledge \/ \E p \in Proc : WillRestore(proc[p], i)
  BY <1>1 DEF AgreeInv
<1>3. Agree(files', i)
  BY <1>1, <1>2 DEF Good
<1>4. tx' # NoTx => /\ Agree(tx'.backup, i)
                    /\ tx'.backup.proposals[i] = "applied" => files'.proposals[i] = "applied"
  BY <1>1, <1>2 DEF Good
<1>5. tx'.step = "appended" /\ tx'.op[2] = i => i \in files'.knowledge
  BY <1>1, <1>2, NoTxStep DEF Good
<1>6. files'.proposals[i] = "applied" =>
        i \in files'.knowledge \/ \E p \in Proc : WillRestore(proc'[p], i)
  BY <1>1, <1>2 DEF Good
<1> QED
  BY <1>3, <1>4, <1>5, <1>6

-----------------------------------------------------------------------------
(* Every step keeps the invariant.                                          *)

LearnInv == RecordsInv /\ AgreeInv

\* Where Go leads.
LEMMA GoingOn ==
  ASSUME NEW n, NEW at, NEW ids, NEW r, r = [at |-> at, ids |-> ids, saw |-> NewFiles],
         at \notin {"applying", "failing"} => ids \in Seq(Id),
         at \notin {"propose", "propose_jobs", "append_write", "apply"},
         at = "waiting" => ids # <<>>,
         at \in {"learning", "approving", "waiting"} => \A k \in DOMAIN ids : Given(n, ids[k])
  PROVE  Sane(n, r)
<1>1. r.at = at /\ r.ids = ids /\ r.saw = NewFiles
  OBVIOUS
<1>2. Store(n, r.saw)
  BY <1>1, NewStore
<1> QED
  BY <1>1, <1>2 DEF Sane

\* ... when there is nothing left to do.
LEMMA AtRest ==
  ASSUME NEW n, NEW r, NEW at \in {"idle", "rendered"},
         r = [at |-> at, ids |-> <<>>, saw |-> NewFiles]
  PROVE  Sane(n, r)
<1>1. r.at = at /\ r.ids = <<>> /\ r.saw = NewFiles
  OBVIOUS
<1>2. r.ids \in Seq(Id)
  BY <1>1
<1>3. Store(n, r.saw)
  BY <1>1, NewStore
<1> QED
  BY <1>1, <1>2, <1>3 DEF Sane

\* Where Go leads.
LEMMA GoMeans ==
  ASSUME NEW p, NEW place, NEW list, Go(p, place, list)
  PROVE  proc' = [proc EXCEPT ![p] = [at |-> place, ids |-> list, saw |-> NewFiles]]
<1>1. PICK d : d = Idle
  OBVIOUS
<1>2. PICK x, y, z : d = [at |-> x, ids |-> y, saw |-> z] /\ z = NewFiles
  BY <1>1 DEF Idle
<1>3. PICK e : e = [d EXCEPT !.at = place, !.ids = list]
  OBVIOUS
<1>4. e = [at |-> place, ids |-> list, saw |-> z]
  BY <1>2, <1>3
<1> QED
  BY <1>1, <1>2, <1>3, <1>4 DEF Go

\* Who is elsewhere holds no transaction.
LEMMA HoldsNone ==
  ASSUME RecordsInv, NEW p \in Proc,
         proc[p].at \notin {"learning", "approving", "applying", "failing", "approve"}
  PROVE  tx.by # p
  BY DEF RecordsInv, Busy

\* A file left as it is.
LEMMA GoodAsItIs == \A i : Good(files, files, i)
  BY DEF Good

\* What others are about to put back, they still are.
LEMMA OthersRestore ==
  ASSUME RecordsInv, NEW p \in Proc, NEW r, proc' = [proc EXCEPT ![p] = r], NEW i,
         WillRestore(proc[p], i) => \/ WillRestore(r, i)
                                    \/ files.proposals[i] # "applied"
                                    \/ i \in files'.knowledge
  PROVE  \A q \in Proc : WillRestore(proc[q], i) => \/ WillRestore(proc'[q], i)
                                                    \/ files.proposals[i] # "applied"
                                                    \/ i \in files'.knowledge
<1>1. proc = [q \in Proc |-> proc[q]]
  BY DEF RecordsInv
<1> QED
  BY <1>1

\* A process that is not refreshing goes on, and nobody writes.
LEMMA Strolls ==
  ASSUME LearnInv, OnlyMoreGiven, NEW p \in Proc, NEW r, Sane(issued', r),
         proc' = [proc EXCEPT ![p] = r], UNCHANGED <<files, tx>>, lost' = lost, tx.by # p,
         \A i \in Id : WillRestore(proc[p], i) => \/ WillRestore(r, i)
                                                  \/ files.proposals[i] # "applied"
                                                  \/ i \in files.knowledge
  PROVE  LearnInv'
<1>1. Store(issued', files')
  BY MoreGiven DEF LearnInv, RecordsInv, OnlyMoreGiven
<1>2. RecordsInv'
  BY <1>1, MoveStep DEF LearnInv
<1>3. \A i \in Id \ lost' : Good(files, files', i)
  BY GoodAsItIs
<1>4. \A i \in Id \ lost' : \A q \in Proc :
        WillRestore(proc[q], i) => \/ WillRestore(proc'[q], i)
                                   \/ files.proposals[i] # "applied"
                                   \/ i \in files'.knowledge
  BY OthersRestore DEF LearnInv
<1>5. AgreeInv'
  <2>1. \/ tx' = NoTx
        \/ tx = NoTx /\ tx'.backup = files /\ tx'.step = "begun"
        \/ /\ tx # NoTx /\ tx'.backup = tx.backup /\ tx'.op = tx.op
           /\ tx'.step = "appended" => tx.step = "appended" \/ tx.op[2] \in files'.knowledge
    OBVIOUS
  <2> QED
    BY <1>3, <1>4, <2>1, AgreeStep DEF LearnInv
<1> QED
  BY <1>2, <1>5 DEF LearnInv

\* Steps that only look.
LEMMA LookingSteps ==
  ASSUME LearnInv, NEW p \in Proc,
         \/ SkipApproved(p) \/ SeeProposed(p) \/ Done(p) \/ SelectJobs(p)
         \/ BeginApply(p) /\ tx' = tx
         \/ ApplySelect(p) \/ \E i \in Id : ApplyRead(p, i)
  PROVE  LearnInv'
<1>s. Sane(issued, proc[p]) /\ Busy(tx, p, proc[p]) /\ RecordsInv
  BY DEF LearnInv, RecordsInv
<1>1. ASSUME NEW at, NEW ids, Go(p, at, ids),
             at \notin {"applying", "failing"} => ids \in Seq(Id),
             at \in {"applying", "approving", "idle", "waiting"},
             at = "waiting" => ids # <<>>,
             at \in {"approving", "waiting"} => \A k \in DOMAIN ids : Given(issued, ids[k]),
             UNCHANGED <<files, tx, issued, lost>>, tx.by # p,
             proc[p].at \notin {"rendered", "append", "append_write"}
      PROVE  LearnInv'
  <2>1. PICK r : r = [at |-> at, ids |-> ids, saw |-> NewFiles]
    OBVIOUS
  <2>2. Sane(issued', r)
    BY <1>1, <2>1, GoingOn
  <2>3. proc' = [proc EXCEPT ![p] = r]
    BY <1>1, <2>1, GoMeans
  <2>4. \A i \in Id : ~WillRestore(proc[p], i)
    BY <1>1 DEF WillRestore
  <2>5. OnlyMoreGiven
    BY <1>1, <1>s, SameGiven
  <2> QED
    BY <1>1, <2>2, <2>3, <2>4, <2>5, Strolls
<1>2. CASE SkipApproved(p) \/ SeeProposed(p)
  <2>1. /\ proc[p].at = "approving" /\ proc[p].ids # <<>> /\ tx.by # p
        /\ UNCHANGED <<files, tx, issued, lost>>
    BY <1>2 DEF SkipApproved, SeeProposed
  <2>2. proc[p].ids \in Seq(Id) /\ \A k \in DOMAIN proc[p].ids : Given(issued, proc[p].ids[k])
    BY <1>s, <2>1 DEF Sane
  <2>3. /\ Tail(proc[p].ids) \in Seq(Id)
        /\ \A k \in DOMAIN Tail(proc[p].ids) : Given(issued, Tail(proc[p].ids)[k])
    BY <2>1, <2>2, TailOf
  <2>4. \/ Go(p, "approving", Tail(proc[p].ids))
        \/ Go(p, "waiting", proc[p].ids)
    BY <1>2 DEF SkipApproved, SeeProposed
  <2> QED
    BY <1>1, <2>1, <2>2, <2>3, <2>4
<1>3. CASE Done(p)
  <2>1. tx.by # p
    BY <1>3, <1>s DEF Done, Busy
  <2>2. Go(p, "idle", <<>>) /\ <<>> \in Seq(Id)
    BY <1>3 DEF Done
  <2> QED
    BY <1>1, <1>3, <2>1, <2>2 DEF Done
<1>4. CASE SelectJobs(p)
  BY <1>1, <1>4 DEF SelectJobs
<1>5. CASE BeginApply(p) /\ tx' = tx
  <2>1. ~Begin(p, <<"apply", Head(proc[p].ids)>>)
    BY <1>5, NoTxStep DEF Begin
  <2> QED
    BY <1>1, <1>5, <2>1 DEF BeginApply, Replay
<1>6. CASE ApplySelect(p)
  <2>1. tx.by # p
    BY <1>6, <1>s, HoldsNone DEF ApplySelect
  <2> QED
    BY <1>1, <1>6, <2>1 DEF ApplySelect
<1>7. ASSUME NEW i \in Id, ApplyRead(p, i)
      PROVE  LearnInv'
  <2>1. PICK r : r = [at |-> "apply", ids |-> <<i>>, saw |-> files]
    OBVIOUS
  <2>2. /\ proc' = [proc EXCEPT ![p] = r]
        /\ UNCHANGED <<files, tx, issued, lost>>
        /\ proc[p].at = "idle" /\ files.proposals[i] = "approved"
    BY <1>7, <2>1 DEF ApplyRead, Reads
  <2>3. Store(issued, files) /\ Given(issued, i)
    BY <1>s, <2>2 DEF RecordsInv, Store
  <2>4. Sane(issued', r)
    <3>1. r.at = "apply" /\ r.ids = <<i>> /\ r.saw = files
      BY <2>1
    <3>2. r.ids \in Seq(Id) /\ r.ids # <<>> /\ \A k \in DOMAIN r.ids : r.ids[k] = i
      BY <3>1
    <3> QED
      BY <2>1, <2>2, <2>3, <3>1, <3>2 DEF Sane
  <2>5. tx.by # p
    BY <1>s, <2>2, HoldsNone
  <2>6. \A j \in Id : ~WillRestore(proc[p], j)
    BY <2>2 DEF WillRestore
  <2>7. OnlyMoreGiven
    BY <1>s, <2>2, SameGiven
  <2> QED
    BY <2>2, <2>4, <2>5, <2>6, <2>7, Strolls
<1> QED
  BY <1>2, <1>3, <1>4, <1>5, <1>6, <1>7

\* A refresh reads what it is to put back.
LEMMA RefreshReads ==
  ASSUME LearnInv, NEW p \in Proc,
         RefreshReadApplied(p) \/ RefreshReadFile(p) \/ RefreshDone(p)
  PROVE  LearnInv'
<1>1. /\ Sane(issued, proc[p]) /\ RecordsInv /\ tx.by # p
      /\ UNCHANGED <<files, tx, issued, lost>>
  <2>1. proc[p].at \in {"rendered", "append"} /\ UNCHANGED <<files, tx, issued, lost>>
    BY DEF RefreshReadApplied, RefreshReadFile, RefreshDone
  <2> QED
    BY <2>1, HoldsNone DEF LearnInv, RecordsInv
<1>2. OnlyMoreGiven
  BY <1>1, SameGiven
<1>3. CASE RefreshReadApplied(p)
  <2> DEFINE S == {i \in Id : files.proposals[i] = "applied"}
  <2>1. SetToSeq(S) \in Seq(Id) /\ Range(SetToSeq(S)) = S
    BY ListOf
  <2>2. PICK r : r = [at |-> "append", ids |-> SetToSeq(S), saw |-> NewFiles]
    OBVIOUS
  <2>3. proc' = [proc EXCEPT ![p] = r]
    BY <1>3, <2>2, GoMeans DEF RefreshReadApplied
  <2>4. Sane(issued', r)
    BY <2>1, <2>2, GoingOn
  <2>5. \A i \in Id : WillRestore(r, i) \/ files.proposals[i] # "applied"
    BY <2>1, <2>2 DEF WillRestore
  <2> QED
    BY <1>1, <1>2, <2>3, <2>4, <2>5, Strolls
<1>4. CASE RefreshReadFile(p)
  <2>1. PICK old : old = proc[p]
    OBVIOUS
  <2>2. /\ old.at = "append" /\ old.ids # <<>> /\ Sane(issued, old)
        /\ old = [at |-> old.at, ids |-> old.ids, saw |-> old.saw]
    BY <1>1, <1>4, <2>1 DEF RefreshReadFile, Sane
  <2>3. PICK seen : seen = [old.saw EXCEPT !.knowledge = files.knowledge]
    OBVIOUS
  <2>4. PICK r : r = [at |-> "append_write", ids |-> old.ids, saw |-> seen]
    OBVIOUS
  <2>5. proc' = [proc EXCEPT ![p] = r]
    <3>1. PICK r0 : r0 = [old EXCEPT !.at = "append_write", !.saw.knowledge = files.knowledge]
      OBVIOUS
    <3>a. r0 = [old EXCEPT !.at = "append_write", !.saw = seen]
      BY <2>3, <3>1
    <3>b. r0 = [at |-> "append_write", ids |-> old.ids, saw |-> seen]
      BY <2>2, <3>a
    <3>2. r0 = r
      BY <2>4, <3>b
    <3>3. proc' = [proc EXCEPT ![p] = r0]
      BY <1>1, <1>4, <2>1, <3>1 DEF RefreshReadFile, RecordsInv
    <3> QED
      BY <3>2, <3>3
  <2>6. /\ seen = [proposals |-> old.saw.proposals, jobs |-> old.saw.jobs,
                   knowledge |-> files.knowledge, receipts |-> old.saw.receipts,
                   learned |-> old.saw.learned]
        /\ files.knowledge \in SUBSET Id
    <3>1. old.saw \in Files /\ files \in Files
      BY <1>1, <2>2 DEF RecordsInv, Store, Sane
    <3> QED
      BY <2>3, <3>1, FilesParts
  <2>7. Store(issued, seen) /\ seen.knowledge = files.knowledge
    BY <2>2, <2>6, Sections DEF Sane
  <2>8. Sane(issued', r)
    <3>1. r.at = "append_write" /\ r.ids = old.ids /\ r.saw = seen
      BY <2>4
    <3> QED
      BY <1>1, <2>2, <2>4, <2>7, <3>1 DEF Sane
  <2>9. \A i \in Id : WillRestore(old, i) => WillRestore(r, i) \/ i \in files.knowledge
    BY <2>2, <2>4, <2>7 DEF WillRestore
  <2> QED
    BY <1>1, <1>2, <2>1, <2>5, <2>8, <2>9, Strolls
<1>5. CASE RefreshDone(p)
  <2>1. PICK r : r = [at |-> "idle", ids |-> <<>>, saw |-> NewFiles]
    OBVIOUS
  <2>2. proc' = [proc EXCEPT ![p] = r]
    BY <1>5, <2>1, GoMeans DEF RefreshDone
  <2>3. Sane(issued', r)
    BY <2>1, AtRest
  <2>4. \A i \in Id : ~WillRestore(proc[p], i)
    BY <1>5 DEF RefreshDone, WillRestore, Range
  <2> QED
    BY <1>1, <1>2, <2>2, <2>3, <2>4, Strolls
<1> QED
  BY <1>3, <1>4, <1>5

\* The ids that are made are new.
LEMMA MakingIds ==
  ASSUME RecordsInv, NEW r \in Run, Issue(files, r)
  PROVE  /\ OnlyMoreGiven
         /\ Created(files, r) \in Seq(Id)
         /\ \A k \in DOMAIN Created(files, r) : /\ Given(issued', Created(files, r)[k])
                                                /\ Untouched(files, Created(files, r)[k])
<1> DEFINE F == Fresh(files, r)
           S == {<<c, issued[c] + 1>> : c \in F}
<1>1. F \subseteq Change /\ issued \in [Change -> 0..MaxIssues] /\ MaxIssues \in Nat
  BY LearningAssumption DEF Fresh, RecordsInv
<1>2. /\ \A c \in F : issued[c] < MaxIssues
      /\ issued' = [c \in Change |-> IF c \in F THEN issued[c] + 1 ELSE issued[c]]
  BY DEF Issue
<1>3. issued' \in [Change -> 0..MaxIssues]
  BY <1>1, <1>2
<1>4. ASSUME NEW i \in Id, Given(issued, i)  PROVE Given(issued', i)
  <2>1. i[1] \in Change /\ i[2] \in Nat
    BY LearningAssumption DEF Id
  <2> QED
    BY <1>1, <1>2, <1>4, <2>1 DEF Given
<1>5. ASSUME NEW c \in F
      PROVE  <<c, issued[c] + 1>> \in Id /\ Given(issued', <<c, issued[c] + 1>>)
             /\ ~Given(issued, <<c, issued[c] + 1>>)
  BY <1>1, <1>2 DEF Given, Id
<1> HIDE DEF F
<1>6. S \subseteq Id /\ \A i \in S : Given(issued', i) /\ ~Given(issued, i)
  BY <1>5
<1>7. \A i \in S : Untouched(files, i)
  BY <1>6 DEF RecordsInv, Store, Untouched
<1>8. SetToSeq(S) \in Seq(Id) /\ Range(SetToSeq(S)) = S
  BY <1>6, ListOf
<1>9. Created(files, r) = SetToSeq(S)
  BY DEF Created, F
<1> HIDE DEF S
<1>10. \A k \in DOMAIN SetToSeq(S) : SetToSeq(S)[k] \in S
  BY <1>8 DEF Range
<1>11. OnlyMoreGiven
  BY <1>3, <1>4 DEF OnlyMoreGiven
<1> QED
  BY <1>6, <1>7, <1>8, <1>9, <1>10, <1>11

\* learn propose reads.
LEMMA ProposeReads ==
  ASSUME LearnInv, NEW p \in Proc, NEW r \in Run, ProposeRead(p, r)
  PROVE  LearnInv'
<1>1. /\ proc[p].at = "idle" /\ Issue(files, r) /\ UNCHANGED <<files, tx, lost>>
      /\ proc' = [proc EXCEPT ![p] = [at |-> "propose", ids |-> Created(files, r), saw |-> files]]
  BY DEF ProposeRead, Reads
<1>2. PICK new : new = Created(files, r)
  OBVIOUS
<1>3. /\ OnlyMoreGiven /\ new \in Seq(Id)
      /\ \A k \in DOMAIN new : Given(issued', new[k]) /\ Untouched(files, new[k])
  BY <1>1, <1>2, MakingIds DEF LearnInv
<1>4. Store(issued', files)
  BY <1>3, MoreGiven DEF LearnInv, RecordsInv, OnlyMoreGiven
<1>5. PICK s : s = [at |-> "propose", ids |-> new, saw |-> files]
  OBVIOUS
<1>6. s.at = "propose" /\ s.ids = new /\ s.saw = files
  BY <1>5
<1>7. Sane(issued', s)
  BY <1>3, <1>4, <1>5, <1>6 DEF Sane
<1>8. tx.by # p
  BY <1>1, HoldsNone DEF LearnInv
<1>9. \A i \in Id : ~WillRestore(proc[p], i)
  BY <1>1 DEF WillRestore
<1> QED
  BY <1>1, <1>2, <1>3, <1>5, <1>7, <1>8, <1>9, Strolls

\* A process that holds no transaction writes without harm.
LEMMA Scribbles ==
  ASSUME LearnInv, NEW p \in Proc, NEW r, Sane(issued, r), proc' = [proc EXCEPT ![p] = r],
         UNCHANGED <<issued, tx>>, tx.by # p, lost \subseteq lost', Store(issued, files'),
         \A i \in Id \ lost' : Good(files, files', i),
         \A i \in Id : WillRestore(proc[p], i) => WillRestore(r, i) \/ i \in files'.knowledge
  PROVE  LearnInv'
<1>1. RecordsInv'
  BY SameGiven, MoveStep DEF LearnInv
<1>2. \A i \in Id \ lost' : \A q \in Proc :
        WillRestore(proc[q], i) => \/ WillRestore(proc'[q], i)
                                   \/ files.proposals[i] # "applied"
                                   \/ i \in files'.knowledge
  BY OthersRestore DEF LearnInv
<1>3. AgreeInv'
  <2>1. \/ tx' = NoTx
        \/ tx = NoTx /\ tx'.backup = files /\ tx'.step = "begun"
        \/ /\ tx # NoTx /\ tx'.backup = tx.backup /\ tx'.op = tx.op
           /\ tx'.step = "appended" => tx.step = "appended" \/ tx.op[2] \in files'.knowledge
    OBVIOUS
  <2> QED
    BY <1>2, <2>1, AgreeStep DEF LearnInv
<1> QED
  BY <1>1, <1>3 DEF LearnInv

\* learn propose writes the proposals.
LEMMA ProposalsWritten ==
  ASSUME LearnInv, NEW p \in Proc, ProposeWriteProposals(p)
  PROVE  LearnInv'
<1>1. PICK f, old : f = files /\ old = proc[p]
  OBVIOUS
<1>2. /\ old.at = "propose" /\ UNCHANGED <<issued, tx>>
      /\ files' = [f EXCEPT !.proposals = Proposed(old.saw, old.ids)]
      /\ lost' = lost \cup Differ(f, old.saw)
      /\ proc' = [proc EXCEPT ![p].at = "propose_jobs"]
  BY <1>1 DEF ProposeWriteProposals, Overwrites
<1>3. /\ Sane(issued, old) /\ Store(issued, f) /\ RecordsInv
      /\ old = [at |-> old.at, ids |-> old.ids, saw |-> old.saw]
  BY <1>1 DEF LearnInv, RecordsInv, Sane
<1>4. /\ Store(issued, old.saw) /\ old.ids \in Seq(Id)
      /\ \A k \in DOMAIN old.ids : Given(issued, old.ids[k]) /\ Untouched(old.saw, old.ids[k])
  BY <1>2, <1>3 DEF Sane
<1>5. PICK g : g = files'
  OBVIOUS
<1>6. /\ g = [proposals |-> Proposed(old.saw, old.ids), jobs |-> f.jobs, knowledge |-> f.knowledge,
              receipts |-> f.receipts, learned |-> f.learned]
      /\ f.learned \in SUBSET Run
  <2>1. f \in Files
    BY <1>3 DEF Store
  <2> QED
    BY <1>2, <1>5, <2>1, FilesParts
<1>7. Store(issued, g) /\ \A i \in Id : Same(f, old.saw, i) => Good(f, g, i)
  BY <1>3, <1>4, <1>6, ProposingNew
<1>8. \A i \in Id \ lost' : Good(f, g, i)
  BY <1>2, <1>7, NoDifference
<1>9. PICK r : r = [at |-> "propose_jobs", ids |-> old.ids, saw |-> old.saw]
  OBVIOUS
<1>10. proc' = [proc EXCEPT ![p] = r]
  <2>1. PICK s : s = [old EXCEPT !.at = "propose_jobs"]
    OBVIOUS
  <2>2. s = [at |-> "propose_jobs", ids |-> old.ids, saw |-> old.saw]
    BY <1>3, <2>1
  <2>3. proc' = [proc EXCEPT ![p] = s]
    BY <1>1, <1>2, <1>3, <2>1 DEF RecordsInv
  <2> QED
    BY <1>9, <2>2, <2>3
<1>11. Sane(issued, r)
  <2>1. r.at = "propose_jobs" /\ r.ids = old.ids /\ r.saw = old.saw
    BY <1>9
  <2> QED
    BY <1>4, <1>9, <2>1 DEF Sane
<1>12. tx.by # p /\ \A i \in Id : ~WillRestore(proc[p], i)
  BY <1>1, <1>2, <1>3, HoldsNone DEF WillRestore
<1> QED
  BY <1>1, <1>2, <1>5, <1>7, <1>8, <1>10, <1>11, <1>12, Scribbles

\* ... and the jobs.
LEMMA JobsWritten ==
  ASSUME LearnInv, NEW p \in Proc, ProposeWriteJobs(p)
  PROVE  LearnInv'
<1>1. PICK f, old : f = files /\ old = proc[p]
  OBVIOUS
<1>2. /\ old.at = "propose_jobs" /\ UNCHANGED <<issued, tx>>
      /\ files' = [f EXCEPT !.jobs = JobsProposed(old.saw, old.ids)]
      /\ lost' = lost \cup {i \in Id : JobsOf(f, i) # JobsOf(old.saw, i)}
      /\ Go(p, "idle", <<>>)
  BY <1>1 DEF ProposeWriteJobs, Overwrites
<1>3. Sane(issued, old) /\ Store(issued, f) /\ RecordsInv
  BY <1>1 DEF LearnInv, RecordsInv
<1>4. /\ Store(issued, old.saw) /\ old.ids \in Seq(Id)
      /\ \A k \in DOMAIN old.ids : Given(issued, old.ids[k]) /\ Untouched(old.saw, old.ids[k])
  BY <1>2, <1>3 DEF Sane
<1>5. PICK g : g = files'
  OBVIOUS
<1>6. /\ g = [proposals |-> f.proposals, jobs |-> JobsProposed(old.saw, old.ids),
              knowledge |-> f.knowledge, receipts |-> f.receipts, learned |-> f.learned]
      /\ f.learned \in SUBSET Run
  <2>1. f \in Files
    BY <1>3 DEF Store
  <2> QED
    BY <1>2, <1>5, <2>1, FilesParts
<1>7. Store(issued, g) /\ \A i \in Id : JobsOf(f, i) = JobsOf(old.saw, i) => Good(f, g, i)
  BY <1>3, <1>4, <1>6, ProposingNew
<1>8. \A i \in Id \ lost' : Good(f, g, i)
  BY <1>2, <1>7
<1>9. PICK r : r = [at |-> "idle", ids |-> <<>>, saw |-> NewFiles]
  OBVIOUS
<1>10. proc' = [proc EXCEPT ![p] = r] /\ Sane(issued, r)
  BY <1>2, <1>9, GoMeans, AtRest
<1>11. tx.by # p /\ \A i \in Id : ~WillRestore(proc[p], i)
  BY <1>1, <1>2, <1>3, HoldsNone DEF WillRestore
<1> QED
  BY <1>1, <1>2, <1>5, <1>7, <1>8, <1>10, <1>11, Scribbles

\* learn apply queues the job.
LEMMA JobQueued ==
  ASSUME LearnInv, NEW p \in Proc, ApplyQueue(p)
  PROVE  LearnInv'
<1>1. PICK f, old : f = files /\ old = proc[p]
  OBVIOUS
<1>2. PICK j : j = old.ids[1]
  OBVIOUS
<1>3. /\ old.at = "apply" /\ UNCHANGED <<issued, tx>>
      /\ files' = [f EXCEPT !.jobs = JobsQueued(old.saw, j)]
      /\ lost' = lost \cup Differ(f, old.saw)
      /\ Go(p, "queued", <<j>>)
  BY <1>1, <1>2 DEF ApplyQueue, Overwrites
<1>4. Sane(issued, old) /\ Store(issued, f) /\ RecordsInv
  BY <1>1 DEF LearnInv, RecordsInv
<1>5. Store(issued, old.saw) /\ j \in Id /\ Given(issued, j)
  <2>1. /\ Store(issued, old.saw) /\ old.ids \in Seq(Id) /\ old.ids # <<>>
        /\ \A k \in DOMAIN old.ids : Given(issued, old.ids[k])
    BY <1>3, <1>4 DEF Sane
  <2>2. 1 \in DOMAIN old.ids
    BY <2>1, TailOf
  <2> QED
    BY <1>2, <2>1, <2>2
<1>6. PICK g : g = files'
  OBVIOUS
<1>7. g = [proposals |-> f.proposals, jobs |-> JobsQueued(old.saw, j),
           knowledge |-> f.knowledge, receipts |-> f.receipts, learned |-> f.learned]
  <2>1. f \in Files
    BY <1>4 DEF Store
  <2> QED
    BY <1>3, <1>6, <2>1, FilesParts
<1>8. Store(issued, g) /\ \A i \in Id : Same(f, old.saw, i) => Good(f, g, i)
  <2>1. PICK P : P = f.proposals
    OBVIOUS
  <2>2. P \in {f.proposals, [old.saw.proposals EXCEPT ![j] = "approved"]}
    BY <2>1
  <2>3. g = [proposals |-> P, jobs |-> JobsQueued(old.saw, j),
             knowledge |-> f.knowledge, receipts |-> f.receipts, learned |-> f.learned]
    BY <1>7, <2>1
  <2> QED
    BY <1>4, <1>5, <2>1, <2>2, <2>3, Queueing
<1>9. \A i \in Id \ lost' : Good(f, g, i)
  BY <1>3, <1>8, NoDifference
<1>10. PICK r : r = [at |-> "queued", ids |-> <<j>>, saw |-> NewFiles]
  OBVIOUS
<1>11. proc' = [proc EXCEPT ![p] = r]
  BY <1>3, <1>10, GoMeans
<1>12. Sane(issued, r)
  <2>1. r.at = "queued" /\ r.ids = <<j>> /\ r.saw = NewFiles
    BY <1>10
  <2>2. r.ids \in Seq(Id) /\ Store(issued, r.saw)
    BY <1>5, <2>1, NewStore
  <2> QED
    BY <1>10, <2>1, <2>2 DEF Sane
<1>13. tx.by # p /\ \A i \in Id : ~WillRestore(proc[p], i)
  BY <1>1, <1>3, <1>4, HoldsNone DEF WillRestore
<1> QED
  BY <1>1, <1>3, <1>6, <1>8, <1>9, <1>11, <1>12, <1>13, Scribbles

\* knowledge refresh puts a section back.
LEMMA SectionRestored ==
  ASSUME LearnInv, NEW p \in Proc, RefreshWriteFile(p)
  PROVE  LearnInv'
<1>1. PICK f, old : f = files /\ old = proc[p]
  OBVIOUS
<1>2. PICK h : h = Head(old.ids)
  OBVIOUS
<1>3. /\ old.at = "append_write" /\ issued' = issued /\ tx' = tx
      /\ Go(p, "append", Tail(old.ids))
      /\ \/ h \in old.saw.knowledge /\ UNCHANGED <<files, lost>>
         \/ /\ h \notin old.saw.knowledge
            /\ files' = [f EXCEPT !.knowledge = old.saw.knowledge \cup {h}]
            /\ lost' = lost \cup (f.knowledge \ (old.saw.knowledge \cup {h}))
  BY <1>1, <1>2 DEF RefreshWriteFile, Overwrites
<1>4. Sane(issued, old) /\ Store(issued, f) /\ RecordsInv
  BY <1>1 DEF LearnInv, RecordsInv
<1>5. /\ old.ids \in Seq(Id) /\ old.ids # <<>> /\ old.saw \in Files /\ f \in Files
  BY <1>3, <1>4 DEF Sane, Store
<1>6. /\ Tail(old.ids) \in Seq(Id) /\ h \in Id
      /\ \A i \in Range(old.ids) : i = h \/ i \in Range(Tail(old.ids))
  BY <1>2, <1>5, TailOf
<1>7a. PICK list : list = Tail(old.ids)
  OBVIOUS
<1>7. PICK r : r = [at |-> "append", ids |-> list, saw |-> NewFiles]
  OBVIOUS
<1>8. proc' = [proc EXCEPT ![p] = r] /\ Sane(issued, r)
  <2>a. Go(p, "append", list)
    BY <1>3, <1>7a
  <2>1. proc' = [proc EXCEPT ![p] = r]
    BY <1>7, <2>a, GoMeans
  <2>2. r.at = "append" /\ r.ids = Tail(old.ids) /\ r.saw = NewFiles
    BY <1>7, <1>7a
  <2>3. Store(issued, r.saw)
    BY <2>2, NewStore
  <2> QED
    BY <1>6, <1>7, <2>1, <2>2, <2>3 DEF Sane
<1>9. tx.by # p
  BY <1>1, <1>3, <1>4, HoldsNone
<1>10. \A i \in Id : WillRestore(old, i) => (i = h /\ h \notin old.saw.knowledge) \/ WillRestore(r, i)
  BY <1>3, <1>6, <1>7, <1>7a DEF WillRestore
<1>11. CASE h \in old.saw.knowledge
  <2>1. \A i \in Id \ lost' : Good(files, files', i)
    BY <1>3, <1>11, GoodAsItIs
  <2> QED
    BY <1>1, <1>3, <1>4, <1>8, <1>9, <1>10, <1>11, <2>1, Scribbles
<1>12. CASE h \notin old.saw.knowledge
  <2>1. PICK g, K : g = files' /\ K = old.saw.knowledge \cup {h}
    OBVIOUS
  <2>2. /\ K \in SUBSET Id
        /\ g = [proposals |-> f.proposals, jobs |-> f.jobs, knowledge |-> K,
                receipts |-> f.receipts, learned |-> f.learned]
    BY <1>3, <1>5, <1>6, <1>12, <2>1, FilesParts
  <2>3. Store(issued, g) /\ g.knowledge = K
        /\ \A i \in Id : (i \in f.knowledge => i \in K) => Good(f, g, i)
    BY <1>4, <2>2, Sections
  <2>4. \A i \in Id \ lost' : Good(f, g, i)
    BY <1>3, <1>12, <2>1, <2>3
  <2>5. lost \subseteq lost' /\ h \in g.knowledge
    BY <1>3, <1>12, <2>1, <2>3
  <2> QED
    BY <1>1, <1>3, <1>8, <1>9, <1>10, <2>1, <2>3, <2>4, <2>5, Scribbles
<1> QED
  BY <1>11, <1>12

\* knowledge refresh renders the file without what was learned.
LEMMA KnowledgeRendered ==
  ASSUME LearnInv, NEW p \in Proc, RefreshRender(p)
  PROVE  LearnInv'
<1>1. PICK f, g : f = files /\ g = files'
  OBVIOUS
<1>2. /\ proc[p].at = "idle" /\ UNCHANGED <<issued, tx>>
      /\ g = [f EXCEPT !.knowledge = {}]
      /\ lost' = lost \cup (IF tx.step = "appended" THEN {tx.op[2]} ELSE {})
      /\ Go(p, "rendered", <<>>)
  BY <1>1 DEF RefreshRender, Overwrites
<1>3. Store(issued, f) /\ f \in Files /\ RecordsInv
  BY <1>1 DEF LearnInv, RecordsInv, Store
<1>4. g = [proposals |-> f.proposals, jobs |-> f.jobs, knowledge |-> {},
           receipts |-> f.receipts, learned |-> f.learned]
  <2>1. f = [proposals |-> f.proposals, jobs |-> f.jobs, knowledge |-> f.knowledge,
             receipts |-> f.receipts, learned |-> f.learned]
    BY <1>3, FilesParts
  <2> QED
    BY <1>2, <2>1
<1>5. PICK K \in SUBSET Id : K = {}
  OBVIOUS
<1>6. Store(issued, g) /\ \A i \in Id : Agree(f, i) => Agree(g, i)
  BY <1>3, <1>4, <1>5, Sections
<1>7. g.proposals = f.proposals
  BY <1>4
<1>8. PICK r : r = [at |-> "rendered", ids |-> <<>>, saw |-> NewFiles]
  OBVIOUS
<1>9. proc' = [proc EXCEPT ![p] = r] /\ Sane(issued, r)
  BY <1>2, <1>8, GoMeans, AtRest
<1>10. tx.by # p
  BY <1>2, <1>3, HoldsNone
<1>11. RecordsInv'
  BY <1>1, <1>2, <1>3, <1>6, <1>9, <1>10, SameGiven, MoveStep
<1>12. \A i \in Id : WillRestore(proc'[p], i)
  BY <1>3, <1>8, <1>9 DEF WillRestore, RecordsInv
<1>13. AgreeInv'
  BY <1>1, <1>2, <1>6, <1>7, <1>12 DEF AgreeInv, LearnInv
<1> QED
  BY <1>11, <1>13 DEF LearnInv

\* A process that is not refreshing opens a transaction.
LEMMA Opening ==
  ASSUME LearnInv, OnlyMoreGiven, NEW p \in Proc, NEW r, Sane(issued', r),
         proc' = [proc EXCEPT ![p] = r], NEW op, Begin(p, op),
         op[1] \in {"approve", "auto"} => op[2] \in Id /\ Given(issued', op[2]),
         op[1] = "learn" => op[2] \in Run,
         Busy(tx', p, r),
         proc[p].at \notin {"rendered", "append", "append_write"}
  PROVE  LearnInv'
<1>1. /\ RecordsInv'
      /\ tx = NoTx /\ tx' # NoTx /\ tx'.backup = files /\ tx'.step = "begun" /\ files' = files
  BY OpenStep DEF LearnInv
<1>2. lost' = lost
  BY DEF Begin
<1>3. \A i \in Id \ lost' : Good(files, files', i)
  BY <1>1, GoodAsItIs
<1>4. \A i \in Id \ lost' : \A q \in Proc :
        WillRestore(proc[q], i) => \/ WillRestore(proc'[q], i)
                                   \/ files.proposals[i] # "applied"
                                   \/ i \in files'.knowledge
  BY OthersRestore DEF LearnInv, WillRestore
<1>5. AgreeInv'
  <2>1. \/ tx' = NoTx
        \/ tx = NoTx /\ tx'.backup = files /\ tx'.step = "begun"
        \/ /\ tx # NoTx /\ tx'.backup = tx.backup /\ tx'.op = tx.op
           /\ tx'.step = "appended" => tx.step = "appended" \/ tx.op[2] \in files'.knowledge
    BY <1>1
  <2> QED
    BY <1>2, <1>3, <1>4, <2>1, AgreeStep DEF LearnInv
<1> QED
  BY <1>1, <1>5 DEF LearnInv

\* What a transaction is when it is opened.
LEMMA Opened ==
  ASSUME NEW p, NEW op, Begin(p, op)
  PROVE  tx'.by = p /\ tx'.op = op /\ tx'.step = "begun" /\ tx'.after = files /\ files' = files
  BY DEF Begin

\* A run's proposals.
LEMMA LearnBegun ==
  ASSUME LearnInv, NEW p \in Proc, NEW run \in Run, BeginLearn(p, run)
  PROVE  LearnInv'
<1>1. /\ proc[p].at = "idle" /\ Issue(files, run) /\ RecordsInv
      /\ Begin(p, <<"learn", run>>) /\ Go(p, "learning", Created(files, run))
  BY DEF BeginLearn, LearnInv
<1>2. PICK new : new = Created(files, run)
  OBVIOUS
<1>3. /\ OnlyMoreGiven /\ new \in Seq(Id)
      /\ \A k \in DOMAIN new : Given(issued', new[k]) /\ Untouched(files, new[k])
  BY <1>1, <1>2, MakingIds
<1>4. PICK r : r = [at |-> "learning", ids |-> new, saw |-> NewFiles]
  OBVIOUS
<1>5. r.at = "learning" /\ r.ids = new /\ r.saw = NewFiles
  BY <1>4
<1>6. Go(p, "learning", new)
  BY <1>1, <1>2
<1>7. proc' = [proc EXCEPT ![p] = r]
  BY <1>4, <1>6, GoMeans
<1>8. Store(issued', r.saw)
  BY <1>5, NewStore
<1>9. Sane(issued', r)
  BY <1>3, <1>4, <1>5, <1>8 DEF Sane
<1>10. PICK op : op = <<"learn", run>>
  OBVIOUS
<1>11. op[1] = "learn" /\ op[2] = run /\ Begin(p, op)
  BY <1>1, <1>10
<1>12. Busy(tx', p, r)
  BY <1>3, <1>5, <1>11, Opened DEF Busy
<1> QED
  BY <1>1, <1>3, <1>7, <1>9, <1>11, <1>12, Opening

\* An approval by the tick.
LEMMA AutoApproveBegun ==
  ASSUME LearnInv, NEW p \in Proc, BeginAutoApprove(p)
  PROVE  LearnInv'
<1>1. PICK list, h : list = proc[p].ids /\ h = Head(proc[p].ids)
  OBVIOUS
<1>2. /\ proc[p].at = "waiting" /\ issued' = issued /\ RecordsInv
      /\ Begin(p, <<"auto", h>>) /\ Go(p, "approving", list)
  BY <1>1 DEF BeginAutoApprove, LearnInv
<1>3. /\ list \in Seq(Id) /\ list # <<>> /\ \A k \in DOMAIN list : Given(issued, list[k])
  BY <1>1, <1>2 DEF RecordsInv, Sane
<1>4. h \in Id /\ Given(issued, h)
  <2>1. h = Head(list)
    BY <1>1
  <2> QED
    BY <1>3, <2>1, TailOf
<1>5. PICK r : r = [at |-> "approving", ids |-> list, saw |-> NewFiles]
  OBVIOUS
<1>6. r.at = "approving" /\ r.ids = list /\ r.saw = NewFiles
  BY <1>5
<1>7. proc' = [proc EXCEPT ![p] = r]
  BY <1>2, <1>5, GoMeans
<1>8. Store(issued', r.saw)
  BY <1>6, NewStore
<1>9. Sane(issued', r)
  BY <1>2, <1>3, <1>5, <1>6, <1>8 DEF Sane
<1>10. PICK op : op = <<"auto", h>>
  OBVIOUS
<1>11. op[1] = "auto" /\ op[2] = h /\ Begin(p, op)
  BY <1>2, <1>10
<1>12. Busy(tx', p, r)
  BY <1>3, <1>6, <1>11, Opened DEF Busy
<1>13. OnlyMoreGiven
  BY <1>2, SameGiven
<1> QED
  BY <1>2, <1>4, <1>7, <1>9, <1>11, <1>12, <1>13, Opening

\* learn approve.
LEMMA ApproveBegun ==
  ASSUME LearnInv, NEW p \in Proc, NEW i \in Id, BeginApprove(p, i)
  PROVE  LearnInv'
<1>1. /\ proc[p].at = "idle" /\ issued' = issued /\ RecordsInv
      /\ files.proposals[i] # "none"
      /\ Begin(p, <<"approve", i>>) /\ Go(p, "approve", <<i>>)
  BY DEF BeginApprove, LearnInv
<1>2. Given(issued, i)
  BY <1>1 DEF RecordsInv, Store
<1>3. PICK list : list = <<i>>
  OBVIOUS
<1>4. list \in Seq(Id)
  BY <1>3
<1>5. PICK r : r = [at |-> "approve", ids |-> list, saw |-> NewFiles]
  OBVIOUS
<1>6. r.at = "approve" /\ r.ids = list /\ r.saw = NewFiles
  BY <1>5
<1>7. proc' = [proc EXCEPT ![p] = r]
  <2>1. Go(p, "approve", list)
    BY <1>1, <1>3
  <2> QED
    BY <1>5, <2>1, GoMeans
<1>8. Store(issued', r.saw)
  BY <1>6, NewStore
<1>9. Sane(issued', r)
  BY <1>4, <1>5, <1>6, <1>8 DEF Sane
<1>10. PICK op : op = <<"approve", i>>
  OBVIOUS
<1>11. op[1] = "approve" /\ op[2] = i /\ Begin(p, op)
  BY <1>1, <1>10
<1>12. Busy(tx', p, r)
  BY <1>6, <1>11, Opened DEF Busy
<1>13. OnlyMoreGiven
  BY <1>1, SameGiven
<1> QED
  BY <1>1, <1>2, <1>7, <1>9, <1>11, <1>12, <1>13, Opening

\* An application, or the record of its failure.
LEMMA ApplyBegun ==
  ASSUME LearnInv, NEW p \in Proc, (BeginApply(p) /\ tx' # tx) \/ BeginFailure(p)
  PROVE  LearnInv'
<1>1. PICK r, h : r = proc[p] /\ h = Head(proc[p].ids)
  OBVIOUS
<1>2. /\ UNCHANGED <<issued, proc>> /\ RecordsInv /\ Sane(issued, r)
      /\ \/ r.at = "applying" /\ r.ids # <<>> /\ Begin(p, <<"apply", h>>)
         \/ r.at = "failing" /\ Begin(p, <<"failed", h>>)
  BY <1>1 DEF BeginApply, BeginFailure, Replay, LearnInv, RecordsInv
<1>3. PICK op : /\ op[1] \in {"apply", "failed"} /\ Begin(p, op)
                /\ op[1] = "apply" => r.at = "applying" /\ r.ids # <<>>
                /\ op[1] = "failed" => r.at = "failing"
  BY <1>2
<1>4. proc' = [proc EXCEPT ![p] = r]
  BY <1>1, <1>2 DEF RecordsInv
<1>5. Busy(tx', p, r)
  BY <1>3, Opened DEF Busy
<1>6. OnlyMoreGiven
  BY <1>2, SameGiven
<1> QED
  BY <1>1, <1>2, <1>3, <1>4, <1>5, <1>6, Opening

\* A transaction writes without harm.
LEMMA Writing ==
  ASSUME LearnInv, NEW p \in Proc, tx.by = p, UNCHANGED <<issued, proc>>, lost \subseteq lost',
         NEW new, Store(issued, new), files' = new, NEW s \in {"appended", "written"},
         tx' = [tx EXCEPT !.step = s, !.after = new],
         s = "appended" => /\ tx.op[1] = "apply" /\ tx.op[2] \in Id
                           /\ HasJob(new, tx.op[2]) /\ tx.op[2] \in new.knowledge,
         \A i \in Id \ lost' : Good(files, new, i)
  PROVE  LearnInv'
<1>1. /\ RecordsInv'
      /\ tx # NoTx /\ tx' # NoTx
      /\ tx'.backup = tx.backup /\ tx'.op = tx.op /\ tx'.step = s
  BY WriteStep DEF LearnInv
<1>2. \A i \in Id \ lost' : \A q \in Proc :
        WillRestore(proc[q], i) => \/ WillRestore(proc'[q], i)
                                   \/ files.proposals[i] # "applied"
                                   \/ i \in files'.knowledge
  OBVIOUS
<1>3. AgreeInv'
  <2>1. \/ tx' = NoTx
        \/ tx = NoTx /\ tx'.backup = files /\ tx'.step = "begun"
        \/ /\ tx # NoTx /\ tx'.backup = tx.backup /\ tx'.op = tx.op
           /\ tx'.step = "appended" => tx.step = "appended" \/ tx.op[2] \in files'.knowledge
    BY <1>1
  <2> QED
    BY <1>2, <2>1, AgreeStep DEF LearnInv
<1> QED
  BY <1>1, <1>3 DEF LearnInv

\* What a transaction's writer knows.
LEMMA Holding ==
  ASSUME LearnInv, NEW p \in Proc, tx.by = p
  PROVE  /\ tx # NoTx /\ HeldTx(issued, tx) /\ Store(issued, files) /\ Store(issued, tx.after)
         /\ Sane(issued, proc[p]) /\ Busy(tx, p, proc[p])
         /\ files \in Files
         /\ files = [proposals |-> files.proposals, jobs |-> files.jobs,
                     knowledge |-> files.knowledge, receipts |-> files.receipts,
                     learned |-> files.learned]
<1>1. tx # NoTx
  BY NoTxStep, LearningAssumption
<1>2. /\ HeldTx(issued, tx) /\ Store(issued, files) /\ Store(issued, tx.after)
      /\ Sane(issued, proc[p]) /\ Busy(tx, p, proc[p]) /\ files \in Files
  BY <1>1 DEF LearnInv, RecordsInv, HeldTx, Store
<1> QED
  BY <1>1, <1>2, FilesParts

\* A run's learning is written.
LEMMA LearnWritten ==
  ASSUME LearnInv, NEW p \in Proc, WriteLearn(p)
  PROVE  LearnInv'
<1>1. PICK f, b, ids, L : f = files /\ b = tx.after /\ ids = proc[p].ids
                          /\ L = files.learned \cup {tx.op[2]}
  OBVIOUS
<1>2. PICK g : g = files'
  OBVIOUS
<1>3. /\ tx.by = p /\ tx.step = "begun" /\ tx.op[1] = "learn"
      /\ g = [f EXCEPT !.proposals = Proposed(b, ids), !.jobs = JobsProposed(b, ids), !.learned = L]
      /\ tx' = [tx EXCEPT !.step = "written", !.after = g]
      /\ lost' = lost \cup Differ(f, b)
      /\ UNCHANGED <<issued, proc>>
  BY <1>1, <1>2 DEF WriteLearn, Puts
<1>4. /\ HeldTx(issued, tx) /\ Store(issued, f) /\ Store(issued, b) /\ f \in Files
      /\ Sane(issued, proc[p]) /\ Busy(tx, p, proc[p])
      /\ f = [proposals |-> f.proposals, jobs |-> f.jobs, knowledge |-> f.knowledge,
              receipts |-> f.receipts, learned |-> f.learned]
  BY <1>1, <1>3, Holding
<1>5. proc[p].at = "learning" /\ \A k \in DOMAIN ids : Untouched(b, ids[k])
  BY <1>1, <1>3, <1>4 DEF Busy
<1>6. ids \in Seq(Id) /\ \A k \in DOMAIN ids : Given(issued, ids[k])
  BY <1>1, <1>4, <1>5 DEF Sane
<1>7. L \in SUBSET Run
  BY <1>1, <1>3, <1>4, FilesParts DEF HeldTx
<1>8. g = [proposals |-> Proposed(b, ids), jobs |-> JobsProposed(b, ids),
           knowledge |-> f.knowledge, receipts |-> f.receipts, learned |-> L]
  BY <1>3, <1>4
<1>9. Store(issued, g) /\ \A i \in Id : Same(f, b, i) => Good(f, g, i)
  BY <1>4, <1>5, <1>6, <1>7, <1>8, ProposingNew
<1>10. \A i \in Id \ lost' : Good(f, g, i)
  BY <1>3, <1>9, NoDifference
<1> QED
  BY <1>1, <1>2, <1>3, <1>9, <1>10, Writing

\* An approval is written.
LEMMA ApprovalWritten ==
  ASSUME LearnInv, NEW p \in Proc, WriteApproval(p)
  PROVE  LearnInv'
<1>1. PICK f, b, j : f = files /\ b = tx.after /\ j = tx.op[2]
  OBVIOUS
<1>2. PICK g, P : g = files' /\ P = [b.proposals EXCEPT ![j] = "approved"]
  OBVIOUS
<1>3. /\ tx.by = p /\ tx.op[1] \in {"approve", "auto"}
      /\ g = [f EXCEPT !.proposals = P, !.jobs = JobsQueued(b, j)]
      /\ tx' = [tx EXCEPT !.step = "written", !.after = g]
      /\ lost' = lost \cup (Differ(f, b) \cup (IF b.proposals[j] = "proposed" THEN {} ELSE {j}))
      /\ UNCHANGED <<issued, proc>>
  BY <1>1, <1>2 DEF WriteApproval, Puts
<1>4. /\ HeldTx(issued, tx) /\ Store(issued, f) /\ Store(issued, b)
      /\ f = [proposals |-> f.proposals, jobs |-> f.jobs, knowledge |-> f.knowledge,
              receipts |-> f.receipts, learned |-> f.learned]
  BY <1>1, <1>3, Holding
<1>5. j \in Id /\ Given(issued, j)
  BY <1>1, <1>3, <1>4 DEF HeldTx
<1>6. g = [proposals |-> P, jobs |-> JobsQueued(b, j), knowledge |-> f.knowledge,
           receipts |-> f.receipts, learned |-> f.learned]
  BY <1>3, <1>4
<1>7. P \in {f.proposals, [b.proposals EXCEPT ![j] = "approved"]}
  BY <1>2
<1>8. /\ Store(issued, g)
      /\ \A i \in Id : Same(f, b, i) /\ (i # j \/ b.proposals[j] # "applied" \/ P = f.proposals)
                       => Good(f, g, i)
  BY <1>4, <1>5, <1>6, <1>7, Queueing
<1>9. ASSUME NEW i \in Id \ lost'  PROVE Good(f, g, i)
  <2>1. Same(f, b, i)
    BY <1>3, NoDifference
  <2>2. i # j \/ b.proposals[j] # "applied"
    BY <1>3
  <2> QED
    BY <1>8, <2>1, <2>2
<1> QED
  BY <1>1, <1>2, <1>3, <1>8, <1>9, Writing

\* The section of a proposal is appended.
LEMMA KnowledgeAppended ==
  ASSUME LearnInv, NEW p \in Proc, AppendKnowledge(p)
  PROVE  LearnInv'
<1>1. PICK f, b, j, K : f = files /\ b = tx.after /\ j = tx.op[2] /\ K = tx.after.knowledge \cup {tx.op[2]}
  OBVIOUS
<1>2. PICK g : g = files'
  OBVIOUS
<1>3. /\ tx.by = p /\ tx.op[1] = "apply"
      /\ HasJob(b, j) /\ ~JobIs(b, j, "applied")
      /\ g = [f EXCEPT !.jobs = WithJob(b.jobs, j, "running", 0), !.knowledge = K]
      /\ tx' = [tx EXCEPT !.step = "appended", !.after = g]
      /\ lost' = lost \cup (Differ(f, b) \cup (f.knowledge \ K))
      /\ UNCHANGED <<issued, proc>>
  BY <1>1, <1>2 DEF AppendKnowledge, Appliable, Puts
<1>4. /\ HeldTx(issued, tx) /\ Store(issued, f) /\ Store(issued, b)
      /\ f = [proposals |-> f.proposals, jobs |-> f.jobs, knowledge |-> f.knowledge,
              receipts |-> f.receipts, learned |-> f.learned]
  BY <1>1, <1>3, Holding
<1>5. j \in Id /\ K \in SUBSET Id
  <2>1. b.jobs \in Seq(Job) /\ b.knowledge \subseteq Id
    BY <1>4, FilesParts DEF Store
  <2>2. PICK k \in DOMAIN b.jobs : b.jobs[k].id = j
    BY <1>3, JobsAt
  <2>3. b.jobs[k] \in Job
    BY <2>1
  <2> QED
    BY <1>1, <2>1, <2>2, <2>3 DEF Job
<1>6. ~JobDone(b, j)
  BY <1>3 DEF JobDone
<1>7. g = [proposals |-> f.proposals, jobs |-> WithJob(b.jobs, j, "running", 0), knowledge |-> K,
           receipts |-> f.receipts, learned |-> f.learned]
  BY <1>3, <1>4
<1>8. /\ Store(issued, g) /\ HasJob(g, j)
      /\ \A i \in Id : Same(f, b, i) /\ (i \in f.knowledge => i \in K) => Good(f, g, i)
  <2>1. PICK s \in {"running", "failed"}, t \in {0, 1} : s = "running" /\ t = 0
    OBVIOUS
  <2>2. g = [proposals |-> f.proposals, jobs |-> WithJob(b.jobs, j, s, t), knowledge |-> K,
             receipts |-> f.receipts, learned |-> f.learned]
    BY <1>7, <2>1
  <2>3. /\ Store(issued, g)
        /\ \A i \in Id : Same(f, b, i) /\ (i \in f.knowledge => i \in K) => Good(f, g, i)
    BY <1>4, <1>5, <1>6, <2>2, Running
  <2>4. HasJob(g, j) <=> HasJob(b, j)
    BY <1>4, <1>5, <1>6, <2>2, Running
  <2> QED
    BY <1>3, <2>3, <2>4
<1>9. ASSUME NEW i \in Id \ lost'  PROVE Good(f, g, i)
  <2>1. Same(f, b, i)
    BY <1>3, NoDifference
  <2>2. i \in f.knowledge => i \in K
    BY <1>3
  <2> QED
    BY <1>8, <2>1, <2>2
<1>10. j \in g.knowledge
  BY <1>1, <1>7
<1> QED
  BY <1>1, <1>2, <1>3, <1>5, <1>8, <1>9, <1>10, Writing

\* The receipt and the status are written.
LEMMA ReceiptWritten ==
  ASSUME LearnInv, NEW p \in Proc, WriteReceipt(p)
  PROVE  LearnInv'
<1>1. PICK f, b, j : f = files /\ b = tx.after /\ j = tx.op[2]
  OBVIOUS
<1>2. PICK g, P, R : /\ g = files' /\ P = [b.proposals EXCEPT ![j] = "applied"]
                     /\ R = [f.receipts EXCEPT ![j] = @ + 1]
  OBVIOUS
<1>3. /\ tx.by = p /\ tx.step = "appended"
      /\ g = [f EXCEPT !.receipts = R, !.proposals = P, !.jobs = WithJob(b.jobs, j, "applied", 1)]
      /\ tx' = [tx EXCEPT !.step = "written", !.after = g]
      /\ lost' = lost \cup Differ(f, b)
      /\ UNCHANGED <<issued, proc>>
  <2>1. PICK new : /\ new = [f EXCEPT !.receipts[j] = @ + 1, !.proposals = P,
                                      !.jobs = WithJob(b.jobs, j, "applied", 1)]
                   /\ tx.by = p /\ tx.step = "appended" /\ files' = new
                   /\ tx' = [tx EXCEPT !.step = "written", !.after = new]
                   /\ lost' = lost \cup Differ(f, b)
                   /\ UNCHANGED <<issued, proc>>
    BY <1>1, <1>2 DEF WriteReceipt, Puts
  <2> QED
    BY <1>2, <2>1
<1>4. /\ HeldTx(issued, tx) /\ Store(issued, f) /\ Store(issued, b)
      /\ f = [proposals |-> f.proposals, jobs |-> f.jobs, knowledge |-> f.knowledge,
              receipts |-> f.receipts, learned |-> f.learned]
  BY <1>1, <1>3, Holding
<1>5. j \in Id /\ HasJob(b, j)
  BY <1>1, <1>3, <1>4 DEF HeldTx
<1>6. g = [proposals |-> P, jobs |-> WithJob(b.jobs, j, "applied", 1), knowledge |-> f.knowledge,
           receipts |-> R, learned |-> f.learned]
  BY <1>3, <1>4
<1>7. /\ Store(issued, g)
      /\ \A i \in Id : Same(f, b, i) /\ (i = j => i \in f.knowledge) => Good(f, g, i)
  BY <1>2, <1>4, <1>5, <1>6, Receiving
<1>8. ASSUME NEW i \in Id \ lost'  PROVE Good(f, g, i)
  <2>1. Same(f, b, i)
    BY <1>3, NoDifference
  <2>2. i = j => i \in f.knowledge
    BY <1>1, <1>3 DEF LearnInv, AgreeInv
  <2> QED
    BY <1>7, <2>1, <2>2
<1> QED
  BY <1>1, <1>2, <1>3, <1>7, <1>8, Writing

\* An apply that had been committed answers and writes nothing.
LEMMA AppliedAnswered ==
  ASSUME LearnInv, NEW p \in Proc, AlreadyApplied(p)
  PROVE  LearnInv'
<1>1. /\ tx.by = p /\ UNCHANGED <<issued, proc>> /\ files' = files /\ lost \subseteq lost'
      /\ tx' = [tx EXCEPT !.step = "written", !.after = files]
  BY DEF AlreadyApplied, Puts
<1>2. Store(issued, files)
  BY <1>1, Holding
<1>3. \A i \in Id \ lost' : Good(files, files, i)
  BY GoodAsItIs
<1> QED
  BY <1>1, <1>2, <1>3, Writing

\* The failure of a job is written.
LEMMA FailureWritten ==
  ASSUME LearnInv, NEW p \in Proc, WriteFailure(p)
  PROVE  LearnInv'
<1>1. PICK f, b, j : f = files /\ b = tx.after /\ j = tx.op[2]
  OBVIOUS
<1>2. PICK g : g = files'
  OBVIOUS
<1>3. /\ tx.by = p /\ UNCHANGED <<issued, proc>> /\ lost \subseteq lost'
      /\ tx' = [tx EXCEPT !.step = "written", !.after = g]
      /\ \/ g = f
         \/ /\ HasJob(b, j) /\ ~JobIs(b, j, "applied")
            /\ g = [f EXCEPT !.jobs = WithJob(b.jobs, j, "failed", 1)]
            /\ lost' = lost \cup Differ(f, b)
  BY <1>1, <1>2 DEF WriteFailure, Puts
<1>4. /\ HeldTx(issued, tx) /\ Store(issued, f) /\ Store(issued, b) /\ f \in Files
      /\ f = [proposals |-> f.proposals, jobs |-> f.jobs, knowledge |-> f.knowledge,
              receipts |-> f.receipts, learned |-> f.learned]
  BY <1>1, <1>3, Holding
<1>5. CASE g = f
  BY <1>1, <1>2, <1>3, <1>4, <1>5, GoodAsItIs, Writing
<1>6. CASE g # f
  <2>1. j \in Id
    <3>1. b.jobs \in Seq(Job)
      BY <1>4, FilesParts DEF Store
    <3>2. PICK k \in DOMAIN b.jobs : b.jobs[k].id = j
      BY <1>3, <1>6, JobsAt
    <3>3. b.jobs[k] \in Job
      BY <3>1
    <3> QED
      BY <3>2, <3>3 DEF Job
  <2>2. ~JobDone(b, j)
    BY <1>3, <1>6 DEF JobDone
  <2>3. PICK s \in {"running", "failed"}, t \in {0, 1} : s = "failed" /\ t = 1
    OBVIOUS
  <2>4. PICK K : K = f.knowledge
    OBVIOUS
  <2>5. g = [proposals |-> f.proposals, jobs |-> WithJob(b.jobs, j, s, t), knowledge |-> K,
             receipts |-> f.receipts, learned |-> f.learned]
    BY <1>3, <1>4, <1>6, <2>3, <2>4
  <2>6. K \in SUBSET Id
    BY <1>4, <2>4, FilesParts
  <2>7. /\ Store(issued, g)
        /\ \A i \in Id : Same(f, b, i) /\ (i \in f.knowledge => i \in K) => Good(f, g, i)
    BY <1>4, <2>1, <2>2, <2>5, <2>6, Running
  <2>8. \A i \in Id \ lost' : Good(f, g, i)
    BY <1>3, <1>6, <2>4, <2>7, NoDifference
  <2> QED
    BY <1>1, <1>2, <1>3, <2>7, <2>8, Writing
<1> QED
  BY <1>5, <1>6

\* A commit; the caller goes on.
LEMMA Committing ==
  ASSUME LearnInv, NEW p \in Proc, Commit(p)
  PROVE  LearnInv'
<1>1. PICK old : old = proc[p]
  OBVIOUS
<1>2. /\ tx.by = p /\ tx' = NoTx /\ UNCHANGED <<files, issued, lost>>
      /\ Store(issued, files) /\ Sane(issued, old) /\ Busy(tx, p, old) /\ RecordsInv
  BY <1>1, Holding DEF Commit, LearnInv
<1>3. \/ old.at = "learning"
      \/ old.at = "approving" /\ old.ids # <<>>
      \/ old.at \in {"applying", "failing", "approve"}
  BY <1>2 DEF Busy
<1>4. PICK place, list :
        /\ Go(p, place, list)
        /\ \/ place = "approving" /\ list \in Seq(Id) /\ \A k \in DOMAIN list : Given(issued, list[k])
           \/ place = "applying"
           \/ place = "idle" /\ list = <<>>
  <2>1. CASE old.at = "learning"
    <3>1. old.ids \in Seq(Id) /\ \A k \in DOMAIN old.ids : Given(issued, old.ids[k])
      BY <1>2, <2>1 DEF Sane
    <3>2. Go(p, "approving", old.ids)
      BY <1>1, <2>1 DEF Commit
    <3> QED
      BY <3>1, <3>2
  <2>2. CASE old.at = "approving" /\ old.ids # <<>>
    <3>1. old.ids \in Seq(Id) /\ \A k \in DOMAIN old.ids : Given(issued, old.ids[k])
      BY <1>2, <2>2 DEF Sane
    <3>2. /\ Tail(old.ids) \in Seq(Id)
          /\ \A k \in DOMAIN Tail(old.ids) : Given(issued, Tail(old.ids)[k])
      BY <2>2, <3>1, TailOf
    <3>3. Go(p, "approving", Tail(old.ids))
      BY <1>1, <2>2 DEF Commit
    <3> QED
      BY <3>2, <3>3
  <2>3. CASE old.at \in {"applying", "failing"}
    <3>1. Go(p, "applying", Tail(old.ids))
      BY <1>1, <2>3 DEF Commit
    <3> QED
      BY <3>1
  <2>4. CASE old.at = "approve"
    <3>1. Go(p, "idle", <<>>)
      BY <1>1, <2>4 DEF Commit
    <3> QED
      BY <3>1
  <2> QED
    BY <1>3, <2>1, <2>2, <2>3, <2>4
<1>5. PICK r : r = [at |-> place, ids |-> list, saw |-> NewFiles]
  OBVIOUS
<1>6. proc' = [proc EXCEPT ![p] = r]
  BY <1>4, <1>5, GoMeans
<1>7. Sane(issued, r)
  <2>1. r.at = place /\ r.ids = list /\ r.saw = NewFiles
    BY <1>5
  <2>2. Store(issued, r.saw)
    BY <2>1, NewStore
  <2>3. place = "idle" => list \in Seq(Id)
    BY <1>4
  <2> QED
    BY <1>4, <1>5, <2>1, <2>2, <2>3 DEF Sane
<1>8. RecordsInv'
  BY <1>2, <1>6, <1>7, CloseStep
<1>9. \A i \in Id \ lost' : Good(files, files', i)
  BY <1>2, GoodAsItIs
<1>10. \A i \in Id : ~WillRestore(old, i)
  BY <1>3 DEF WillRestore
<1>11. \A i \in Id \ lost' : \A q \in Proc :
        WillRestore(proc[q], i) => \/ WillRestore(proc'[q], i)
                                   \/ files.proposals[i] # "applied"
                                   \/ i \in files'.knowledge
  BY <1>1, <1>2, <1>6, <1>10, OthersRestore
<1>12. AgreeInv'
  BY <1>2, <1>9, <1>11, AgreeStep DEF LearnInv
<1> QED
  BY <1>8, <1>12 DEF LearnInv

\* The files are restored; a process that waited for it goes on.
LEMMA Restoring ==
  ASSUME LearnInv, tx # NoTx, Restored, issued' = issued,
         \/ proc' = proc
         \/ \E p \in Proc : \E r : /\ Sane(issued', r) /\ proc' = [proc EXCEPT ![p] = r]
                                   /\ \A i \in Id : ~WillRestore(proc[p], i)
  PROVE  LearnInv'
<1>1. /\ files' = tx.backup /\ tx' = NoTx
      /\ lost' = lost \cup Differ(files, tx.after) \cup (files.knowledge \ tx.backup.knowledge)
  BY DEF Restored
<1>2. Store(issued, files')
  BY <1>1 DEF LearnInv, RecordsInv, HeldTx
<1>3. RecordsInv'
  BY <1>1, <1>2, CloseStep DEF LearnInv
<1>4. ASSUME NEW i, NEW q \in Proc, WillRestore(proc[q], i), i \in Id
      PROVE  WillRestore(proc'[q], i)
  BY <1>4 DEF LearnInv, RecordsInv
<1>5. ASSUME NEW i \in Id \ lost'
      PROVE  /\ Agree(files', i)
             /\ files'.proposals[i] = "applied" =>
                  i \in files'.knowledge \/ \E p \in Proc : WillRestore(proc'[p], i)
  <2>1. /\ Agree(tx.backup, i)
        /\ tx.backup.proposals[i] = "applied" => files.proposals[i] = "applied"
        /\ files.proposals[i] = "applied" =>
             i \in files.knowledge \/ \E p \in Proc : WillRestore(proc[p], i)
    BY <1>1 DEF LearnInv, AgreeInv
  <2>2. i \in files.knowledge => i \in tx.backup.knowledge
    BY <1>1
  <2> QED
    BY <1>1, <1>4, <2>1, <2>2
<1>6. AgreeInv'
  BY <1>1, <1>5, NoTxStep DEF AgreeInv
<1> QED
  BY <1>3, <1>6 DEF LearnInv

\* A recovery or a throw brings the backup back.
LEMMA RestoringSteps ==
  ASSUME LearnInv, Recover \/ \E p \in Proc : ApplyThrows(p) \/ ApproveThrows(p)
  PROVE  LearnInv'
<1>1. CASE Recover
  BY <1>1, Restoring DEF Recover
<1>2. ASSUME NEW p \in Proc, ApplyThrows(p) \/ ApproveThrows(p)
      PROVE  LearnInv'
  <2>1. tx.by = p /\ Restored /\ issued' = issued
    BY <1>2 DEF ApplyThrows, ApproveThrows
  <2>2. tx # NoTx /\ Busy(tx, p, proc[p])
    BY <2>1, Holding
  <2>3. \A i \in Id : ~WillRestore(proc[p], i)
    BY <2>1, <2>2 DEF Busy, WillRestore
  <2>4. PICK place, list : /\ Go(p, place, list)
                           /\ (place = "failing" \/ (place = "idle" /\ list = <<>>))
    BY <1>2 DEF ApplyThrows, ApproveThrows
  <2>5. PICK r : r = [at |-> place, ids |-> list, saw |-> NewFiles]
    OBVIOUS
  <2>6. proc' = [proc EXCEPT ![p] = r]
    BY <2>4, <2>5, GoMeans
  <2>7. Sane(issued', r)
    <3>1. r.at = place /\ r.ids = list /\ r.saw = NewFiles
      BY <2>5
    <3>2. Store(issued', r.saw)
      BY <3>1, NewStore
    <3>3. place = "idle" => list \in Seq(Id)
      BY <2>4
    <3> QED
      BY <2>4, <2>5, <3>1, <3>2, <3>3 DEF Sane
  <2> QED
    BY <2>1, <2>2, <2>3, <2>6, <2>7, Restoring
<1> QED
  BY <1>1, <1>2

\* A process is killed.
LEMMA Killing ==
  ASSUME LearnInv, NEW p \in Proc, Kill(p)
  PROVE  LearnInv'
<1>1. PICK r : r = Idle
  OBVIOUS
<1>2. /\ proc' = [proc EXCEPT ![p] = r] /\ UNCHANGED <<files, issued>>
      /\ tx' = IF tx.by = p THEN [tx EXCEPT !.by = None] ELSE tx
      /\ lost' = IF Refreshing(p) THEN lost \cup {i \in Id : files.receipts[i] > 0} ELSE lost
  BY <1>1 DEF Kill
<1>3. Sane(issued, r)
  <2>1. r = [at |-> "idle", ids |-> <<>>, saw |-> NewFiles]
    BY <1>1 DEF Idle
  <2> QED
    BY <2>1, AtRest
<1>4. /\ proc' = [q \in Proc |-> proc'[q]]
      /\ \A q \in Proc : q # p => proc'[q] = proc[q]
      /\ \A q \in Proc : Sane(issued', proc'[q])
  BY <1>2, <1>3, OneGoesOn, SameGiven DEF LearnInv
<1>5. \/ tx' = tx /\ tx.by # p
      \/ /\ tx # NoTx /\ tx' # NoTx /\ tx'.by = None
         /\ tx' = [by |-> None, op |-> tx.op, step |-> tx.step, backup |-> tx.backup, after |-> tx.after]
         /\ tx'.op = tx.op /\ tx'.step = tx.step /\ tx'.backup = tx.backup /\ tx'.after = tx.after
  <2>1. CASE tx.by # p
    BY <1>2, <2>1
  <2>2. CASE tx.by = p
    <3>1. tx # NoTx /\ HeldTx(issued, tx)
      BY <2>2, Holding
    <3>2. tx' = [by |-> None, op |-> tx.op, step |-> tx.step, backup |-> tx.backup, after |-> tx.after]
      BY <1>2, <2>2, <3>1 DEF HeldTx
    <3>3. tx'.step # NoTx.step
      BY <3>1, <3>2, NoTxStep DEF HeldTx
    <3> QED
      BY <3>1, <3>2, <3>3
  <2> QED
    BY <2>1, <2>2
<1>6. \A q \in Proc : Busy(tx', q, proc'[q])
  BY <1>4, <1>5, LearningAssumption DEF LearnInv, RecordsInv, Busy
<1>7. tx' # NoTx => HeldTx(issued', tx')
  BY <1>2, <1>5 DEF LearnInv, RecordsInv, HeldTx
<1>8. RecordsInv'
  BY <1>2, <1>4, <1>6, <1>7 DEF LearnInv, RecordsInv
<1>9. lost \subseteq lost' /\ \A i \in Id \ lost' : Good(files, files', i)
  BY <1>2, GoodAsItIs
<1>10. ASSUME NEW i \in Id \ lost', WillRestore(proc[p], i)
       PROVE  files.proposals[i] # "applied"
  <2>1. Refreshing(p)
    BY <1>10 DEF WillRestore, Refreshing
  <2>2. ~(files.receipts[i] > 0)
    BY <1>2, <2>1
  <2> QED
    BY <1>9, <2>2 DEF LearnInv, AgreeInv, Agree
<1>11. \A i \in Id \ lost' : \A q \in Proc :
        WillRestore(proc[q], i) => \/ WillRestore(proc'[q], i)
                                   \/ files.proposals[i] # "applied"
                                   \/ i \in files'.knowledge
  BY <1>4, <1>10
<1>12. AgreeInv'
  <2>1. \/ tx' = NoTx
        \/ tx = NoTx /\ tx'.backup = files /\ tx'.step = "begun"
        \/ /\ tx # NoTx /\ tx'.backup = tx.backup /\ tx'.op = tx.op
           /\ tx'.step = "appended" => tx.step = "appended" \/ tx.op[2] \in files'.knowledge
    BY <1>5
  <2> QED
    BY <1>9, <1>11, <2>1, AgreeStep DEF LearnInv
<1> QED
  BY <1>8, <1>12 DEF LearnInv

-----------------------------------------------------------------------------
\* The invariant holds at the start.
LEMMA InitAgrees == Init => LearnInv
<1> SUFFICES ASSUME Init  PROVE LearnInv
  OBVIOUS
<1>1. Store(issued, files) /\ tx = NoTx
  BY NewStore DEF Init
<1>2. PICK r : r = Idle
  OBVIOUS
<1>3. Sane(issued, r)
  <2>1. r = [at |-> "idle", ids |-> <<>>, saw |-> NewFiles]
    BY <1>2 DEF Idle
  <2> QED
    BY <2>1, AtRest
<1>4. proc = [p \in Proc |-> proc[p]] /\ \A p \in Proc : proc[p] = r
  BY <1>2 DEF Init
<1>5. \A p \in Proc : Sane(issued, proc[p]) /\ Busy(tx, p, proc[p])
  BY <1>1, <1>3, <1>4, NoTxStep, LearningAssumption DEF Busy
<1>6. issued \in [Change -> 0..MaxIssues]
  BY LearningAssumption DEF Init
<1>7. RecordsInv
  BY <1>1, <1>4, <1>5, <1>6 DEF RecordsInv
<1>8. AgreeInv
  <2>1. files.proposals = [i \in Id |-> "none"]
    BY DEF Init, NewFiles
  <2> QED
    BY <1>1, <2>1, NewStore, NoTxStep DEF Init, AgreeInv
<1> QED
  BY <1>7, <1>8 DEF LearnInv

\* Every step keeps it.
LEMMA StepAgrees == LearnInv /\ [Next]_vars => LearnInv'
<1> SUFFICES ASSUME LearnInv, [Next]_vars  PROVE LearnInv'
  OBVIOUS
<1>1. ASSUME NEW p \in Proc, TransactionStep(p)  PROVE LearnInv'
  BY <1>1, LearnWritten, ApprovalWritten, KnowledgeAppended, ReceiptWritten, AppliedAnswered,
     FailureWritten, Committing, RestoringSteps DEF TransactionStep
<1>2. ASSUME NEW p \in Proc, CommandStep(p)  PROVE LearnInv'
  BY <1>2, LookingSteps, ProposalsWritten, JobsWritten, JobQueued, RefreshReads,
     SectionRestored DEF CommandStep
<1>3. ASSUME NEW p \in Proc, LockStep(p)  PROVE LearnInv'
  BY <1>3, AutoApproveBegun, ApplyBegun, LookingSteps DEF LockStep
<1>4. ASSUME NEW p \in Proc, Tick(p)  PROVE LearnInv'
  BY <1>4, LearnBegun, LookingSteps DEF Tick
<1>5. ASSUME NEW p \in Proc, UserCommand(p)  PROVE LearnInv'
  BY <1>5, ProposeReads, ApproveBegun, LookingSteps, KnowledgeRendered DEF UserCommand
<1>6. CASE UNCHANGED vars
  BY <1>6 DEF vars, LearnInv, RecordsInv, AgreeInv
<1> QED
  BY <1>1, <1>2, <1>3, <1>4, <1>5, <1>6, Killing, RestoringSteps DEF Next, Proc

\* What the invariant says between transactions.
LEMMA AgreeWhenIdle == LearnInv => OnlyStaleWritesDisagree
<1> SUFFICES ASSUME LearnInv, tx = NoTx, NEW i \in Id \ lost
             PROVE  /\ files.proposals[i] = "applied" => files.receipts[i] > 0
                    /\ files.proposals[i] = "applied" <=> JobIs(files, i, "applied")
                    /\ files.proposals[i] = "applied" /\ (\A p \in Proc : ~Refreshing(p)) =>
                         i \in files.knowledge
  BY DEF OnlyStaleWritesDisagree
<1>1. /\ Agree(files, i)
      /\ files.proposals[i] = "applied" =>
           i \in files.knowledge \/ \E p \in Proc : WillRestore(proc[p], i)
  BY DEF LearnInv, AgreeInv
<1>2. \A p \in Proc : WillRestore(proc[p], i) => Refreshing(p)
  BY DEF WillRestore, Refreshing
<1> QED
  BY <1>1, <1>2 DEF Agree, JobDone

\* Between transactions a proposal, its job, its receipt and its section agree,
\* unless a command wrote over records that had changed since it read them.
THEOREM RecordsAgree == Spec => []OnlyStaleWritesDisagree
<1>1. Init => LearnInv
  BY InitAgrees
<1>2. LearnInv /\ [Next]_vars => LearnInv'
  BY StepAgrees
<1>3. LearnInv => OnlyStaleWritesDisagree
  BY AgreeWhenIdle
<1> QED
  BY <1>1, <1>2, <1>3, PTL DEF Spec
=============================================================================
