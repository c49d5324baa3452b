---------------------------- MODULE LoopsProofs ----------------------------
(* What Loops promises about the candidate, the workers and the guidance of a  *)
(* run, for every limit, number of attempts and workers, and mix of faults.    *)
(* The promises are not inductive: that a completed run delivered a proven     *)
(* tree needs the verdict of the attempt at `commit'; that one worker acts     *)
(* needs that a worker is put to work only for the attempt that runs, and that *)
(* every way out of it stops the worker; both need what the items of the chain *)
(* and the place of the executing one say of the rows, whatever was lost.      *)
EXTENDS Loops, FiniteSetTheorems, SequenceTheorems, TLAPS

-----------------------------------------------------------------------------
(* The invariant.                                                              *)

\* Attempts are numbered in order, and one is open at a time.
Made == {a \in Rows : att[a].status # "none"}
Dense == \E n \in 0 .. MaxRows : Made = 1 .. n

(* An attempt that is queued was never with a worker; one that runs is with    *)
(* the run's, and only one that ran is judged, timed, held or passed.          *)
Done(a) == att[a].status = "done"
RowInv(a) ==
    /\ a < Cur => Done(a)
    /\ att[a].status = "queued" => att[a].worker = NoWorker /\ ~att[a].started
    /\ att[a].status \in {"running", "verifying"} => att[a].started /\ att[a].worker = run.worker
    /\ att[a].result \notin {"none", "stopped", "worker_failed"} => att[a].started
    /\ deadline[a] # "none" \/ a \in timedOut \/ task[a] \in {"running", "held"} => att[a].started
    /\ att[a].started \/ task[a] # "none" => att[a].status # "none"
    /\ att[a].result = "verified" => att[a].tree \in proven
RowsInv ==
    /\ Dense /\ \A a \in Rows : RowInv(a)
    /\ run.status = "verifying" => Cur # 0 /\ att[Cur].started

\* What an item that waits says of its attempt, as long as it waits.
ItemOf(rows, item) ==
    /\ item[1] \in {"spawn", "settled", "waiting"} => rows[item[2]].status # "none"
    /\ (item[1] = "settled" /\ item[3] = "done") \/ item[1] = "verify" => rows[item[2]].started
    /\ item[1] \in {"after", "requeue", "answer"} => rows[item[2]].status = "done"
    /\ item[1] = "answer" => rows[item[2]].started
ItemInv(item) == ItemOf(att, item)
Spots == 1 .. Len(chain)
ItemsInv == \A i \in Spots : ItemInv(chain[i])

(* Who prepares, or queues again an attempt that was never handed over, finds  *)
(* the run as the daemon found it when it started.                             *)
FirstInv ==
    \A i \in Spots :
      /\ chain[i][1] = "prepare" => i = 1 /\ pc = <<"idle">> /\ Cur = 0
      /\ chain[i][1] = "requeue" =>
            /\ pc = <<"idle">> /\ chain[i][2] = Cur
            /\ \A j \in 1 .. i - 1 : chain[j][1] = "settled" /\ Done(chain[j][2])

(* Where the executing item is tells what the rows are: an await is resumed    *)
(* with what it read before, and no request in between may have changed it.    *)
Ending == {"release", "stopWork", "drain"}
Unguarded == {"idle", "start", "verify", "after"}
PlaceInv ==
    /\ ~up => pc = <<"idle">> /\ workers = {}
    /\ pc[1] \notin Ending \cup Unguarded => ~Over
    /\ pc[1] \in Ending => Over
    /\ pc[1] \in {"prepare", "baseline"} => Cur = 0
    /\ pc[1] = "start" => IF Cur = 0 THEN pc[2] = 0
                          ELSE /\ pc[2] = Cur /\ Done(Cur)
                               /\ pc[3] \/ att[Cur].started \/ att[Cur].result = "worker_failed"
    /\ pc[1] \in {"enqueue", "record", "giveBack", "replace", "create", "go"} => pc[2] = Cur /\ CurStatus = "queued"
    /\ pc[1] \in {"send", "verifying", "quiesce", "snapshot", "checks", "stopLost", "commit"} => pc[2] = Cur
    /\ pc[1] = "send" => CurStatus = "running"
    /\ pc[1] \in {"go", "stopLost", "quiesce"} => pc[3] = run.worker
    /\ pc[1] \in {"verify", "verifying"} => att[pc[2]].started
    /\ pc[1] = "verifying" => ~Done(pc[2])
    /\ pc[1] \in {"quiesce", "snapshot", "checks"} => CurStatus = "verifying"
    /\ pc[1] \in {"after", "stopLost"} => Done(pc[2])
    /\ pc[1] = "commit" => att[pc[2]].result = "verified" /\ att[pc[2]].tree # Base

(* The run's worker alone acts, for an attempt that runs, or until it has been *)
(* stopped; who is over has, outside the three places left, no worker.         *)
WorkInv ==
    /\ Acting \subseteq {run.worker}
    /\ Acting # {} => CurStatus = "running" \/ pc[1] \in {"quiesce", "stopLost", "drain"}
    /\ Over /\ Acting # {} => pc[1] \in {"stopWork", "drain"}
    /\ armed \subseteq workers \cup (IF pc[1] = "go" THEN {pc[3]} ELSE {})
    /\ Over /\ pc[1] \notin Ending => workers = {} /\ armed = {}

IInv == TypeOK /\ RowsInv /\ ItemsInv /\ FirstInv /\ PlaceInv /\ WorkInv /\ DeliveredProven /\ SteerKept

-----------------------------------------------------------------------------
(* Rows are made one after the other, and only the last is not done.           *)

LEMMA CurCount ==
  ASSUME RowsInv
  PROVE  Cur \in 0 .. MaxRows /\ Made = 1 .. Cur
<1>1. PICK n \in 0 .. MaxRows : Made = 1 .. n
  BY DEF RowsInv, Dense
<1>2. n \in Nat /\ MaxRows \in Nat
  BY ConstantsAssumption
<1>3. Cardinality(1 .. n) = n
  BY <1>2, FS_Interval, n \in Int
<1>4. Cur = n
  BY <1>1, <1>3 DEF Cur, Made
<1> QED
  BY <1>1, <1>4

LEMMA RowFacts ==
  ASSUME TypeOK, RowsInv
  PROVE  /\ Cur \in Nat /\ MaxRows \in Nat /\ (Cur # 0 => Cur \in Rows)
         /\ \A a \in Rows : att[a].status # "none" <=> a <= Cur
         /\ \A a \in Rows : att[a].status # "none" /\ ~Done(a) => a = Cur
         /\ Cur # 0 => att[Cur].status \in {"queued", "running", "verifying", "done"}
<1>1. MaxRows \in Nat
  BY ConstantsAssumption
<1>2. Cur \in 0 .. MaxRows /\ Made = 1 .. Cur
  BY CurCount
<1>3. \A a \in Rows : att[a].status # "none" <=> a <= Cur
  BY <1>1, <1>2 DEF Made, Rows
<1>4. \A a \in Rows : a < Cur => Done(a)
  BY DEF RowsInv, RowInv
<1>5. \A a \in Rows : a <= Cur /\ ~Done(a) => a = Cur
  BY <1>1, <1>2, <1>4 DEF Rows
<1>6. Cur # 0 => Cur \in Rows
  BY <1>1, <1>2 DEF Rows
<1>7. Cur # 0 => att[Cur].status # "none"
  BY <1>1, <1>2, <1>3, <1>6
<1>8. \A a \in Rows : att[a].status \in {"none", "queued", "running", "verifying", "done"}
  BY DEF TypeOK, AttemptRows
<1> QED
  BY <1>1, <1>2, <1>3, <1>5, <1>6, <1>7, <1>8

LEMMA CurKept ==
  ASSUME \A a \in Rows : att'[a].status # "none" <=> att[a].status # "none"
  PROVE  Cur' = Cur /\ (Dense => Dense')
<1>1. Made' = Made
  BY DEF Made
<1> QED
  BY <1>1 DEF Cur, Made, Dense

\* An attempt made after the last one.
LEMMA CurNext ==
  ASSUME TypeOK, RowsInv, Cur + 1 \in Rows, att'[Cur + 1].status # "none",
         \A a \in Rows \ {Cur + 1} : att'[a] = att[a]
  PROVE  Dense' /\ Cur' = Cur + 1
<1>1. Cur \in Nat /\ MaxRows \in Nat
  BY RowFacts
<1>2. Made = 1 .. Cur
  BY CurCount
<1>3. Made' = Made \cup {Cur + 1}
  BY DEF Made
<1>4. Made' = 1 .. Cur + 1
  BY <1>1, <1>2, <1>3
<1>5. Cardinality(1 .. Cur + 1) = Cur + 1
  BY <1>1, FS_Interval, Cur + 1 \in Int
<1>6. Cur + 1 \in 0 .. MaxRows
  BY <1>1 DEF Rows
<1> QED
  BY <1>4, <1>5, <1>6 DEF Dense, Cur, Made

-----------------------------------------------------------------------------
(* What an item and a place carry.                                             *)

Plain == {"prepare", "carryOn", "cancel"}
OfRow == {"spawn", "waiting", "verify", "after", "requeue", "answer"}
LEMMA ItemArgs ==
  ASSUME NEW item \in Items
  PROVE  /\ item[1] \in OfRow \cup {"settled"} => item[2] \in Rows
         /\ item[1] = "moved" => item[2] \in Workers
         /\ item[1] = "settled" => item[3] \in {"done", "failed", "reclaimed"}
BY DEF Items, OfRow

LEMMA IsItem ==
  /\ \A kind \in Plain : <<kind>> \in Items
  /\ \A kind \in OfRow, a \in Rows : <<kind, a>> \in Items
  /\ \A a \in Rows, how \in {"done", "failed", "reclaimed"} : <<"settled", a, how>> \in Items
  /\ \A s \in Workers : <<"moved", s>> \in Items
BY DEF Items, Plain, OfRow

Bare == {"idle", "prepare", "baseline", "stopWork", "drain"}
AtRow == {"enqueue", "record", "giveBack", "replace", "create", "send", "verify", "verifying", "snapshot", "after", "commit"}
AtWorker == {"go", "quiesce", "stopLost"}
LEMMA PlaceArgs ==
  ASSUME pc \in Places
  PROVE  /\ pc[1] \in AtRow \cup AtWorker \cup {"checks"} => pc[2] \in Rows
         /\ pc[1] \in AtWorker => pc[3] \in Workers
         /\ pc[1] = "start" => pc[2] \in Rows \cup {0} /\ pc[3] \in BOOLEAN
         /\ pc[1] = "checks" => pc[3] \in Trees
         /\ pc[1] = "idle" => pc = <<"idle">>
BY DEF Places, AtRow, AtWorker

LEMMA IsPlace ==
  /\ \A place \in Bare : <<place>> \in Places
  /\ \A place \in AtRow, a \in Rows : <<place, a>> \in Places
  /\ \A place \in AtWorker, a \in Rows, s \in Workers : <<place, a, s>> \in Places
  /\ \A a \in Rows \cup {0}, again \in BOOLEAN : <<"start", a, again>> \in Places
  /\ \A a \in Rows, t \in Trees : <<"checks", a, t>> \in Places
  /\ \A own \in BOOLEAN : <<"release", own>> \in Places
BY DEF Places, Bare, AtRow, AtWorker

-----------------------------------------------------------------------------
(* Type correctness of the run and of the attempts.                            *)

LEMMA EndsTyped ==
  ASSUME NEW r \in RunRows, NEW status \in Terminal, Ends(r, status)
  PROVE  run' \in RunRows /\ run'.status = status /\ run'.worker = r.worker
BY DEF Ends, RunRows

LEMMA RunTyped ==
  ASSUME TypeOK, RowsInv, Next
  PROVE  run' \in RunRows
<1>1. run \in RunRows
  BY DEF TypeOK
<1>2. [run EXCEPT !.prepared = TRUE] \in RunRows
  BY <1>1 DEF RunRows
<1>3. \A r \in RunRows, status \in {"failed", "blocked", "budget_exhausted", "cancelled", "completed"} :
          Ends(r, status) => run' \in RunRows
  BY EndsTyped DEF Terminal
<1>status. \A status \in {"running", "verifying", "waiting", "paused"} : [run EXCEPT !.status = status] \in RunRows
  BY <1>1 DEF RunRows
<1>both. \A status \in {"running", "verifying", "waiting", "paused", run.status}, what \in {"none", "approval", "question", run.waitingOn} :
          [run EXCEPT !.status = status, !.waitingOn = what] \in RunRows
  BY <1>1 DEF RunRows
<1>rest. [run EXCEPT !.steer = TRUE] \in RunRows /\ \A s \in Workers : [run EXCEPT !.worker = s] \in RunRows
  BY <1>1 DEF RunRows
<1> USE <1>1
<1>4. \A r \in RunRows : Baseline(r) => run' \in RunRows
  BY <1>3 DEF Baseline
<1>5. \A status \in {"failed", "blocked", "budget_exhausted", "cancelled", "completed"} : End(status) => run' \in RunRows
  BY <1>3 DEF End
<1>6. CASE TakePrepare \/ TakeCarryOn
  BY <1>6, <1>4 DEF TakePrepare, TakeCarryOn, PrepareAgain
<1>7. CASE Prepared \/ Baselined
  BY <1>7, <1>2, <1>4, <1>5 DEF Prepared, Baselined
<1>8. CASE Start
  <2>1. run' = run \/ run' = [run EXCEPT !.status = "running", !.waitingOn = "none", !.steer = FALSE]
    BY <1>8 DEF Start, rowVars
  <2>2. [run EXCEPT !.status = "running", !.waitingOn = "none", !.steer = FALSE] \in RunRows
    BY DEF RunRows
  <2> QED
    BY <2>1, <2>2
<1>9. CASE Enqueue \/ Record
  BY <1>9, <1>5 DEF Enqueue, Record, rowVars
<1>10. CASE TakeSpawn \/ GiveBack \/ Replaced \/ Go \/ Sent
  BY <1>10, <1>5 DEF TakeSpawn, GiveBack, Replaced, Go, Sent, rowVars
<1>11. CASE Created
  <2>1. run' = run \/ \E s \in Workers : run' = [run EXCEPT !.worker = s]
    BY <1>11 DEF Created
  <2> QED
    BY <1>rest, <2>1
<1>12. CASE TakeSettled \/ LostStopped
  BY <1>12 DEF TakeSettled, LostStopped, rowVars
<1>13. CASE TakeWaiting \/ TakeMoved
  <2>1. \/ run' = run
        \/ run' = [run EXCEPT !.waitingOn = "approval", !.status = IF @ = "paused" THEN @ ELSE "waiting"]
        \/ run' = [run EXCEPT !.waitingOn = "none", !.status = IF @ = "waiting" THEN "running" ELSE @]
    BY <1>13 DEF TakeWaiting, TakeMoved, rowVars
  <2>2. [run EXCEPT !.waitingOn = "approval", !.status = IF @ = "paused" THEN @ ELSE "waiting"] \in RunRows
    BY DEF RunRows
  <2>3. [run EXCEPT !.waitingOn = "none", !.status = IF @ = "waiting" THEN "running" ELSE @] \in RunRows
    BY DEF RunRows
  <2> QED
    BY <2>1, <2>2, <2>3
<1>14. CASE TakeVerify \/ Verifying \/ Quiesced \/ Snapshot \/ Checked \/ TakeAfter \/ TakeRequeue
  BY <1>14 DEF TakeVerify, Verifying, Quiesced, Snapshot, Checked, TakeAfter, TakeRequeue, rowVars
<1>15. CASE Verify
  <2>1. run' = run \/ run' = [run EXCEPT !.status = "verifying", !.waitingOn = IF @ = "approval" THEN "none" ELSE @]
    BY <1>15 DEF Verify
  <2>2. [run EXCEPT !.status = "verifying", !.waitingOn = IF @ = "approval" THEN "none" ELSE @] \in RunRows
    BY DEF RunRows
  <2> QED
    BY <2>1, <2>2
<1>16. CASE After
  <2>1. CASE Over \/ run.status = "paused" \/ Cur # A
    BY <1>16, <2>1 DEF After
  <2>2. CASE Decide
    <3>1. \/ run' = run \/ End("blocked") \/ End("budget_exhausted")
          \/ run' = [run EXCEPT !.status = "waiting", !.waitingOn = "question"]
      BY <2>2 DEF Decide, Deliver
    <3> QED
      BY <1>5, <1>both, <3>1
  <2> QED
    BY <1>16, <2>1, <2>2 DEF After
<1>17. CASE Committed
  <2>1. At("commit") => pc[1] = "commit"
    BY DEF At
  <2>2. A \in Rows
    BY <1>17, <2>1, PlaceArgs DEF Committed, A, AtRow, TypeOK
  <2>3. [run EXCEPT !.accepted = A, !.delivered = att[A].tree] \in RunRows
    BY <2>2 DEF TypeOK, RunRows, AttemptRows
  <2> QED
    BY <1>17, <2>3, <1>3, <1>5 DEF Committed
<1>18. CASE TakeCancel \/ StopWork \/ Drained \/ Release
  BY <1>18, <1>3 DEF TakeCancel, StopWork, Drained, Release, rowVars
<1>19. CASE TakeAnswer
  <2>1. \/ run' = run \/ run' = [run EXCEPT !.steer = TRUE]
        \/ run' = [run EXCEPT !.status = "running", !.waitingOn = "none"]
    BY <1>19 DEF TakeAnswer
  <2> QED
    BY <1>both, <1>rest, <2>1
<1>20. CASE Cancel \/ Pause \/ Resume \/ Steer \/ StopDaemon \/ Exit \/ Boot
  <2>1. CASE Cancel \/ StopDaemon \/ Exit \/ Boot
    BY <2>1 DEF Cancel, StopDaemon, Exit, Boot, rowVars
  <2>2. CASE Pause \/ Resume \/ Steer
    <3>1. \/ run' = run \/ run' = [run EXCEPT !.steer = TRUE]
          \/ run' = [run EXCEPT !.status = "paused"] \/ run' = [run EXCEPT !.status = "waiting"]
          \/ run' = [run EXCEPT !.status = "running", !.waitingOn = "none"]
      BY <2>2 DEF Pause, Resume, Steer
    <3> QED
      BY <1>status, <1>both, <1>rest, <3>1
  <2> QED
    BY <1>20, <2>1, <2>2
<1>21. CASE \E a \in Rows : Claim(a) \/ TaskSettles(a) \/ Lapses(a) \/ DeadlineFires(a)
  BY <1>21 DEF Claim, TaskSettles, Lapses, DeadlineFires, rowVars
<1>22. CASE \E s \in Workers : WorkerWorks(s) \/ WorkerReports(s) \/ WorkerWaits(s) \/ WorkerApproved(s) \/ WorkerEnds(s)
  BY <1>22 DEF WorkerWorks, WorkerReports, WorkerWaits, WorkerApproved, WorkerEnds, rowVars
<1> QED
  BY <1>6, <1>7, <1>8, <1>9, <1>10, <1>11, <1>12, <1>13, <1>14, <1>15, <1>16, <1>17, <1>18, <1>19, <1>20, <1>21, <1>22
  DEF Next, Steps

LEMMA Finishes ==
  ASSUME TypeOK, NEW a \in Rows, NEW result \in Results \ {"none"}, FinishAttempt(a, result)
  PROVE  /\ att' \in [Rows -> AttemptRows] /\ \A b \in Rows \ {a} : att'[b] = att[b]
         /\ att'[a].status = "done" /\ att'[a].result = result
         /\ att'[a].started = att[a].started /\ att'[a].tree = att[a].tree /\ att'[a].steer = att[a].steer
         /\ att'[a].worker = att[a].worker /\ att'[a].report = att[a].report
<1>1. att \in [Rows -> AttemptRows]
  BY DEF TypeOK
<1>2. att[a] \in AttemptRows
  BY <1>1
<1>3. att' = [att EXCEPT ![a] = [att[a] EXCEPT !.status = "done", !.result = result, !.held = FALSE]]
  BY <1>1, <1>2 DEF FinishAttempt, AttemptRows
<1>4. [att[a] EXCEPT !.status = "done", !.result = result, !.held = FALSE] \in AttemptRows
  BY <1>2 DEF AttemptRows
<1> QED
  BY <1>1, <1>2, <1>3, <1>4 DEF AttemptRows

LEMMA JudgedRow ==
  ASSUME TypeOK, NEW a \in Rows, NEW result \in Results \ {"none"}, NEW t \in Trees \cup {NoTree}, Judged(a, result, t)
  PROVE  /\ att' \in [Rows -> AttemptRows] /\ \A b \in Rows \ {a} : att'[b] = att[b]
         /\ att'[a].status = "done" /\ att'[a].result = result /\ att'[a].tree = t
         /\ att'[a].started = att[a].started /\ att'[a].steer = att[a].steer
         /\ att'[a].worker = att[a].worker /\ att'[a].report = att[a].report
<1>1. att \in [Rows -> AttemptRows]
  BY DEF TypeOK
<1>2. att[a] \in AttemptRows
  BY <1>1
<1>3. att' = [att EXCEPT ![a] = [att[a] EXCEPT !.status = "done", !.result = result, !.tree = t, !.held = FALSE]]
  BY <1>1, <1>2 DEF Judged, AttemptRows
<1>4. [att[a] EXCEPT !.status = "done", !.result = result, !.tree = t, !.held = FALSE] \in AttemptRows
  BY <1>2 DEF AttemptRows
<1> QED
  BY <1>1, <1>2, <1>3, <1>4 DEF AttemptRows

LEMMA HeadFacts ==
  ASSUME TypeOK, NEW kind, Takes(kind)
  PROVE  /\ Head1 = chain[1] /\ Head1 \in Items /\ Head1[1] = kind /\ 1 \in Spots
         /\ pc = <<"idle">> /\ up /\ chain # <<>>
         /\ kind \in OfRow \cup {"settled"} => Head1[2] \in Rows
         /\ kind = "settled" => Head1[3] \in {"done", "failed", "reclaimed"}
         /\ ItemsInv => ItemInv(Head1)
<1>1. chain \in Seq(Items) /\ chain # <<>> /\ Head1[1] = kind /\ pc[1] = "idle" /\ up
  BY DEF Takes, At, TypeOK
<1>2. Len(chain) \in Nat \ {0}
  BY <1>1, EmptySeq
<1>3. Head1 = chain[1] /\ Head1 \in Items /\ 1 \in Spots
  BY <1>1, <1>2 DEF Head1, Spots
<1>4. pc = <<"idle">>
  BY <1>1, PlaceArgs DEF TypeOK
<1>5. ItemsInv => ItemInv(Head1)
  BY <1>3 DEF ItemsInv
<1> QED
  BY <1>1, <1>3, <1>4, <1>5, ItemArgs DEF OfRow

-----------------------------------------------------------------------------
(* What a step may do to the attempts: nothing, make the next one, or change   *)
(* one that is not done.                                                       *)

Others(a) == \A b \in Rows \ {a} : att'[b] = att[b]
Kept(a) == att'[a].steer = att[a].steer /\ (att[a].started => att'[a].started)
Same(a) == /\ Kept(a) /\ att'[a].started = att[a].started /\ att'[a].worker = att[a].worker
           /\ att'[a].tree = att[a].tree
Finished(a) ==
    /\ ~Done(a) /\ att[a].status # "none" /\ Same(a)
    /\ att'[a].status = "done" /\ att'[a].result \in {"stopped", "worker_failed"}
JudgedNow(a) ==
    /\ att[a].status = "verifying" /\ a = Cur
    /\ Kept(a) /\ att'[a].started = att[a].started /\ att'[a].worker = att[a].worker
    /\ att'[a].status = "done" /\ att'[a].result \notin {"none", "stopped", "worker_failed"}
    /\ att'[a].result = "verified" => att'[a].tree \in proven'
Noted(a) == att[a].status # "none" /\ Same(a) /\ att'[a].status = att[a].status /\ att'[a].result = att[a].result
Gone2Work(a) ==
    /\ Go /\ a = A /\ att[a].status = "queued" /\ Kept(a)
    /\ att'[a].status = "running" /\ att'[a].result = "none" /\ att'[a].started /\ att'[a].worker = run.worker
Verifies(a) ==
    /\ Verifying /\ a = A /\ att[a].status \in {"running", "verifying"} /\ Same(a)
    /\ att'[a].status = "verifying" /\ att'[a].result = "none"
NewRow(a) ==
    /\ Start /\ a = Cur + 1 /\ att[a].status = "none"
    /\ att'[a].status = "queued" /\ att'[a].result = "none" /\ ~att'[a].started /\ att'[a].worker = NoWorker
    /\ att'[a].steer = Carries(A, pc[3])
Changes(a) ==
    /\ Others(a)
    /\ NewRow(a) \/ Finished(a) \/ JudgedNow(a) \/ Noted(a) \/ Gone2Work(a) \/ Verifies(a)
RowsTyped == att \in [Rows -> AttemptRows] /\ \A a \in Rows : att[a].result # "none" <=> att[a].status = "done"

LEMMA RowsTypedByOne ==
  ASSUME TypeOK, NEW a \in Rows, att' \in [Rows -> AttemptRows], Others(a),
         att'[a].result # "none" <=> att'[a].status = "done"
  PROVE  RowsTyped'
<1> \A b \in Rows : att[b].result # "none" <=> att[b].status = "done"
  BY DEF TypeOK
<1> QED
  BY DEF RowsTyped, Others

LEMMA FinishesRow ==
  ASSUME TypeOK, NEW a \in Rows, NEW result \in {"stopped", "worker_failed"}, FinishAttempt(a, result),
         ~Done(a), att[a].status # "none"
  PROVE  RowsTyped' /\ Changes(a)
<1>1. result \in Results \ {"none"}
  BY DEF Results
<1> QED
  BY <1>1, Finishes, RowsTypedByOne DEF Changes, Finished, Same, Kept, Others

LEMMA NotesRow ==
  ASSUME TypeOK, NEW a \in Rows, NEW r, att' = [att EXCEPT ![a] = r], r \in AttemptRows, att[a].status # "none",
         r.status = att[a].status, r.result = att[a].result, r.started = att[a].started, r.tree = att[a].tree,
         r.steer = att[a].steer, r.worker = att[a].worker
  PROVE  RowsTyped' /\ Changes(a)
<1>1. att \in [Rows -> AttemptRows] /\ (att[a].result # "none" <=> att[a].status = "done")
  BY DEF TypeOK
<1>2. att' \in [Rows -> AttemptRows] /\ Others(a) /\ att'[a] = r
  BY <1>1 DEF Others
<1>3. RowsTyped'
  BY <1>1, <1>2, RowsTypedByOne
<1> QED
  BY <1>2, <1>3 DEF Changes, Noted, Same, Kept

LEMMA StartRow ==
  ASSUME TypeOK, RowsInv, Start
  PROVE  RowsTyped' /\ (att' = att \/ \E a \in Rows : Changes(a))
<1>1. att \in [Rows -> AttemptRows] /\ \A a \in Rows : att[a].result # "none" <=> att[a].status = "done"
  BY DEF TypeOK
<1>2. CASE att' = att
  BY <1>1, <1>2 DEF RowsTyped
<1>3. CASE att' # att
  <2> DEFINE a == Cur + 1
  <2> DEFINE r == [NoAttempt EXCEPT !.status = "queued", !.steer = Carries(A, pc[3])]
  <2>1. a \in Rows /\ att' = [att EXCEPT ![a] = r]
    BY <1>3 DEF Start, rowVars
  <2>2. pc[2] \in Rows \cup {0} /\ pc[3] \in BOOLEAN
    BY PlaceArgs DEF Start, At, TypeOK
  <2>3. Carries(A, pc[3]) \in BOOLEAN
    BY DEF Carries
  <2>4. r \in AttemptRows /\ r.status = "queued" /\ r.result = "none" /\ ~r.started /\ r.worker = NoWorker
        /\ r.steer = Carries(A, pc[3])
    BY <2>3 DEF NoAttempt, AttemptRows, Results
  <2>5. att' \in [Rows -> AttemptRows] /\ Others(a) /\ att'[a] = r
    BY <1>1, <2>1, <2>4 DEF Others
  <2>6. att[a].status = "none"
    <3>1. Cur \in Nat /\ (att[a].status # "none" <=> a <= Cur)
      BY RowFacts, <2>1
    <3> QED
      BY <3>1
  <2> HIDE DEF r
  <2>7. RowsTyped'
    BY <2>1, <2>4, <2>5, RowsTypedByOne
  <2>8. Changes(a)
    BY <2>4, <2>5, <2>6 DEF Changes, NewRow
  <2> QED
    BY <2>1, <2>7, <2>8
<1> QED
  BY <1>2, <1>3

LEMMA AttStep ==
  ASSUME TypeOK, RowsInv, ItemsInv, PlaceInv, Next
  PROVE  RowsTyped' /\ (att' = att \/ \E a \in Rows : Changes(a))
<1> DEFINE Goal == RowsTyped' /\ (att' = att \/ \E a \in Rows : Changes(a))
<1>1. att' = att => Goal
  BY DEF TypeOK, RowsTyped
<1>2. ASSUME NEW a \in Rows, NEW result \in {"stopped", "worker_failed"}, FinishAttempt(a, result),
             ~Done(a), att[a].status # "none"
      PROVE  Goal
  BY <1>2, FinishesRow
<1>3. ASSUME NEW a \in Rows, NEW r \in AttemptRows, att' = [att EXCEPT ![a] = r], att[a].status # "none",
             r.status = att[a].status, r.result = att[a].result, r.started = att[a].started, r.tree = att[a].tree,
             r.steer = att[a].steer, r.worker = att[a].worker
      PROVE  Goal
  BY <1>3, NotesRow
<1>4. att \in [Rows -> AttemptRows] /\ pc \in Places
  BY DEF TypeOK
<1>5. /\ Cur # 0 => Cur \in Rows /\ att[Cur].status \in {"queued", "running", "verifying", "done"}
      /\ CurStatus # "none" => Cur # 0 /\ att[Cur].status = CurStatus
  BY RowFacts DEF CurStatus
<1>6. \A place \in AtRow \cup AtWorker \cup {"checks"} : At(place) => A \in Rows
  BY <1>4, PlaceArgs DEF At, A
<1>7. \A place \in {"enqueue", "record", "giveBack", "replace", "create", "go"} :
          At(place) => A = Cur /\ att[A].status = "queued" /\ A \in Rows
  BY <1>5, <1>6 DEF At, A, PlaceInv, AtRow, AtWorker
<1>8. \A place \in {"snapshot", "checks"} : At(place) => A = Cur /\ att[A].status = "verifying" /\ A \in Rows
  BY <1>5, <1>6 DEF At, A, PlaceInv, AtRow
<1>9. CASE Start
  BY <1>9, StartRow
<1>10. CASE Enqueue \/ GiveBack
  <2>1. CASE att' = att
    BY <2>1, <1>1
  <2>2. A \in Rows /\ ~Done(A) /\ att[A].status # "none"
    BY <1>7, <1>10 DEF Enqueue, GiveBack, Done
  <2>3. att' = att \/ FinishAttempt(A, "worker_failed") \/ FinishAttempt(A, "stopped")
    BY <1>10 DEF Enqueue, GiveBack, rowVars
  <2> QED
    BY <2>1, <2>2, <2>3, <1>2
<1>11. CASE Record
  <2>1. A \in Rows /\ att[A].status # "none"
    BY <1>7, <1>11 DEF Record
  <2>2. att[A] \in AttemptRows
    BY <1>4, <2>1
  <2> DEFINE r == [att[A] EXCEPT !.task = TRUE]
  <2>3. att' = [att EXCEPT ![A] = r]
    BY <1>11 DEF Record
  <2> QED
    BY <2>1, <2>2, <2>3, <1>3 DEF AttemptRows
<1>12. CASE TakeSpawn
  <2> DEFINE a == Head1[2]
  <2>1. a \in Rows
    BY <1>12, HeadFacts DEF TakeSpawn, OfRow
  <2>2. att' = att \/ (Startable(a) /\ FinishAttempt(a, "stopped"))
    BY <1>12 DEF TakeSpawn, rowVars
  <2> QED
    BY <2>1, <2>2, <1>1, <1>2 DEF Startable, Done
<1>13. CASE Go
  <2>1. A \in Rows /\ att[A].status = "queued"
    BY <1>7, <1>13 DEF Go
  <2>2. pc[3] \in Workers /\ pc[3] = run.worker
    BY <1>4, <1>13, PlaceArgs DEF Go, At, PlaceInv, AtWorker
  <2>3. att[A] \in AttemptRows /\ att[A].result = "none"
    BY <1>4, <2>1 DEF TypeOK
  <2> DEFINE r == [att[A] EXCEPT !.status = "running", !.started = TRUE, !.worker = pc[3]]
  <2>4. att' = [att EXCEPT ![A] = r]
    BY <1>13, <2>3 DEF Go, AttemptRows
  <2>5. r \in AttemptRows /\ r.status = "running" /\ r.started /\ r.worker = run.worker
        /\ r.result = "none" /\ r.steer = att[A].steer
    BY <2>2, <2>3 DEF AttemptRows
  <2> HIDE DEF r
  <2>6. att' \in [Rows -> AttemptRows] /\ Others(A) /\ att'[A] = r
    BY <1>4, <2>1, <2>4, <2>5 DEF Others
  <2>7. Changes(A)
    BY <1>13, <2>1, <2>5, <2>6 DEF Changes, Gone2Work, Kept
  <2> QED
    BY <2>1, <2>5, <2>6, <2>7, RowsTypedByOne
<1>14. CASE TakeSettled
  <2> DEFINE a == Head1[2]
  <2>1. a \in Rows /\ att[a].status # "none"
    BY <1>14, HeadFacts DEF TakeSettled, ItemInv, ItemOf
  <2>2. att' = att \/ (~IsSettled(a) /\ (FinishAttempt(a, "stopped") \/ FinishAttempt(a, "worker_failed")))
    BY <1>14 DEF TakeSettled
  <2> QED
    BY <2>1, <2>2, <1>1, <1>2 DEF IsSettled, Done
<1>15. CASE TakeWaiting
  <2> DEFINE a == Head1[2]
  <2> DEFINE r == [att[a] EXCEPT !.held = TRUE]
  <2>1. a \in Rows /\ att[a].status # "none"
    BY <1>15, HeadFacts DEF TakeWaiting, ItemInv, ItemOf, OfRow
  <2>2. att' = att \/ att' = [att EXCEPT ![a] = r]
    BY <1>15 DEF TakeWaiting, rowVars
  <2>3. att[a] \in AttemptRows
    BY <1>4, <2>1
  <2> QED
    BY <2>1, <2>2, <2>3, <1>1, <1>3 DEF AttemptRows
<1>16. CASE TakeMoved
  <2> DEFINE r == [att[Cur] EXCEPT !.held = FALSE]
  <2>1. att' = att \/ (CurStatus = "running" /\ att' = [att EXCEPT ![Cur] = r])
    BY <1>16 DEF TakeMoved, rowVars
  <2>2. CurStatus = "running" => Cur \in Rows /\ att[Cur] \in AttemptRows /\ att[Cur].status # "none"
    BY <1>4, <1>5
  <2> QED
    BY <2>1, <2>2, <1>1, <1>3 DEF AttemptRows
<1>17. CASE Verifying
  <2>1. A \in Rows /\ A = Cur /\ att[A].started /\ ~Done(A)
    BY <1>6, <1>17 DEF Verifying, At, A, PlaceInv, AtRow
  <2>2. att[A].status \in {"running", "verifying"}
    <3>1. att[A].status # "queued"
      BY <2>1 DEF RowsInv, RowInv
    <3>2. Cur # 0
      BY <2>1 DEF Rows
    <3> QED
      BY <3>1, <3>2, <2>1, <1>5 DEF Done
  <2>3. att[A] \in AttemptRows /\ att[A].result = "none"
    BY <1>4, <2>1 DEF TypeOK, Done
  <2> DEFINE r == [att[A] EXCEPT !.status = "verifying", !.held = FALSE]
  <2>4. att' = [att EXCEPT ![A] = r]
    BY <1>17, <2>3 DEF Verifying, AttemptRows
  <2>5. r \in AttemptRows /\ r.status = "verifying" /\ r.started = att[A].started /\ r.worker = att[A].worker
        /\ r.result = "none" /\ r.steer = att[A].steer /\ r.tree = att[A].tree
    BY <2>3 DEF AttemptRows
  <2> HIDE DEF r
  <2>6. att' \in [Rows -> AttemptRows] /\ Others(A) /\ att'[A] = r
    BY <1>4, <2>1, <2>4, <2>5 DEF Others
  <2>7. Changes(A)
    BY <1>17, <2>2, <2>5, <2>6 DEF Changes, Verifies, Same, Kept
  <2> QED
    BY <2>1, <2>5, <2>6, <2>7, RowsTypedByOne
<1>18. CASE Snapshot \/ Checked
  <2>1. CASE att' = att
    BY <2>1, <1>1
  <2>2. A \in Rows /\ A = Cur /\ att[A].status = "verifying"
    BY <1>8, <1>18 DEF Snapshot, Checked
  <2>3. \A result \in Results \ {"none", "stopped", "worker_failed"}, t \in Trees \cup {NoTree} :
           Judged(A, result, t) /\ (result = "verified" => t \in proven') => Goal
    <3> SUFFICES ASSUME NEW result \in Results \ {"none", "stopped", "worker_failed"}, NEW t \in Trees \cup {NoTree},
                        Judged(A, result, t), result = "verified" => t \in proven'
                 PROVE  Goal
      OBVIOUS
    <3>1. /\ att' \in [Rows -> AttemptRows] /\ \A b \in Rows \ {A} : att'[b] = att[b]
          /\ att'[A].status = "done" /\ att'[A].result = result /\ att'[A].tree = t
          /\ att'[A].started = att[A].started /\ att'[A].steer = att[A].steer
          /\ att'[A].worker = att[A].worker
      BY <2>2, JudgedRow
    <3>2. RowsTyped'
      BY <2>2, <3>1, RowsTypedByOne DEF Others
    <3>3. Changes(A)
      BY <2>2, <3>1 DEF Changes, Others, JudgedNow, Kept
    <3> QED
      BY <2>2, <3>2, <3>3
  <2>4. CASE Snapshot
    <3>1. Unchecked(A) \in {"needs_input", "unverified"} /\ tree \in Trees
      BY DEF Unchecked, TypeOK
    <3>2. att' = att \/ Judged(A, Unchecked(A), NoTree) \/ Judged(A, Unchecked(A), tree)
      BY <2>4 DEF Snapshot
    <3>3. Unchecked(A) \in Results \ {"none", "stopped", "worker_failed"} /\ Unchecked(A) # "verified"
      BY <3>1 DEF Results
    <3> QED
      BY <2>1, <2>3, <3>1, <3>2, <3>3
  <2>5. CASE Checked
    <3>1. Judge(A) \in {"timed_out", "cannot_satisfy", "unverified"}
      BY DEF Judge
    <3>2. pc[3] \in Trees
      BY <2>5, <1>4, PlaceArgs DEF Checked, At
    <3>3. att' = att \/ (Judged(A, "verified", pc[3]) /\ pc[3] \in proven') \/ Judged(A, Judge(A), pc[3])
      BY <2>5 DEF Checked
    <3>4. /\ Judge(A) \in Results \ {"none", "stopped", "worker_failed"} /\ Judge(A) # "verified"
          /\ "verified" \in Results \ {"none", "stopped", "worker_failed"}
      BY <3>1 DEF Results
    <3> QED
      BY <2>1, <2>3, <3>2, <3>3, <3>4
  <2> QED
    BY <1>18, <2>4, <2>5
<1>19. CASE StopWork
  <2>1. att' = att \/ (CurStatus \notin {"none", "done"} /\ FinishAttempt(Cur, "stopped"))
    BY <1>19 DEF StopWork
  <2> QED
    BY <2>1, <1>1, <1>2, <1>5 DEF Done
<1>20. CASE \E s \in Workers : WorkerReports(s)
  <2>1. PICK s \in Workers : WorkerReports(s)
    BY <1>20
  <2>2. Cur \in Rows /\ att[Cur] \in AttemptRows /\ att[Cur].status # "none"
    BY <2>1, <1>4, <1>5 DEF WorkerReports
  <2>3. PICK report \in {"ask", "conflict"} : att' = [att EXCEPT ![Cur].report = report]
    BY <2>1 DEF WorkerReports
  <2> DEFINE r == [att[Cur] EXCEPT !.report = report]
  <2> QED
    BY <2>2, <2>3, <1>3 DEF AttemptRows
<1>21. CASE Boot
  <2>1. CASE Over \/ Cur = 0
    BY <1>21, <2>1, <1>1 DEF Boot
  <2>2. CASE ~(Over \/ Cur = 0) /\ NeverQueued
    <3>1. Cur \in Rows /\ att[Cur] \in AttemptRows /\ att[Cur].status = "queued"
      BY <2>2, <1>4, <1>5 DEF NeverQueued
    <3> DEFINE r == [att[Cur] EXCEPT !.status = "done", !.result = "stopped"]
    <3>2. att' = [att EXCEPT ![Cur] = r]
      BY <1>21, <2>2, <3>1 DEF Boot, AttemptRows
    <3>3. r \in AttemptRows /\ r.status = "done" /\ r.result = "stopped" /\ r.started = att[Cur].started
          /\ r.worker = att[Cur].worker /\ r.steer = att[Cur].steer /\ r.tree = att[Cur].tree
      BY <3>1 DEF AttemptRows, Results
    <3> HIDE DEF r
    <3>4. att' \in [Rows -> AttemptRows] /\ Others(Cur) /\ att'[Cur] = r
      BY <1>4, <3>1, <3>2, <3>3 DEF Others
    <3>5. Changes(Cur)
      BY <3>1, <3>3, <3>4 DEF Changes, Finished, Same, Kept, Done
    <3> QED
      BY <3>1, <3>3, <3>4, <3>5, RowsTypedByOne
  <2>3. CASE ~(Over \/ Cur = 0) /\ ~NeverQueued
    <3>1. Cur \in Rows /\ att[Cur] \in AttemptRows /\ att[Cur].status # "none"
      BY <2>3, <1>4, <1>5
    <3> DEFINE r == [att[Cur] EXCEPT !.held = FALSE]
    <3>2. att' = [att EXCEPT ![Cur] = r]
      BY <1>21, <2>3 DEF Boot
    <3> QED
      BY <3>1, <3>2, <1>3 DEF AttemptRows
  <2> QED
    BY <2>1, <2>2, <2>3
<1>22. CASE TakePrepare \/ Prepared \/ Baselined \/ TakeCarryOn
  BY <1>22, <1>1 DEF TakePrepare, Prepared, Baselined, TakeCarryOn
<1>23. CASE Replaced \/ Created \/ Sent \/ LostStopped
  BY <1>23, <1>1 DEF Replaced, Created, Sent, LostStopped, rowVars
<1>24. CASE TakeVerify \/ Verify \/ Quiesced \/ TakeAfter \/ TakeRequeue \/ After \/ Committed \/ Release
  BY <1>24, <1>1 DEF TakeVerify, Verify, Quiesced, TakeAfter, TakeRequeue, After, Committed, Release, rowVars
<1>25. CASE TakeCancel \/ Drained \/ TakeAnswer
  BY <1>25, <1>1 DEF TakeCancel, Drained, TakeAnswer, rowVars
<1>26. CASE Cancel \/ Pause \/ Resume \/ Steer \/ StopDaemon \/ Exit
  BY <1>26, <1>1 DEF Cancel, Pause, Resume, Steer, StopDaemon, Exit, rowVars
<1>27. CASE \E a \in Rows : Claim(a) \/ TaskSettles(a) \/ Lapses(a) \/ DeadlineFires(a)
  BY <1>27, <1>1 DEF Claim, TaskSettles, Lapses, DeadlineFires, rowVars
<1>28. CASE \E s \in Workers : WorkerWorks(s) \/ WorkerWaits(s) \/ WorkerApproved(s) \/ WorkerEnds(s)
  BY <1>28, <1>1 DEF WorkerWorks, WorkerWaits, WorkerApproved, WorkerEnds, rowVars
<1> QED
  BY <1>9, <1>10, <1>11, <1>12, <1>13, <1>14, <1>15, <1>16, <1>17, <1>18, <1>19, <1>20, <1>21, <1>22, <1>23,
     <1>24, <1>25, <1>26, <1>27, <1>28 DEF Next, Steps

-----------------------------------------------------------------------------
(* The dispatcher's tasks and the clock follow attempts that were made, and    *)
(* started.                                                                    *)

TaskStatus == Open \cup {"none", "over"}
LEMMA EndsTask ==
  ASSUME task \in [Rows -> TaskStatus], NEW a, TaskEnds(a)
  PROVE  task' \in [Rows -> TaskStatus] /\ \A b \in Rows : task'[b] = task[b] \/ (task[b] # "none" /\ task'[b] = "over")
BY DEF TaskEnds, TaskStatus, Open

LEMMA TaskStep ==
  ASSUME TypeOK, RowsInv, PlaceInv, Next
  PROVE  /\ task' \in [Rows -> TaskStatus]
         /\ \A a \in Rows : /\ task'[a] # "none" => task[a] # "none" \/ att[a].status # "none"
                            /\ task'[a] \in {"running", "held"} => task[a] \in {"running", "held"} \/ att[a].started
<1>1. task \in [Rows -> TaskStatus]
  BY DEF TypeOK, TaskStatus
<1>2. \A s \in {"queued", "claimed", "running", "held", "none", "over"} : s \in TaskStatus
  BY DEF TaskStatus, Open
<1>3. task' = task => task' \in [Rows -> TaskStatus]
  BY <1>1
<1>4. ASSUME NEW a, TaskEnds(a)
      PROVE  /\ task' \in [Rows -> TaskStatus]
             /\ \A b \in Rows : /\ task'[b] # "none" => task[b] # "none"
                                /\ task'[b] \in {"running", "held"} => task[b] \in {"running", "held"}
  BY <1>1, <1>4, EndsTask
<1>5. \A a \in Rows : att[a].status = "running" => att[a].started
  BY DEF RowsInv, RowInv
<1>6. CurStatus = "running" => Cur \in Rows /\ att[Cur].status = "running"
  BY RowFacts DEF CurStatus
<1>7. CASE Enqueue
  <2>1. A = Cur /\ CurStatus = "queued"
    BY <1>7 DEF Enqueue, At, A, PlaceInv
  <2>2. A \in Rows /\ att[A].status = "queued"
    BY <2>1, RowFacts DEF CurStatus
  <2>3. task' = task \/ task' = [task EXCEPT ![A] = "queued"]
    BY <1>7 DEF Enqueue
  <2> QED
    BY <1>1, <1>2, <2>2, <2>3
<1>8. CASE \E a \in Rows : Claim(a) \/ TaskSettles(a) \/ Lapses(a)
  BY <1>1, <1>2, <1>8 DEF Claim, TaskSettles, Lapses
<1>9. CASE \E a \in Rows : DeadlineFires(a)
  BY <1>3, <1>4, <1>9 DEF DeadlineFires
<1>10. CASE TakeSpawn
  BY <1>3, <1>4, <1>10 DEF TakeSpawn, Throws
<1>11. CASE Created
  BY <1>3, <1>4, <1>11 DEF Created, Throws
<1>12. CASE Sent
  <2>1. CASE Throws(A, chain)
    BY <1>4, <2>1 DEF Throws
  <2>2. CASE task' = [task EXCEPT ![A] = IF @ = "claimed" THEN "running" ELSE @]
    <3>1. A \in Rows /\ att[A].started
      BY <1>5, <1>6, <1>12 DEF Sent, At, A, PlaceInv
    <3> QED
      BY <1>1, <1>2, <2>2, <3>1
  <2> QED
    BY <1>12, <2>1, <2>2 DEF Sent
<1>13. CASE TakeWaiting
  <2>1. Head1[2] \in Rows
    BY <1>13, HeadFacts DEF TakeWaiting, OfRow
  <2> QED
    BY <1>1, <1>2, <1>5, <1>13, <2>1 DEF TakeWaiting
<1>14. CASE TakeMoved
  <2>1. task' = task \/ (task[Cur] = "held" /\ (task' = [task EXCEPT ![Cur] = "over"] \/ task' = [task EXCEPT ![Cur] = "running"]))
    BY <1>14 DEF TakeMoved, Unheld
  <2> QED
    BY <1>1, <1>2, <2>1
<1>15. CASE StopWork
  BY <1>3, <1>4, <1>15 DEF StopWork, Throws
<1>16. CASE Boot
  BY <1>1, <1>2, <1>16 DEF Boot
<1>17. CASE TakePrepare \/ Prepared \/ Baselined \/ TakeCarryOn \/ Start \/ Record
  BY <1>3, <1>17 DEF TakePrepare, Prepared, Baselined, TakeCarryOn, Start, Record
<1>18. CASE GiveBack \/ Replaced \/ Go \/ TakeSettled \/ LostStopped
  BY <1>3, <1>18 DEF GiveBack, Replaced, Go, TakeSettled, LostStopped
<1>19. CASE TakeVerify \/ Verify \/ Verifying \/ Quiesced \/ Snapshot \/ Checked
  BY <1>3, <1>19 DEF TakeVerify, Verify, Verifying, Quiesced, Snapshot, Checked
<1>20. CASE TakeAfter \/ TakeRequeue \/ After \/ Committed \/ Release \/ TakeCancel \/ Drained \/ TakeAnswer
  BY <1>3, <1>20 DEF TakeAfter, TakeRequeue, After, Committed, Release, TakeCancel, Drained, TakeAnswer
<1>21. CASE Cancel \/ Pause \/ Resume \/ Steer \/ StopDaemon \/ Exit
  BY <1>3, <1>21 DEF Cancel, Pause, Resume, Steer, StopDaemon, Exit
<1>22. CASE \E s \in Workers : WorkerWorks(s) \/ WorkerReports(s) \/ WorkerWaits(s) \/ WorkerApproved(s) \/ WorkerEnds(s)
  BY <1>3, <1>22 DEF WorkerWorks, WorkerReports, WorkerWaits, WorkerApproved, WorkerEnds
<1> QED
  BY <1>7, <1>8, <1>9, <1>10, <1>11, <1>12, <1>13, <1>14, <1>15, <1>16, <1>17, <1>18, <1>19, <1>20, <1>21, <1>22
  DEF Next, Steps

ClockStatus == {"none", "armed", "fired", "paused"}
LEMMA ClockStep ==
  ASSUME TypeOK, RowsInv, PlaceInv, Next
  PROVE  /\ deadline' \in [Rows -> ClockStatus] /\ timedOut' \subseteq Rows
         /\ \A a \in Rows : deadline'[a] # "none" \/ a \in timedOut' =>
               deadline[a] # "none" \/ a \in timedOut \/ att[a].started \/ att'[a].started
<1> DEFINE Goal == /\ deadline' \in [Rows -> ClockStatus] /\ timedOut' \subseteq Rows
                   /\ \A a \in Rows : deadline'[a] # "none" \/ a \in timedOut' =>
                         deadline[a] # "none" \/ a \in timedOut \/ att[a].started \/ att'[a].started
<1>1. deadline \in [Rows -> ClockStatus] /\ timedOut \subseteq Rows
      /\ \A s \in {"none", "armed", "fired", "paused"} : s \in ClockStatus
  BY DEF TypeOK, ClockStatus
<1>2. deadline' = deadline /\ timedOut' = timedOut => Goal
  BY <1>1
<1>3. \A a : (deadline' = deadline \/ Cleared(a)) /\ (timedOut' = timedOut \/ Ended(a)) => Goal
  BY <1>1 DEF Cleared, Ended
<1>4. CurStatus = "running" => Cur \in Rows /\ att[Cur].started
  BY RowFacts DEF CurStatus, RowsInv, RowInv
<1>5. CASE Go
  <2>1. A \in Rows
    BY <1>5, PlaceArgs DEF TypeOK, Go, At, A, AtWorker
  <2>2. att'[A].started
    <3>1. att[A] \in AttemptRows
      BY <2>1 DEF TypeOK
    <3> QED
      BY <1>5, <2>1, <3>1 DEF Go, TypeOK, AttemptRows
  <2> QED
    BY <1>1, <1>5, <2>1, <2>2 DEF Go
<1>6. CASE TakeSettled
  <2>1. (deadline' = deadline \/ Cleared(Head1[2])) /\ (timedOut' = timedOut \/ Ended(Head1[2]))
    BY <1>6 DEF TakeSettled
  <2> QED
    BY <2>1, <1>3
<1>7. CASE TakeWaiting
  BY <1>1, <1>7 DEF TakeWaiting
<1>8. CASE TakeMoved
  BY <1>1, <1>8 DEF TakeMoved, ClockGoesOn
<1>9. CASE Snapshot \/ Checked
  BY <1>3, <1>9 DEF Snapshot, Checked, Judged
<1>10. CASE StopWork
  BY <1>3, <1>10 DEF StopWork
<1>11. CASE \E a \in Rows : DeadlineFires(a)
  BY <1>1, <1>11 DEF DeadlineFires
<1>12. CASE StopDaemon \/ Exit
  BY <1>1, <1>12 DEF StopDaemon, Exit
<1>13. CASE Boot
  BY <1>1, <1>4, <1>13 DEF Boot, Rearmed
<1>14. CASE TakePrepare \/ Prepared \/ Baselined \/ TakeCarryOn \/ Start \/ Enqueue \/ Record
  BY <1>2, <1>14 DEF TakePrepare, Prepared, Baselined, TakeCarryOn, Start, Enqueue, Record, timeVars
<1>15. CASE TakeSpawn \/ GiveBack \/ Replaced \/ Created \/ Sent \/ LostStopped
  BY <1>2, <1>15 DEF TakeSpawn, GiveBack, Replaced, Created, Sent, LostStopped, timeVars
<1>16. CASE TakeVerify \/ Verify \/ Verifying \/ Quiesced
  BY <1>2, <1>16 DEF TakeVerify, Verify, Verifying, Quiesced, timeVars
<1>17. CASE TakeAfter \/ TakeRequeue \/ After \/ Committed \/ Release \/ TakeCancel \/ Drained \/ TakeAnswer
  BY <1>2, <1>17 DEF TakeAfter, TakeRequeue, After, Committed, Release, TakeCancel, Drained, TakeAnswer, timeVars
<1>18. CASE Cancel \/ Pause \/ Resume \/ Steer
  BY <1>2, <1>18 DEF Cancel, Pause, Resume, Steer, timeVars
<1>19. CASE \E a \in Rows : Claim(a) \/ TaskSettles(a) \/ Lapses(a)
  BY <1>2, <1>19 DEF Claim, TaskSettles, Lapses, timeVars
<1>20. CASE \E s \in Workers : WorkerWorks(s) \/ WorkerReports(s) \/ WorkerWaits(s) \/ WorkerApproved(s) \/ WorkerEnds(s)
  BY <1>2, <1>20 DEF WorkerWorks, WorkerReports, WorkerWaits, WorkerApproved, WorkerEnds, timeVars
<1> QED
  BY <1>5, <1>6, <1>7, <1>8, <1>9, <1>10, <1>11, <1>12, <1>13, <1>14, <1>15, <1>16, <1>17, <1>18, <1>19, <1>20
  DEF Next, Steps

-----------------------------------------------------------------------------
(* What a step may do to the run: once over it stays as it is, and ends only   *)
(* on the way to giving its worker back.                                       *)

Begins == Start /\ ~Over /\ run'.worker = run.worker /\ run'.status = "running"
RunMoves ==
    /\ run'.worker = run.worker \/ Created
    /\ run'.status = "verifying" => run.status = "verifying" \/ (Verify /\ Cur = A)
    /\ Over => run'.status = run.status /\ run'.accepted = run.accepted /\ run'.delivered = run.delivered
    /\ ~Over /\ run'.status \in Terminal => pc' = <<"release", FALSE>> \/ (TakeCancel /\ pc' = <<"stopWork">>)
    /\ ~Over /\ run'.status = "completed" => Committed /\ run'.accepted = A /\ run'.delivered = att[A].tree
    /\ run.steer => run'.steer \/ (Start /\ att' # att)
    /\ said' => said \/ run'.steer

LEMMA RunStays == ASSUME TypeOK, run' = run, said' = said PROVE RunMoves
BY DEF RunMoves, Over, TypeOK, RunRows

LEMMA RunEnding ==
  ASSUME TypeOK, NEW r \in RunRows, NEW status \in {"failed", "blocked", "budget_exhausted", "cancelled"}, ~Over, said' = said,
         r.worker = run.worker, r.steer = run.steer, Ends(r, status), pc' = <<"release", FALSE>>
  PROVE  RunMoves
<1>1. run' = [r EXCEPT !.status = status, !.waitingOn = "none"]
  BY DEF Ends
<1>2. run'.status = status /\ run'.worker = run.worker /\ run'.steer = run.steer
  BY <1>1 DEF RunRows
<1> QED
  BY <1>2 DEF RunMoves

\* Steps that keep the run going: only these fields matter.
LEMMA RunGoesOn ==
  ASSUME TypeOK, NEW r \in RunRows, run' = r, ~Over, said' = said \/ r.steer, r.worker = run.worker,
         r.status = run.status \/ r.status \in {"running", "waiting", "paused"}, run.steer => r.steer
  PROVE  RunMoves
<1>1. r.status \notin Terminal /\ "completed" \in Terminal
  BY DEF Over, Terminal
<1>2. said' => said \/ run'.steer
  OBVIOUS
<1>3. run.steer => run'.steer
  OBVIOUS
<1> QED
  BY <1>1, <1>2, <1>3 DEF RunMoves

LEMMA RunStep ==
  ASSUME TypeOK, RowsInv, PlaceInv, Next
  PROVE  RunMoves
<1>1. run \in RunRows
  BY DEF TypeOK
<1>2. run' = run /\ said' = said => RunMoves
  BY RunStays
<1>3. \A status \in {"failed", "blocked", "budget_exhausted", "cancelled"} :
          End(status) /\ ~Over /\ said' = said => RunMoves
  BY <1>1, RunEnding DEF End, Goes
<1>4. \A place : At(place) /\ place \notin Ending \cup Unguarded => ~Over
  BY DEF At, PlaceInv
<1>5. ASSUME NEW r \in RunRows, run' = r, ~Over, said' = said \/ r.steer, r.worker = run.worker,
             r.status = run.status \/ r.status \in {"running", "waiting", "paused"}, run.steer => r.steer
      PROVE  RunMoves
  BY <1>5, RunGoesOn
<1>6. \A r \in RunRows : Baseline(r) /\ ~Over /\ said' = said /\ r.worker = run.worker /\ r.steer = run.steer
                         /\ r.status = run.status => RunMoves
  BY <1>5, RunEnding DEF Baseline, Goes
<1>7. PrepareAgain /\ said' = said => RunMoves
  BY <1>1, <1>2, <1>6 DEF PrepareAgain
<1>8. CASE TakePrepare \/ TakeCarryOn
  BY <1>2, <1>7, <1>8 DEF TakePrepare, TakeCarryOn, histVars
<1>9. CASE Prepared
  <2> DEFINE made == [run EXCEPT !.prepared = TRUE]
  <2>1. made \in RunRows /\ made.worker = run.worker /\ made.steer = run.steer /\ made.status = run.status
    BY <1>1 DEF RunRows
  <2>2. ~Over /\ said' = said
    BY <1>4, <1>9 DEF Prepared, Ending, Unguarded, histVars
  <2>3. run' = made \/ run' = run \/ Baseline(made) \/ End("failed")
    BY <1>9 DEF Prepared
  <2> HIDE DEF made
  <2> QED
    BY <2>1, <2>2, <2>3, <1>2, <1>3, <1>5, <1>6
<1>10. CASE Baselined \/ Enqueue
  <2>1. ~Over /\ said' = said
    BY <1>4, <1>10 DEF Baselined, Enqueue, Ending, Unguarded, histVars
  <2>2. run' = run \/ End("blocked") \/ End("failed")
    BY <1>10 DEF Baselined, Enqueue, rowVars
  <2> QED
    BY <2>1, <2>2, <1>2, <1>3
<1>11. CASE Start
  <2>1. said' = said
    BY <1>11 DEF Start, histVars
  <2>2. CASE stopped \/ cancelling \/ Over \/ run.status = "paused"
    BY <1>2, <1>11, <2>1, <2>2 DEF Start, rowVars
  <2>3. CASE ~(stopped \/ cancelling \/ Over \/ run.status = "paused")
    <3> DEFINE a == Cur + 1
    <3>1. /\ a \in Rows /\ att' = [att EXCEPT ![a] = [NoAttempt EXCEPT !.status = "queued", !.steer = Carries(A, pc[3])]]
          /\ run' = [run EXCEPT !.status = "running", !.waitingOn = "none", !.steer = FALSE]
      BY <1>11, <2>3 DEF Start
    <3>2. att'[a].status = "queued"
      BY <3>1 DEF NoAttempt, TypeOK
    <3>3. att[a].status = "none"
      <4>1. Cur \in Nat /\ (att[a].status # "none" <=> a <= Cur)
        BY RowFacts, <3>1
      <4> QED
        BY <4>1
    <3>4. run'.worker = run.worker /\ run'.status = "running"
      BY <1>1, <3>1 DEF RunRows
    <3> QED
      BY <1>11, <2>1, <2>3, <3>2, <3>3, <3>4 DEF RunMoves, Terminal
  <2> QED
    BY <2>2, <2>3
<1>12. CASE TakeSpawn
  <2>1. run' = run \/ (Startable(Head1[2]) /\ End("budget_exhausted"))
    BY <1>12 DEF TakeSpawn, rowVars
  <2> QED
    BY <1>2, <1>3, <1>12, <2>1 DEF Startable, TakeSpawn, histVars
<1>13. CASE Created
  <2>1. run' = run \/ \E s \in Workers : run' = [run EXCEPT !.worker = s]
    BY <1>13 DEF Created
  <2>2. run'.status = run.status /\ run'.steer = run.steer /\ run'.accepted = run.accepted /\ run'.delivered = run.delivered
    BY <2>1, <1>1 DEF RunRows
  <2>3. said' = said /\ (Over => Over')
    BY <1>13, <2>2 DEF Created, histVars, Over
  <2>4. run.steer => run'.steer
    BY <2>2
  <2>5. ~Over => run'.status \notin Terminal /\ "completed" \in Terminal
    BY <2>2 DEF Over, Terminal
  <2> QED
    BY <1>13, <2>2, <2>3, <2>4, <2>5 DEF RunMoves
<1>14. CASE TakeWaiting
  <2>1. run' = run \/ (~Over /\ run' = [run EXCEPT !.waitingOn = "approval", !.status = IF @ = "paused" THEN @ ELSE "waiting"])
    BY <1>14 DEF TakeWaiting, rowVars
  <2>2. said' = said
    BY <1>14 DEF TakeWaiting, histVars
  <2> DEFINE r == [run EXCEPT !.waitingOn = "approval", !.status = IF @ = "paused" THEN @ ELSE "waiting"]
  <2>3. r \in RunRows /\ r.worker = run.worker /\ r.steer = run.steer /\ r.status \in {"waiting", "paused"}
    BY <1>1 DEF RunRows
  <2> HIDE DEF r
  <2> QED
    BY <2>1, <2>2, <2>3, <1>2, <1>5 DEF r
<1>15. CASE TakeMoved
  <2> DEFINE r == [run EXCEPT !.waitingOn = "none", !.status = IF @ = "waiting" THEN "running" ELSE @]
  <2>1. run' = run \/ run' = r
    BY <1>15 DEF TakeMoved, rowVars
  <2>2. said' = said
    BY <1>15 DEF TakeMoved, histVars
  <2>3. /\ r \in RunRows /\ r.worker = run.worker /\ r.steer = run.steer /\ r.accepted = run.accepted /\ r.delivered = run.delivered
        /\ r.status = run.status \/ (run.status = "waiting" /\ r.status = "running")
    BY <1>1 DEF RunRows
  <2> HIDE DEF r
  <2> QED
    BY <2>1, <2>2, <2>3, <1>2 DEF RunMoves, Over, Terminal
<1>16. CASE Verify
  <2>1. run' = run \/ (~Over /\ Cur = A /\ run' = [run EXCEPT !.status = "verifying", !.waitingOn = IF @ = "approval" THEN "none" ELSE @])
    BY <1>16 DEF Verify
  <2>2. said' = said
    BY <1>16 DEF Verify, histVars
  <2> DEFINE r == [run EXCEPT !.status = "verifying", !.waitingOn = IF @ = "approval" THEN "none" ELSE @]
  <2>3. r.worker = run.worker /\ r.steer = run.steer /\ r.status = "verifying"
    BY <1>1 DEF RunRows
  <2> HIDE DEF r
  <2> QED
    BY <1>16, <2>1, <2>2, <2>3, <1>2 DEF RunMoves, Terminal, r
<1>17. CASE After
  <2>1. said' = said
    BY <1>17 DEF After, histVars
  <2>2. CASE Over \/ run.status = "paused" \/ Cur # A
    BY <1>2, <1>17, <2>1, <2>2 DEF After
  <2>3. CASE ~Over /\ Decide
    <3> DEFINE r == [run EXCEPT !.status = "waiting", !.waitingOn = "question"]
    <3>1. run' = run \/ run' = r \/ End("blocked") \/ End("budget_exhausted")
      BY <2>3 DEF Decide, Deliver
    <3>2. r \in RunRows /\ r.worker = run.worker /\ r.steer = run.steer /\ r.status = "waiting"
      BY <1>1 DEF RunRows
    <3> HIDE DEF r
    <3> QED
      BY <2>1, <2>3, <3>1, <3>2, <1>2, <1>3, <1>5
  <2> QED
    BY <1>17, <2>2, <2>3 DEF After
<1>18. CASE Committed
  <2>1. ~Over /\ said' = said
    BY <1>4, <1>18 DEF Committed, Ending, Unguarded, histVars
  <2>2. CASE End("failed")
    BY <2>1, <2>2, <1>3
  <2>3. CASE Ends([run EXCEPT !.accepted = A, !.delivered = att[A].tree], "completed") /\ pc' = <<"release", FALSE>>
    <3>1. run' = [run EXCEPT !.accepted = A, !.delivered = att[A].tree, !.status = "completed", !.waitingOn = "none"]
      BY <1>1, <2>3 DEF Ends, RunRows
    <3>2. /\ run'.worker = run.worker /\ run'.steer = run.steer /\ run'.status = "completed"
          /\ run'.accepted = A /\ run'.delivered = att[A].tree
      BY <1>1, <3>1 DEF RunRows
    <3> QED
      BY <1>18, <2>1, <2>3, <3>2 DEF RunMoves
  <2> QED
    BY <1>18, <2>2, <2>3 DEF Committed, Goes
<1>19. CASE TakeCancel
  <2>1. said' = said
    BY <1>19 DEF TakeCancel, histVars
  <2>2. run' = run \/ (~Over /\ Ends(run, "cancelled") /\ pc' = <<"stopWork">>)
    BY <1>19 DEF TakeCancel, Goes
  <2>3. Ends(run, "cancelled") => run'.status = "cancelled" /\ run'.worker = run.worker /\ run'.steer = run.steer
    BY <1>1 DEF Ends, RunRows
  <2> QED
    BY <1>19, <2>1, <2>2, <2>3, <1>2 DEF RunMoves
<1>20. CASE TakeAnswer
  <2> DEFINE r == [run EXCEPT !.steer = TRUE]
  <2> DEFINE q == [run EXCEPT !.status = "running", !.waitingOn = "none"]
  <2>1. \/ run' = run /\ said' = said
        \/ ~Over /\ run' = r
        \/ ~Over /\ run' = q /\ said' = said
    BY <1>20 DEF TakeAnswer
  <2>2. r \in RunRows /\ r.worker = run.worker /\ r.steer /\ r.status = run.status
    BY <1>1 DEF RunRows
  <2>3. q \in RunRows /\ q.worker = run.worker /\ q.steer = run.steer /\ q.status = "running"
    BY <1>1 DEF RunRows
  <2> HIDE DEF r, q
  <2> QED
    BY <2>1, <2>2, <2>3, <1>2, <1>5
<1>21. CASE Pause \/ Resume \/ Steer
  <2> DEFINE p == [run EXCEPT !.status = "paused"]
  <2> DEFINE w == [run EXCEPT !.status = "waiting"]
  <2> DEFINE r == [run EXCEPT !.steer = TRUE]
  <2> DEFINE q == [run EXCEPT !.status = "running", !.waitingOn = "none"]
  <2>1. \/ run' = run /\ said' = said
        \/ ~Over /\ run' = p /\ said' = said
        \/ run.status = "paused" /\ (run' = w \/ run' = q) /\ said' = said
        \/ ~Over /\ run' = r
    BY <1>21 DEF Pause, Resume, Steer, histVars
  <2>2. /\ p \in RunRows /\ p.worker = run.worker /\ p.steer = run.steer /\ p.status = "paused"
        /\ w \in RunRows /\ w.worker = run.worker /\ w.steer = run.steer /\ w.status = "waiting"
        /\ r \in RunRows /\ r.worker = run.worker /\ r.steer /\ r.status = run.status
        /\ q \in RunRows /\ q.worker = run.worker /\ q.steer = run.steer /\ q.status = "running"
    BY <1>1 DEF RunRows
  <2>3. run.status = "paused" => ~Over
    BY DEF Over, Terminal
  <2> HIDE DEF p, w, r, q
  <2> QED
    BY <2>1, <2>2, <2>3, <1>2, <1>5
<1>22. CASE Record \/ GiveBack \/ Replaced \/ Go \/ Sent \/ TakeSettled \/ LostStopped
  BY <1>2, <1>22 DEF Record, GiveBack, Replaced, Go, Sent, TakeSettled, LostStopped, rowVars, histVars
<1>23. CASE TakeVerify \/ Verifying \/ Quiesced \/ Snapshot \/ Checked \/ TakeAfter \/ TakeRequeue
  BY <1>2, <1>23 DEF TakeVerify, Verifying, Quiesced, Snapshot, Checked, TakeAfter, TakeRequeue, rowVars, histVars
<1>24. CASE StopWork \/ Drained \/ Release \/ Cancel \/ StopDaemon \/ Exit \/ Boot
  BY <1>2, <1>24 DEF StopWork, Drained, Release, Cancel, StopDaemon, Exit, Boot, rowVars, histVars
<1>25. CASE \E a \in Rows : Claim(a) \/ TaskSettles(a) \/ Lapses(a) \/ DeadlineFires(a)
  BY <1>2, <1>25 DEF Claim, TaskSettles, Lapses, DeadlineFires, rowVars, histVars
<1>26. CASE \E s \in Workers : WorkerWorks(s) \/ WorkerReports(s) \/ WorkerWaits(s) \/ WorkerApproved(s) \/ WorkerEnds(s)
  BY <1>2, <1>26 DEF WorkerWorks, WorkerReports, WorkerWaits, WorkerApproved, WorkerEnds, rowVars, histVars
<1> QED
  BY <1>8, <1>9, <1>10, <1>11, <1>12, <1>13, <1>14, <1>15, <1>16, <1>17, <1>18, <1>19, <1>20, <1>21, <1>22, <1>23,
     <1>24, <1>25, <1>26 DEF Next, Steps

-----------------------------------------------------------------------------
(* Nothing typed otherwise, and what passed its checks stays proven.           *)

RestTyped ==
    /\ session \in [Workers -> {"none", "idle", "active", "waiting", "stopping", "error", "gone"}]
    /\ workers \subseteq Workers /\ tooled \subseteq Workers /\ armed \subseteq Workers
    /\ tree \in Trees /\ proven \subseteq Trees
    /\ mix \in [faults : SUBSET FaultKinds, pauses : Nat, steers : Nat, holds : Nat, lapses : Nat, boots : Nat \ {0}]
    /\ {cancelling, aborted, up, stopped, said} \subseteq BOOLEAN

LEMMA ProvenStep ==
  ASSUME TypeOK, Next
  PROVE  proven \subseteq proven' /\ proven' \subseteq Trees
<1>1. proven \subseteq Trees
  BY DEF TypeOK
<1>2. CASE proven' = proven
  BY <1>1, <1>2
<1>3. CASE Checked
  <2>1. pc[3] \in Trees
    BY <1>3, PlaceArgs DEF Checked, At, TypeOK
  <2> QED
    BY <1>1, <1>3, <2>1 DEF Checked
<1>4. CASE Steps /\ ~Checked
  BY <1>2, <1>4 DEF Steps, histVars, TakePrepare, Prepared, Baselined, Start, Enqueue, Record, TakeSpawn, GiveBack,
     Replaced, Created, Go, Sent, TakeSettled, LostStopped, TakeWaiting, TakeMoved, TakeVerify, Verify, Verifying,
     Quiesced, Snapshot, TakeAfter, TakeRequeue, After, Committed, Release, TakeCancel, StopWork, Drained, TakeCarryOn,
     TakeAnswer
<1>5. CASE Cancel \/ Pause \/ Resume \/ Steer \/ StopDaemon \/ Exit \/ Boot
  BY <1>2, <1>5 DEF histVars, Cancel, Pause, Resume, Steer, StopDaemon, Exit, Boot
<1>6. CASE \E a \in Rows : Claim(a) \/ TaskSettles(a) \/ Lapses(a) \/ DeadlineFires(a)
  BY <1>2, <1>6 DEF histVars, Claim, TaskSettles, Lapses, DeadlineFires
<1>7. CASE \E s \in Workers : WorkerWorks(s) \/ WorkerReports(s) \/ WorkerWaits(s) \/ WorkerApproved(s) \/ WorkerEnds(s)
  BY <1>2, <1>7 DEF histVars, WorkerWorks, WorkerReports, WorkerWaits, WorkerApproved, WorkerEnds
<1> QED
  BY <1>3, <1>4, <1>5, <1>6, <1>7 DEF Next

-----------------------------------------------------------------------------
(* The attempts' invariant.                                                    *)

Grew ==
    \A a \in Rows :
      /\ att[a].status # "none" => att'[a].status # "none" /\ att'[a].steer = att[a].steer
      /\ att[a].started => att'[a].started
      /\ Done(a) => att'[a].status = "done" /\ att'[a].result = att[a].result /\ att'[a].tree = att[a].tree
LEMMA GrewStep ==
  ASSUME TypeOK, RowsInv, ItemsInv, PlaceInv, Next
  PROVE  /\ Grew /\ RowsTyped'
         /\ \/ att' # att /\ Start /\ Cur + 1 \in Rows /\ NewRow(Cur + 1) /\ Others(Cur + 1) /\ Cur' = Cur + 1 /\ Dense'
            \/ Cur' = Cur /\ Dense' /\ \A a \in Rows : att'[a].status # "none" <=> att[a].status # "none"
<1>1. RowsTyped' /\ (att' = att \/ \E a \in Rows : Changes(a))
  BY AttStep
<1>2. \A a \in Rows : Done(a) => att[a].status # "none"
  BY DEF Done
<1>3. Grew
  <2>1. CASE att' = att
    BY <2>1 DEF Grew, Done
  <2>2. ASSUME NEW a \in Rows, Changes(a) PROVE Grew
    <3> SUFFICES ASSUME NEW b \in Rows
                 PROVE  /\ att[b].status # "none" => att'[b].status # "none" /\ att'[b].steer = att[b].steer
                        /\ att[b].started => att'[b].started
                        /\ Done(b) => att'[b].status = "done" /\ att'[b].result = att[b].result /\ att'[b].tree = att[b].tree
      BY DEF Grew
    <3>1. CASE b # a
      BY <2>2, <3>1 DEF Changes, Others, Done
    <3>2. CASE b = a /\ NewRow(a)
      <4>1. ~att[a].started
        BY <3>2 DEF NewRow, RowsInv, RowInv
      <4> QED
        BY <3>2, <4>1 DEF NewRow, Done
    <3>3. CASE b = a /\ (Finished(a) \/ JudgedNow(a) \/ Noted(a) \/ Gone2Work(a) \/ Verifies(a))
      BY <3>3 DEF Finished, JudgedNow, Noted, Gone2Work, Verifies, Same, Kept, Done
    <3> QED
      BY <2>2, <3>1, <3>2, <3>3 DEF Changes
  <2> QED
    BY <1>1, <2>1, <2>2
<1>4. CASE \E a \in Rows : Changes(a) /\ NewRow(a)
  <2>1. PICK a \in Rows : Changes(a) /\ NewRow(a)
    BY <1>4
  <2>2. a = Cur + 1 /\ att'[a].status # "none" /\ att[a].status = "none" /\ Start /\ Others(a)
    BY <2>1 DEF NewRow, Changes
  <2>3. Cur' = Cur + 1 /\ Dense'
    BY <2>2, CurNext DEF Others
  <2> QED
    BY <1>1, <1>3, <2>1, <2>2, <2>3
<1>5. CASE att' = att \/ \E a \in Rows : Changes(a) /\ ~NewRow(a)
  <2>1. \A a \in Rows : att'[a].status # "none" <=> att[a].status # "none"
    <3>1. CASE att' = att
      BY <3>1
    <3>2. ASSUME NEW a \in Rows, Changes(a), ~NewRow(a), NEW b \in Rows PROVE att'[b].status # "none" <=> att[b].status # "none"
      <4>1. CASE b # a
        BY <3>2, <4>1 DEF Changes, Others
      <4>2. CASE b = a
        BY <3>2, <4>2 DEF Changes, Finished, JudgedNow, Noted, Gone2Work, Verifies
      <4> QED
        BY <4>1, <4>2
    <3> QED
      BY <1>5, <3>1, <3>2
  <2>2. Cur' = Cur /\ Dense'
    BY <2>1, CurKept DEF RowsInv
  <2> QED
    BY <1>1, <1>3, <2>1, <2>2
<1> QED
  BY <1>1, <1>4, <1>5

LEMMA RowsStep ==
  ASSUME TypeOK, RowsInv, ItemsInv, PlaceInv, Next
  PROVE  RowsInv'
<1>1. RowsTyped' /\ (att' = att \/ \E a \in Rows : Changes(a))
  BY AttStep
<1>2. Grew
  BY GrewStep
<1>3. /\ Cur \in Nat /\ (Cur # 0 => Cur \in Rows)
      /\ \A a \in Rows : a \in Nat /\ (att[a].status # "none" <=> a <= Cur)
      /\ \A a \in Rows : att[a].status # "none" /\ ~Done(a) => a = Cur
  BY RowFacts DEF Rows
<1>4. \A b \in Rows : b < Cur' => att'[b].status = "done"
  <2> SUFFICES ASSUME NEW b \in Rows, b < Cur' PROVE att'[b].status = "done"
    OBVIOUS
  <2>1. CASE Cur' = Cur
    <3>1. Done(b)
      BY <2>1 DEF RowsInv, RowInv
    <3> QED
      BY <1>2, <3>1 DEF Grew
  <2>2. CASE Start /\ Cur' = Cur + 1
    <3>1. b = Cur \/ b < Cur
      BY <1>3, <2>2
    <3>2. Cur # 0 => Done(Cur)
      BY <2>2 DEF Start, At, PlaceInv
    <3>3. Cur = 0 => FALSE
      BY <1>3, <3>1 DEF Rows
    <3>4. Done(b)
      BY <3>1, <3>2, <3>3 DEF RowsInv, RowInv
    <3> QED
      BY <1>2, <3>4 DEF Grew
  <2> QED
    BY <2>1, <2>2, GrewStep
<1>5. run'.worker = run.worker \/ (att' = att /\ \A b \in Rows : att[b].status \notin {"running", "verifying"})
  <2>1. CASE Created
    <3>1. att' = att
      BY <2>1 DEF Created
    <3>2. CurStatus = "queued"
      BY <2>1 DEF Created, At, PlaceInv
    <3>3. \A b \in Rows : att[b].status \in {"running", "verifying"} => b = Cur
      BY <1>3 DEF Done
    <3>4. att[Cur].status = "queued"
      BY <3>2 DEF CurStatus
    <3> QED
      BY <3>1, <3>3, <3>4
  <2> QED
    BY <2>1, RunStep DEF RunMoves
<1>6. proven \subseteq proven'
  BY ProvenStep
<1> DEFINE StatusOK(b) ==
      /\ att'[b].status = "queued" => att'[b].worker = NoWorker /\ ~att'[b].started
      /\ att'[b].status \in {"running", "verifying"} => att'[b].started /\ att'[b].worker = run'.worker
      /\ att'[b].result \notin {"none", "stopped", "worker_failed"} => att'[b].started
      /\ att'[b].started => att'[b].status # "none"
      /\ att'[b].result = "verified" => att'[b].tree \in proven'
<1>7. \A b \in Rows : att'[b] = att[b] => StatusOK(b)
  BY <1>5, <1>6 DEF RowsInv, RowInv
<1>8. ASSUME NEW a \in Rows, Changes(a), att' # att PROVE StatusOK(a)
  <2>1. run'.worker = run.worker
    BY <1>5, <1>8
  <2>2. RowInv(a)
    BY DEF RowsInv
  <2>3. CASE NewRow(a)
    BY <2>3 DEF NewRow
  <2>4. CASE Finished(a)
    BY <2>2, <2>4 DEF Finished, RowInv, Same, Kept
  <2>5. CASE JudgedNow(a)
    BY <2>2, <2>5 DEF JudgedNow, RowInv, Kept
  <2>6. CASE Noted(a)
    BY <2>1, <2>2, <2>6, <1>6 DEF Noted, RowInv, Same, Kept
  <2>7. CASE Gone2Work(a)
    BY <2>1, <2>7 DEF Gone2Work
  <2>8. CASE Verifies(a)
    BY <2>1, <2>2, <2>8 DEF Verifies, RowInv, Same, Kept
  <2> QED
    BY <1>8, <2>3, <2>4, <2>5, <2>6, <2>7, <2>8 DEF Changes
<1>9. \A b \in Rows : StatusOK(b)
  BY <1>1, <1>7, <1>8 DEF Changes, Others
<1>10. \A b \in Rows : /\ deadline'[b] # "none" \/ b \in timedOut' \/ task'[b] \in {"running", "held"} => att'[b].started
                       /\ task'[b] # "none" => att'[b].status # "none"
  <2> SUFFICES ASSUME NEW b \in Rows
               PROVE  /\ deadline'[b] # "none" \/ b \in timedOut' \/ task'[b] \in {"running", "held"} => att'[b].started
                      /\ task'[b] # "none" => att'[b].status # "none"
    OBVIOUS
  <2>1. att[b].started => att'[b].started
    BY <1>2 DEF Grew
  <2>2. deadline'[b] # "none" \/ b \in timedOut' => deadline[b] # "none" \/ b \in timedOut \/ att[b].started \/ att'[b].started
    BY ClockStep
  <2>3. /\ task'[b] # "none" => task[b] # "none" \/ att[b].status # "none"
        /\ task'[b] \in {"running", "held"} => task[b] \in {"running", "held"} \/ att[b].started
    BY TaskStep
  <2> QED
    BY <1>2, <2>1, <2>2, <2>3 DEF Grew, RowsInv, RowInv
<1>11. \A b \in Rows : RowInv(b)'
  <2> HIDE DEF StatusOK
  <2> SUFFICES ASSUME NEW b \in Rows PROVE RowInv(b)'
    OBVIOUS
  <2>1. StatusOK(b)
    BY <1>9
  <2> QED
    BY <1>4, <1>10, <2>1 DEF RowInv, Done, StatusOK
<1>12. run'.status = "verifying" => Cur' # 0 /\ att'[Cur'].started
  <2>1. CASE Verify /\ Cur = A /\ run'.status = "verifying"
    <3>1. Cur' = Cur /\ att' = att
      BY <2>1 DEF Verify, Cur
    <3>2. pc[1] = "verify" /\ A = Cur
      BY <2>1 DEF Verify, At
    <3>3. A \in Rows /\ att[A].started
      BY <3>2, PlaceArgs DEF TypeOK, PlaceInv, A, AtRow
    <3> QED
      BY <3>1, <3>2, <3>3 DEF Rows
  <2>2. CASE run.status = "verifying" /\ run'.status = "verifying"
    <3>1. Cur # 0 /\ att[Cur].started
      BY <2>2 DEF RowsInv
    <3>2. Cur' = Cur \/ (Start /\ att' # att)
      BY GrewStep
    <3>3. ~(Start /\ att' # att)
      <4> SUFFICES ASSUME Start, att' # att PROVE FALSE
        OBVIOUS
      <4>1. run' = [run EXCEPT !.status = "running", !.waitingOn = "none", !.steer = FALSE]
        BY DEF Start, rowVars
      <4> QED
        BY <4>1, <2>2 DEF TypeOK, RunRows
    <3> QED
      BY <1>2, <1>3, <3>1, <3>2, <3>3 DEF Grew
  <2> QED
    BY <2>1, <2>2, RunStep DEF RunMoves
<1> QED
  BY <1>11, <1>12, GrewStep DEF RowsInv

-----------------------------------------------------------------------------
(* Sessions, sets of sessions and the rest.                                    *)

SessionStatus == {"none", "idle", "active", "waiting", "stopping", "error", "gone"}
LEMMA SessionTyped ==
  ASSUME TypeOK, Next
  PROVE  session' \in [Workers -> SessionStatus]
<1>1. session \in [Workers -> SessionStatus] /\ \A x \in {"none", "idle", "active", "waiting", "stopping", "error", "gone"} : x \in SessionStatus
  BY DEF TypeOK, SessionStatus
<1>2. session' = session => session' \in [Workers -> SessionStatus]
  BY <1>1
<1>3. \A s : Quieted(s) \in [Workers -> SessionStatus]
  BY <1>1 DEF Quieted
<1>4. \A S : Interrupted(S) \in [Workers -> SessionStatus]
  BY <1>1 DEF Interrupted
<1>5. CASE TakePrepare \/ Prepared \/ Baselined \/ TakeCarryOn \/ Start \/ Enqueue \/ Record \/ TakeSpawn \/ GiveBack \/ Go
  BY <1>2, <1>5 DEF TakePrepare, Prepared, Baselined, TakeCarryOn, Start, Enqueue, Record, TakeSpawn, GiveBack, Go, sessVars
<1>6. CASE TakeSettled \/ TakeWaiting \/ TakeMoved \/ TakeVerify \/ Verify \/ Verifying \/ Snapshot \/ Checked \/ TakeAfter \/ TakeRequeue
  BY <1>2, <1>6 DEF TakeSettled, TakeWaiting, TakeMoved, TakeVerify, Verify, Verifying, Snapshot, Checked, TakeAfter, TakeRequeue, sessVars
<1>7. CASE After \/ Committed \/ Release \/ TakeCancel \/ StopWork \/ TakeAnswer \/ Pause \/ Resume \/ Steer \/ StopDaemon \/ Boot
  BY <1>2, <1>7 DEF After, Committed, Release, TakeCancel, StopWork, TakeAnswer, Pause, Resume, Steer, StopDaemon, Boot, sessVars
<1>8. CASE \E a \in Rows : Claim(a) \/ TaskSettles(a) \/ Lapses(a)
  BY <1>2, <1>8 DEF Claim, TaskSettles, Lapses, sessVars
<1>9. CASE Replaced \/ LostStopped \/ Quiesced
  BY <1>3, <1>9 DEF Replaced, LostStopped, Quiesced
<1>10. CASE Created \/ Sent
  BY <1>1, <1>10 DEF Created, Sent, sessVars
<1>11. CASE Drained \/ Exit
  BY <1>1, <1>11 DEF Drained, Exit
<1>12. CASE Cancel
  BY <1>4, <1>12 DEF Cancel
<1>13. CASE \E a \in Rows : DeadlineFires(a)
  BY <1>2, <1>4, <1>13 DEF DeadlineFires
<1>14. CASE \E s \in Workers : WorkerWorks(s) \/ WorkerReports(s) \/ WorkerWaits(s) \/ WorkerApproved(s) \/ WorkerEnds(s)
  BY <1>1, <1>14 DEF WorkerWorks, WorkerReports, WorkerWaits, WorkerApproved, WorkerEnds, Becomes, sessVars
<1> QED
  BY <1>5, <1>6, <1>7, <1>8, <1>9, <1>10, <1>11, <1>12, <1>13, <1>14 DEF Next, Steps

LEMMA SetsTyped ==
  ASSUME TypeOK, Next
  PROVE  workers' \subseteq Workers /\ tooled' \subseteq Workers /\ armed' \subseteq Workers
<1> DEFINE Goal == workers' \subseteq Workers /\ tooled' \subseteq Workers /\ armed' \subseteq Workers
<1>1. workers \subseteq Workers /\ tooled \subseteq Workers /\ armed \subseteq Workers /\ run.worker \in Workers \cup {NoWorker}
  BY DEF TypeOK, RunRows
<1>2. workers' = workers /\ tooled' = tooled /\ armed' = armed => Goal
  BY <1>1
<1>3. CASE TakePrepare \/ Prepared \/ Baselined \/ TakeCarryOn \/ Start \/ Enqueue \/ Record \/ GiveBack \/ Sent
  BY <1>2, <1>3 DEF TakePrepare, Prepared, Baselined, TakeCarryOn, Start, Enqueue, Record, GiveBack, Sent, sessVars
<1>4. CASE TakeSettled \/ LostStopped \/ TakeWaiting \/ TakeMoved \/ TakeVerify \/ Verify \/ Verifying \/ Quiesced \/ Snapshot \/ Checked
  BY <1>2, <1>4 DEF TakeSettled, LostStopped, TakeWaiting, TakeMoved, TakeVerify, Verify, Verifying, Quiesced, Snapshot, Checked, sessVars
<1>5. CASE TakeAfter \/ TakeRequeue \/ After \/ Committed \/ TakeCancel \/ StopWork \/ Drained \/ TakeAnswer
  BY <1>2, <1>5 DEF TakeAfter, TakeRequeue, After, Committed, TakeCancel, StopWork, Drained, TakeAnswer, sessVars
<1>6. CASE Cancel \/ Pause \/ Resume \/ Steer \/ StopDaemon
  BY <1>2, <1>6 DEF Cancel, Pause, Resume, Steer, StopDaemon, sessVars
<1>7. CASE \E a \in Rows : Claim(a) \/ TaskSettles(a) \/ Lapses(a) \/ DeadlineFires(a)
  BY <1>2, <1>7 DEF Claim, TaskSettles, Lapses, DeadlineFires, sessVars
<1>8. CASE \E s \in Workers : WorkerWorks(s) \/ WorkerReports(s) \/ WorkerWaits(s) \/ WorkerApproved(s) \/ WorkerEnds(s)
  BY <1>2, <1>8 DEF WorkerWorks, WorkerReports, WorkerWaits, WorkerApproved, WorkerEnds, sessVars
<1>9. CASE TakeSpawn
  <2>1. workers' \subseteq workers /\ tooled' = tooled /\ armed' \subseteq armed \cup (IF run.worker # NoWorker THEN {run.worker} ELSE {})
    BY <1>9 DEF TakeSpawn, Reusable
  <2> QED
    BY <1>1, <2>1
<1>10. CASE Replaced \/ Created \/ Release \/ Exit
  BY <1>1, <1>10 DEF Replaced, Created, Release, Exit, sessVars
<1>11. CASE Go
  <2>1. pc[3] \in Workers
    BY <1>11, PlaceArgs DEF TypeOK, Go, At, AtWorker
  <2> QED
    BY <1>1, <1>11, <2>1 DEF Go, sessVars
<1>12. CASE Boot
  BY <1>1, <1>12 DEF Boot, Followed, sessVars
<1> QED
  BY <1>3, <1>4, <1>5, <1>6, <1>7, <1>8, <1>9, <1>10, <1>11, <1>12 DEF Next, Steps

MixRows == [faults : SUBSET FaultKinds, pauses : Nat, steers : Nat, holds : Nat, lapses : Nat, boots : Nat \ {0}]
LEMMA MixTyped ==
  ASSUME TypeOK, Next
  PROVE  mix' \in MixRows
<1>1. mix \in MixRows
  BY DEF TypeOK, MixRows
<1>2. CASE mix' = mix
  BY <1>1, <1>2
<1>3. CASE Pause \/ Steer \/ Exit
  <2>1. \/ mix.pauses > 0 /\ mix' = [mix EXCEPT !.pauses = @ - 1]
        \/ mix.steers > 0 /\ mix' = [mix EXCEPT !.steers = @ - 1]
        \/ mix.boots > 1 /\ mix' = [mix EXCEPT !.boots = @ - 1]
    BY <1>3 DEF Pause, Steer, Exit
  <2> QED
    BY <1>1, <2>1 DEF MixRows
<1>4. CASE (\E a \in Rows : Lapses(a)) \/ (\E s \in Workers : WorkerWaits(s))
  <2>1. \/ mix.lapses > 0 /\ mix' = [mix EXCEPT !.lapses = @ - 1]
        \/ mix.holds > 0 /\ mix' = [mix EXCEPT !.holds = @ - 1]
    BY <1>4 DEF Lapses, WorkerWaits
  <2> QED
    BY <1>1, <2>1 DEF MixRows
<1>5. CASE Steps
  BY <1>2, <1>5 DEF Steps, histVars, TakePrepare, Prepared, Baselined, Start, Enqueue, Record, TakeSpawn, GiveBack,
     Replaced, Created, Go, Sent, TakeSettled, LostStopped, TakeWaiting, TakeMoved, TakeVerify, Verify, Verifying,
     Quiesced, Snapshot, Checked, TakeAfter, TakeRequeue, After, Committed, Release, TakeCancel, StopWork, Drained,
     TakeCarryOn, TakeAnswer
<1>6. CASE Cancel \/ Resume \/ StopDaemon \/ Boot
  BY <1>2, <1>6 DEF histVars, Cancel, Resume, StopDaemon, Boot
<1>7. CASE \E a \in Rows : Claim(a) \/ TaskSettles(a) \/ DeadlineFires(a)
  BY <1>2, <1>7 DEF histVars, Claim, TaskSettles, DeadlineFires
<1>8. CASE \E s \in Workers : WorkerWorks(s) \/ WorkerReports(s) \/ WorkerApproved(s) \/ WorkerEnds(s)
  BY <1>2, <1>8 DEF histVars, WorkerWorks, WorkerReports, WorkerApproved, WorkerEnds
<1> QED
  BY <1>3, <1>4, <1>5, <1>6, <1>7, <1>8 DEF Next

LEMMA FlagsTyped ==
  ASSUME TypeOK, Next
  PROVE  tree' \in Trees /\ {cancelling', aborted', up', stopped', said'} \subseteq BOOLEAN
<1> DEFINE Goal == tree' \in Trees /\ {cancelling', aborted', up', stopped', said'} \subseteq BOOLEAN
<1>1. tree \in Trees /\ cancelling \in BOOLEAN /\ aborted \in BOOLEAN /\ up \in BOOLEAN /\ stopped \in BOOLEAN /\ said \in BOOLEAN
  BY DEF TypeOK
<1>2. /\ tree' \in Trees /\ (cancelling' = cancelling \/ cancelling' = TRUE \/ cancelling' = FALSE)
      /\ (aborted' = aborted \/ aborted' = TRUE \/ aborted' = FALSE)
      /\ (up' = up \/ up' = TRUE \/ up' = FALSE) /\ (stopped' = stopped \/ stopped' = TRUE \/ stopped' = FALSE)
      /\ (said' = said \/ said' = TRUE)
      => Goal
  BY <1>1
<1> DEFINE Still == tree' = tree /\ up' = up /\ stopped' = stopped /\ said' = said
<1>3. Still /\ cancelling' = cancelling /\ (aborted' = aborted \/ aborted' = FALSE) => Goal
  BY <1>1, <1>2
<1>4. CASE TakePrepare \/ Prepared \/ TakeCarryOn
  BY <1>3, <1>4 DEF TakePrepare, Prepared, TakeCarryOn, PrepareAgain, Baseline, Checking, histVars
<1>5. CASE Baselined \/ Start \/ Enqueue \/ Record \/ TakeSpawn \/ GiveBack \/ Replaced \/ Created \/ Go \/ Sent
  BY <1>3, <1>5 DEF Baselined, Start, Enqueue, Record, TakeSpawn, GiveBack, Replaced, Created, Go, Sent, askVars, histVars
<1>6. CASE TakeSettled \/ LostStopped \/ TakeWaiting \/ TakeMoved \/ TakeVerify \/ Verify \/ Verifying \/ Quiesced \/ Checked
  BY <1>3, <1>6 DEF TakeSettled, LostStopped, TakeWaiting, TakeMoved, TakeVerify, Verify, Verifying, Quiesced, Checked, askVars, histVars
<1>7. CASE Snapshot
  BY <1>3, <1>7 DEF Snapshot, Checking, histVars
<1>8. CASE TakeAfter \/ TakeRequeue \/ After \/ Committed \/ StopWork \/ Drained
  BY <1>3, <1>8 DEF TakeAfter, TakeRequeue, After, Committed, StopWork, Drained, askVars, histVars
<1>9. CASE Release
  <2>1. cancelling' \in BOOLEAN
    BY <1>9 DEF Release
  <2> QED
    BY <1>1, <1>9, <2>1 DEF Release, histVars
<1>10. CASE TakeCancel \/ TakeAnswer
  BY <1>1, <1>2, <1>10 DEF TakeCancel, TakeAnswer, askVars, histVars
<1>11. CASE Cancel \/ Pause \/ Resume \/ Steer \/ StopDaemon
  BY <1>1, <1>2, <1>11 DEF Cancel, Pause, Resume, Steer, StopDaemon, askVars, histVars
<1>12. CASE Exit \/ Boot
  BY <1>1, <1>2, <1>12 DEF Exit, Boot, askVars, histVars
<1>13. CASE \E a \in Rows : Claim(a) \/ TaskSettles(a) \/ Lapses(a) \/ DeadlineFires(a)
  BY <1>3, <1>13 DEF Claim, TaskSettles, Lapses, DeadlineFires, askVars, histVars
<1>14. CASE \E s \in Workers : WorkerWorks(s)
  BY <1>1, <1>2, <1>14 DEF WorkerWorks, askVars, histVars
<1>15. CASE \E s \in Workers : WorkerReports(s) \/ WorkerWaits(s) \/ WorkerApproved(s) \/ WorkerEnds(s)
  BY <1>3, <1>15 DEF WorkerReports, WorkerWaits, WorkerApproved, WorkerEnds, askVars, histVars
<1> QED
  BY <1>4, <1>5, <1>6, <1>7, <1>8, <1>9, <1>10, <1>11, <1>12, <1>13, <1>14, <1>15 DEF Next, Steps

-----------------------------------------------------------------------------
(* What a step adds to the chain says what is so of the attempts.              *)

Fit(item) == item \in Items /\ ItemOf(att', item) /\ item[1] \notin {"prepare", "requeue"}
Longer(s) ==
    \/ chain' = s
    \/ \E x : Fit(x) /\ chain' = Append(s, x)
    \/ \E x, y : Fit(x) /\ Fit(y) /\ chain' = Append(Append(s, x), y)

LEMMA FitSettled ==
  ASSUME Grew, NEW a \in Rows, att[a].status # "none", NEW how \in {"done", "failed", "reclaimed"},
         how = "done" => att[a].started
  PROVE  Fit(<<"settled", a, how>>)
BY IsItem DEF Fit, ItemOf, Grew

LEMMA FitOne ==
  ASSUME Grew, NEW a \in Rows, att[a].status # "none", NEW kind \in {"spawn", "waiting"}
  PROVE  Fit(<<kind, a>>)
BY IsItem DEF Fit, ItemOf, Grew, OfRow

LEMMA ToldFits ==
  ASSUME RowsInv, Grew, NEW a \in Rows, NEW s, chain' = Told(a, s)
  PROVE  Longer(s)
<1>1. task[a] \in Open => att[a].status # "none"
  BY DEF RowsInv, RowInv, Open
<1> QED
  BY <1>1, FitSettled DEF Told, Longer

LEMMA ChainStep ==
  ASSUME TypeOK, RowsInv, ItemsInv, PlaceInv, Next
  PROVE  \/ Longer(chain) /\ (pc[1] = "idle" => pc' = pc)
         \/ \E kind : /\ Takes(kind) /\ Longer(Tail(chain))
                      /\ kind = "settled" /\ Done(Head1[2]) => pc' = pc
         \/ Exit \/ Boot
<1> DEFINE Goal == \/ Longer(chain) /\ (pc[1] = "idle" => pc' = pc)
                   \/ \E kind : /\ Takes(kind) /\ Longer(Tail(chain))
                                /\ kind = "settled" /\ Done(Head1[2]) => pc' = pc
                   \/ Exit \/ Boot
<1>1. Grew
  BY GrewStep
<1>2. \A place : At(place) /\ place # "idle" => pc[1] # "idle"
  BY DEF At
<1>3. Longer(chain) /\ pc[1] # "idle" => Goal
  OBVIOUS
<1>4. Longer(chain) /\ pc' = pc => Goal
  OBVIOUS
<1>5. \A kind : Takes(kind) /\ kind # "settled" /\ Longer(Tail(chain)) => Goal
  OBVIOUS
<1>6. chain' = chain => Longer(chain)
  BY DEF Longer
<1>7. Pop => Longer(Tail(chain))
  BY DEF Longer, Pop
<1>8. \A a \in Rows : /\ att[a].status = "running" => att[a].started
                      /\ task[a] # "none" \/ att[a].started => att[a].status # "none"
                      /\ task[a] \in {"running", "held"} \/ deadline[a] # "none" => att[a].started
  BY DEF RowsInv, RowInv
<1>9. /\ Cur # 0 => Cur \in Rows /\ att[Cur].status # "none"
      /\ CurStatus # "none" => Cur # 0 /\ att[Cur].status = CurStatus
      /\ 0 \notin Rows
  BY RowFacts DEF CurStatus, Rows
<1>10. \A place \in AtRow \cup AtWorker : At(place) => A \in Rows
  BY PlaceArgs DEF At, A, TypeOK
<1>11. CASE Prepared \/ Baselined \/ Start \/ Enqueue \/ Record \/ GiveBack \/ Replaced \/ Go
  BY <1>2, <1>3, <1>6, <1>11 DEF Prepared, Baselined, Start, Enqueue, Record, GiveBack, Replaced, Go
<1>12. CASE LostStopped \/ Verify \/ Verifying \/ Quiesced \/ Snapshot \/ Checked \/ After \/ Committed \/ Release \/ Drained
  BY <1>2, <1>3, <1>6, <1>12 DEF LostStopped, Verify, Verifying, Quiesced, Snapshot, Checked, After, Committed, Release, Drained
<1>13. CASE TakePrepare \/ TakeCarryOn \/ TakeWaiting \/ TakeVerify \/ TakeAfter \/ TakeRequeue \/ TakeCancel \/ TakeAnswer
  BY <1>5, <1>7, <1>13 DEF TakePrepare, TakeCarryOn, TakeWaiting, TakeVerify, TakeAfter, TakeRequeue, TakeCancel, TakeAnswer
<1>14. CASE Created \/ Sent
  <2>1. A \in Rows
    BY <1>10, <1>14 DEF Created, Sent, AtRow
  <2>2. pc[1] # "idle" /\ (chain' = chain \/ chain' = Told(A, chain))
    BY <1>2, <1>14 DEF Created, Sent, Throws
  <2> QED
    BY <1>1, <1>3, <1>6, <2>1, <2>2, ToldFits
<1>15. CASE StopWork
  <2>1. pc[1] # "idle" /\ (chain' = chain \/ (CurStatus # "none" /\ chain' = Told(Cur, chain)))
    BY <1>2, <1>15 DEF StopWork, Throws
  <2> QED
    BY <1>1, <1>3, <1>6, <1>9, <2>1, ToldFits
<1>16. CASE TakeSpawn
  <2>1. Takes("spawn") /\ Head1[2] \in Rows
    BY <1>16, HeadFacts DEF TakeSpawn, OfRow
  <2>2. chain' = Tail(chain) \/ chain' = Told(Head1[2], Tail(chain))
    BY <1>16 DEF TakeSpawn, Throws
  <2>3. Longer(Tail(chain))
    BY <1>1, <2>1, <2>2, ToldFits DEF Longer
  <2> QED
    BY <1>5, <2>1, <2>3
<1>17. CASE TakeSettled
  <2>1. Takes("settled") /\ Pop
    BY <1>17 DEF TakeSettled
  <2>2. pc = <<"idle">>
    BY <2>1, HeadFacts
  <2>3. Done(Head1[2]) => pc' = pc
    BY <1>17, <2>2 DEF TakeSettled, IsSettled, Done, Idles, Goes
  <2> QED
    BY <1>7, <2>1, <2>3
<1>18. CASE TakeMoved
  <2>1. Takes("moved") /\ (Pop \/ (CurStatus = "running" /\ Unheld(Cur)))
    BY <1>18 DEF TakeMoved
  <2>2. ASSUME CurStatus = "running", Unheld(Cur) PROVE Longer(Tail(chain))
    <3>1. Cur \in Rows /\ att[Cur].status # "none" /\ att[Cur].started
      BY <1>8, <1>9, <2>2
    <3>2. \/ Pop
          \/ \E how \in {"done", "failed"} : chain' = Append(Tail(chain), <<"settled", Cur, how>>)
          \/ chain' = Append(Tail(chain), <<"waiting", Cur>>)
      BY <2>2 DEF Unheld
    <3> QED
      BY <1>1, <1>7, <3>1, <3>2, FitSettled, FitOne DEF Longer
  <2> QED
    BY <1>5, <1>7, <2>1, <2>2
<1>19. CASE \E a \in Rows : Claim(a) \/ TaskSettles(a) \/ Lapses(a)
  <2>1. PICK a \in Rows : Claim(a) \/ TaskSettles(a) \/ Lapses(a)
    BY <1>19
  <2>2. pc' = pc /\ att[a].status # "none"
    BY <1>8, <2>1 DEF Claim, TaskSettles, Lapses
  <2>3. \/ chain' = Append(chain, <<"spawn", a>>)
        \/ att[a].started /\ \E how \in {"done", "failed"} : chain' = Append(chain, <<"settled", a, how>>)
        \/ chain' = Append(chain, <<"settled", a, "reclaimed">>)
    BY <1>8, <2>1 DEF Claim, TaskSettles, Lapses, Queues
  <2>4. Longer(chain)
    BY <1>1, <2>2, <2>3, FitSettled, FitOne DEF Longer
  <2> QED
    BY <1>4, <2>2, <2>4
<1>20. CASE \E a \in Rows : DeadlineFires(a)
  <2>1. PICK a \in Rows : DeadlineFires(a)
    BY <1>20
  <2>2. pc' = pc /\ att[a].status # "none" /\ att[a].started
    BY <1>8, <2>1 DEF DeadlineFires
  <2>3. chain' = chain \/ chain' = Append(Told(a, chain), <<"settled", a, "done">>)
    BY <2>1 DEF DeadlineFires
  <2>4. Fit(<<"settled", a, "done">>) /\ Fit(<<"settled", a, "failed">>)
    BY <1>1, <2>2, FitSettled
  <2>5. Longer(chain)
    BY <2>3, <2>4 DEF Longer, Told
  <2> QED
    BY <1>4, <2>2, <2>5
<1>21. CASE Cancel \/ Pause \/ Resume \/ Steer \/ StopDaemon
  <2>1. pc' = pc
    BY <1>21 DEF Cancel, Pause, Resume, Steer, StopDaemon
  <2>2. \/ chain' = chain \/ chain' = Append(chain, <<"cancel">>) \/ chain' = Append(chain, <<"carryOn">>)
        \/ (Asked /\ chain' = Append(chain, <<"answer", Cur>>))
    BY <1>21 DEF Cancel, Pause, Resume, Steer, StopDaemon, Queues
  <2>3. Fit(<<"cancel">>) /\ Fit(<<"carryOn">>)
    BY IsItem DEF Fit, ItemOf, Plain
  <2>4. Asked => Fit(<<"answer", Cur>>)
    <3> SUFFICES ASSUME Asked PROVE Fit(<<"answer", Cur>>)
      OBVIOUS
    <3>1. Cur \in Rows /\ att[Cur].result = "needs_input"
      BY <1>9 DEF Asked
    <3>2. Done(Cur) /\ att[Cur].started
      BY <3>1 DEF TypeOK, RowsInv, RowInv, Done
    <3>3. att'[Cur].status = "done" /\ att'[Cur].started
      BY <1>1, <3>1, <3>2 DEF Grew
    <3> QED
      BY <3>1, <3>3, IsItem DEF Fit, ItemOf, Done, OfRow
  <2>5. Longer(chain)
    BY <2>2, <2>3, <2>4 DEF Longer
  <2> QED
    BY <1>4, <2>1, <2>5
<1>22. CASE \E s \in Workers : WorkerWorks(s) \/ WorkerReports(s)
  BY <1>4, <1>6, <1>22 DEF WorkerWorks, WorkerReports
<1>23. CASE \E s \in Workers : WorkerWaits(s) \/ WorkerApproved(s) \/ WorkerEnds(s)
  <2>1. PICK s \in Workers : WorkerWaits(s) \/ WorkerApproved(s) \/ WorkerEnds(s)
    BY <1>23
  <2>2. pc' = pc
    BY <2>1 DEF WorkerWaits, WorkerApproved, WorkerEnds
  <2>3. Moves(s) => chain' = chain \/ chain' = Append(chain, <<"moved", s>>)
    BY DEF Moves, Queues
  <2>4. Fit(<<"moved", s>>)
    BY IsItem DEF Fit, ItemOf
  <2>5. WorkerWaits(s) => chain' = chain \/ \E a \in Rows : task[a] = "running" /\ chain' = Append(chain, <<"waiting", a>>)
    <3> SUFFICES ASSUME WorkerWaits(s), chain' # chain PROVE \E a \in Rows : task[a] = "running" /\ chain' = Append(chain, <<"waiting", a>>)
      OBVIOUS
    <3> DEFINE a == CHOOSE b \in Rows : task[b] = "running" /\ att[b].worker = s
    <3>1. (\E b \in Rows : task[b] = "running" /\ att[b].worker = s) /\ chain' = Append(chain, <<"waiting", a>>)
      BY DEF WorkerWaits, Queues
    <3>2. a \in Rows /\ task[a] = "running"
      BY <3>1
    <3> QED
      BY <3>1, <3>2
  <2>6. Longer(chain)
    <3>1. CASE WorkerWaits(s)
      BY <1>1, <1>8, <2>5, <3>1, FitOne DEF Longer
    <3>2. CASE WorkerApproved(s) \/ WorkerEnds(s)
      BY <2>3, <2>4, <3>2 DEF WorkerApproved, WorkerEnds, Longer
    <3> QED
      BY <2>1, <3>1, <3>2
  <2> QED
    BY <1>4, <2>2, <2>6
<1> QED
  BY <1>11, <1>12, <1>13, <1>14, <1>15, <1>16, <1>17, <1>18, <1>19, <1>20, <1>21, <1>22, <1>23 DEF Next, Steps

-----------------------------------------------------------------------------
(* The chain after a step: what was in it, less its head if that was taken,    *)
(* and fitting items behind.                                                   *)

LEMMA Appended ==
  ASSUME NEW S, NEW s \in Seq(S), NEW x \in S
  PROVE  /\ Append(s, x) \in Seq(S) /\ Len(Append(s, x)) = Len(s) + 1 /\ Len(s) \in Nat
         /\ \A i \in 1 .. Len(s) : Append(s, x)[i] = s[i]
         /\ Append(s, x)[Len(s) + 1] = x
OBVIOUS

LEMMA LongerFacts ==
  ASSUME NEW s \in Seq(Items), Longer(s)
  PROVE  /\ chain' \in Seq(Items) /\ Len(s) \in Nat /\ Len(chain') \in Nat /\ Len(chain') >= Len(s)
         /\ \A i \in 1 .. Len(s) : chain'[i] = s[i]
         /\ \A i \in 1 .. Len(chain') : i > Len(s) => Fit(chain'[i])
<1>1. CASE chain' = s
  BY <1>1
<1>2. CASE \E x : Fit(x) /\ chain' = Append(s, x)
  <2>1. PICK x : Fit(x) /\ chain' = Append(s, x)
    BY <1>2
  <2>2. x \in Items
    BY <2>1 DEF Fit
  <2>3. /\ chain' \in Seq(Items) /\ Len(chain') = Len(s) + 1 /\ Len(s) \in Nat
        /\ \A i \in 1 .. Len(s) : chain'[i] = s[i]
        /\ chain'[Len(s) + 1] = x
    BY <2>1, <2>2, Appended
  <2>4. \A i \in 1 .. Len(chain') : i > Len(s) => i = Len(s) + 1
    BY <2>3
  <2> QED
    BY <2>1, <2>3, <2>4
<1>3. CASE \E x, y : Fit(x) /\ Fit(y) /\ chain' = Append(Append(s, x), y)
  <2>1. PICK x, y : Fit(x) /\ Fit(y) /\ chain' = Append(Append(s, x), y)
    BY <1>3
  <2>2. x \in Items /\ y \in Items
    BY <2>1 DEF Fit
  <2> DEFINE t == Append(s, x)
  <2>3. /\ t \in Seq(Items) /\ Len(t) = Len(s) + 1 /\ Len(s) \in Nat
        /\ \A i \in 1 .. Len(s) : t[i] = s[i]
        /\ t[Len(s) + 1] = x
    BY <2>2, Appended
  <2> HIDE DEF t
  <2>4. /\ chain' \in Seq(Items) /\ Len(chain') = Len(t) + 1
        /\ \A i \in 1 .. Len(t) : chain'[i] = t[i]
        /\ chain'[Len(t) + 1] = y
    BY <2>1, <2>2, <2>3, Appended DEF t
  <2>5. \A i \in 1 .. Len(chain') : i > Len(s) => i = Len(s) + 1 \/ i = Len(t) + 1
    BY <2>3, <2>4
  <2>6. chain'[Len(s) + 1] = x
    BY <2>3, <2>4
  <2>7. \A i \in 1 .. Len(s) : chain'[i] = s[i]
    BY <2>3, <2>4
  <2> QED
    BY <2>1, <2>3, <2>4, <2>5, <2>6, <2>7
<1> QED
  BY <1>1, <1>2, <1>3 DEF Longer

LEMMA ItemsKept ==
  ASSUME Grew, NEW item \in Items, ItemInv(item)
  PROVE  ItemOf(att', item)
BY ItemArgs DEF Grew, ItemInv, ItemOf, OfRow, Done

(* What a start finds to be done: every claim of the process that died, then   *)
(* the run's own next step.                                                    *)
LEMMA ReclaimedFacts ==
  ASSUME TypeOK
  PROVE  /\ Reclaimed \in Seq(Items) /\ Len(Reclaimed) \in Nat
         /\ \A i \in 1 .. Len(Reclaimed) : \E a \in Rows : /\ task[a] \in {"claimed", "running", "held"}
                                                           /\ Reclaimed[i] = <<"settled", a, "reclaimed">>
<1> DEFINE S == {a \in Rows : task[a] \in {"claimed", "running", "held"}}
<1> DEFINE n == Cardinality(S)
<1>1. IsFiniteSet(S)
  <2>1. MaxRows \in Nat
    BY ConstantsAssumption
  <2>2. IsFiniteSet(Rows)
    BY <2>1, FS_Interval, 1 \in Int, MaxRows \in Int DEF Rows
  <2> QED
    BY <2>2, FS_Subset
<1>2. n \in Nat /\ ExistsBijection(1 .. n, S)
  BY <1>1, FS_CardinalityType
<1>3. \E f \in [1 .. n -> S] : IsInjective(f)
  BY <1>2 DEF ExistsBijection, Bijection, Injection, IsInjective
<1>4. Claimed \in [1 .. n -> S]
  BY <1>3 DEF Claimed, SetToSeq
<1> HIDE DEF n
<1>5. Reclaimed \in [1 .. n -> Items] /\ \A i \in 1 .. n : Claimed[i] \in S /\ Reclaimed[i] = <<"settled", Claimed[i], "reclaimed">>
  BY <1>4, IsItem DEF Reclaimed
<1>6. Reclaimed \in Seq(Items) /\ Len(Reclaimed) = n
  BY <1>2, <1>5, SeqDef
<1> QED
  BY <1>2, <1>5, <1>6

LEMMA PicksUpFacts ==
  ASSUME TypeOK, RowsInv
  PROVE  \/ PicksUp = <<>>
         \/ Cur = 0 /\ PicksUp = <<<<"prepare">>>>
         \/ Cur \in Rows /\ Done(Cur) /\ PicksUp = <<<<"after", Cur>>>>
         \/ Cur \in Rows /\ att[Cur].started /\ PicksUp = <<<<"verify", Cur>>>>
         \/ ~Over /\ Cur \in Rows /\ NeverQueued /\ PicksUp = <<<<"requeue", Cur>>>>
<1>1. /\ Cur # 0 => Cur \in Rows /\ att[Cur].status = CurStatus
      /\ CurStatus # "none" => Cur # 0
  BY RowFacts DEF CurStatus
<1>2. Cur # 0 /\ "verifying" \in {CurStatus, run.status} => att[Cur].started
  BY <1>1 DEF RowsInv, RowInv
<1>3. CASE Over
  <2>1. run.status # "running"
    BY <1>3 DEF Over, Terminal
  <2> QED
    BY <1>3, <2>1 DEF PicksUp
<1>4. CASE ~Over /\ Cur = 0
  <2>1. CurStatus = "none" /\ run.status # "verifying"
    BY <1>4 DEF CurStatus, RowsInv
  <2> QED
    BY <1>4, <2>1 DEF PicksUp, NeverQueued
<1>5. CASE ~Over /\ Cur # 0 /\ CurStatus = "done"
  BY <1>1, <1>5 DEF PicksUp, NeverQueued, Done
<1>6. CASE ~Over /\ Cur # 0 /\ CurStatus # "done" /\ "verifying" \in {CurStatus, run.status}
  <2>1. ~(NeverQueued /\ run.status = "running")
    BY <1>6 DEF NeverQueued
  <2>2. PicksUp = <<<<"verify", Cur>>>>
    BY <1>6, <2>1 DEF PicksUp
  <2> QED
    BY <1>1, <1>2, <1>6, <2>2
<1>7. CASE ~Over /\ Cur # 0 /\ CurStatus # "done" /\ "verifying" \notin {CurStatus, run.status}
  <2>1. PicksUp = <<>> \/ (NeverQueued /\ PicksUp = <<<<"requeue", Cur>>>>)
    BY <1>7 DEF PicksUp
  <2> QED
    BY <1>1, <1>7, <2>1
<1> QED
  BY <1>3, <1>4, <1>5, <1>6, <1>7

LEMMA BootChain ==
  ASSUME TypeOK, RowsInv, Grew, Boot
  PROVE  /\ chain' \in Seq(Items) /\ Len(chain') \in Nat
         /\ \A i \in 1 .. Len(chain') : ItemOf(att', chain'[i])
         /\ \A i \in 1 .. Len(chain') :
               \/ i <= Len(Reclaimed) /\ chain'[i][1] = "settled"
               \/ i = Len(Reclaimed) + 1 /\ PicksUp # <<>> /\ chain'[i] = PicksUp[1] /\ Len(PicksUp) = 1
         /\ \A i \in 1 .. Len(Reclaimed) : \E a \in Rows : /\ att[a].status # "none"
                                                           /\ chain'[i] = <<"settled", a, "reclaimed">>
<1>1. /\ Reclaimed \in Seq(Items) /\ Len(Reclaimed) \in Nat
      /\ \A i \in 1 .. Len(Reclaimed) : \E a \in Rows : /\ task[a] \in {"claimed", "running", "held"}
                                                        /\ Reclaimed[i] = <<"settled", a, "reclaimed">>
  BY ReclaimedFacts
<1>2. \A i \in 1 .. Len(Reclaimed) : \E a \in Rows : /\ att[a].status # "none"
                                                     /\ Reclaimed[i] = <<"settled", a, "reclaimed">>
  BY <1>1 DEF RowsInv, RowInv
<1>3. PicksUp = <<>> \/ \E x \in Items : PicksUp = <<x>> /\ ItemOf(att', x)
  <2>1. CASE PicksUp = <<>>
    BY <2>1
  <2>2. CASE Cur = 0 /\ PicksUp = <<<<"prepare">>>>
    <3>1. <<"prepare">> \in Items
      BY IsItem DEF Plain
    <3>2. ItemOf(att', <<"prepare">>)
      BY DEF ItemOf
    <3> QED
      BY <2>2, <3>1, <3>2
  <2>3. ASSUME NEW c \in Rows, NEW kind \in {"after", "verify", "requeue"}, PicksUp = <<<<kind, c>>>>, ItemOf(att', <<kind, c>>)
        PROVE  \E x \in Items : PicksUp = <<x>> /\ ItemOf(att', x)
    <3>1. <<kind, c>> \in Items
      BY IsItem DEF OfRow
    <3> QED
      BY <2>3, <3>1
  <2>4. CASE Cur \in Rows /\ Done(Cur) /\ PicksUp = <<<<"after", Cur>>>>
    <3>1. PICK c \in Rows : c = Cur
      BY <2>4
    <3>2. ItemOf(att', <<"after", c>>)
      BY <2>4, <3>1 DEF Grew, ItemOf
    <3> QED
      BY <2>3, <2>4, <3>1, <3>2
  <2>5. CASE Cur \in Rows /\ att[Cur].started /\ PicksUp = <<<<"verify", Cur>>>>
    <3>1. PICK c \in Rows : c = Cur
      BY <2>5
    <3>2. ItemOf(att', <<"verify", c>>)
      BY <2>5, <3>1 DEF Grew, ItemOf
    <3> QED
      BY <2>3, <2>5, <3>1, <3>2
  <2>6. CASE ~Over /\ Cur \in Rows /\ NeverQueued /\ PicksUp = <<<<"requeue", Cur>>>>
    <3>1. PICK c \in Rows : c = Cur
      BY <2>6
    <3>2. att'[c].status = "done"
      <4>1. att' = [att EXCEPT ![c].status = "done", ![c].result = "stopped"]
        BY <2>6, <3>1 DEF Boot, Rows
      <4>2. att \in [Rows -> AttemptRows]
        BY DEF TypeOK
      <4>3. att[c] \in AttemptRows
        BY <4>2
      <4> QED
        BY <4>1, <4>2, <4>3 DEF AttemptRows
    <3>3. ItemOf(att', <<"requeue", c>>)
      BY <3>2 DEF ItemOf
    <3> QED
      BY <2>3, <2>6, <3>1, <3>3
  <2> QED
    BY <2>1, <2>2, <2>4, <2>5, <2>6, PicksUpFacts
<1>4. PicksUp \in Seq(Items) /\ Len(PicksUp) \in {0, 1} /\ (PicksUp # <<>> => Len(PicksUp) = 1 /\ ItemOf(att', PicksUp[1]))
  <2>1. CASE PicksUp = <<>>
    BY <2>1
  <2>2. CASE \E x \in Items : PicksUp = <<x>> /\ ItemOf(att', x)
    <3>1. PICK x \in Items : PicksUp = <<x>> /\ ItemOf(att', x)
      BY <2>2
    <3>2. <<x>> \in Seq(Items) /\ Len(<<x>>) = 1 /\ <<x>>[1] = x
      OBVIOUS
    <3> QED
      BY <3>1, <3>2
  <2> QED
    BY <1>3, <2>1, <2>2
<1>5. chain' = Reclaimed \o PicksUp
  BY DEF Boot
<1>6. /\ chain' \in Seq(Items) /\ Len(chain') = Len(Reclaimed) + Len(PicksUp)
      /\ \A i \in 1 .. Len(Reclaimed) + Len(PicksUp) :
            chain'[i] = IF i <= Len(Reclaimed) THEN Reclaimed[i] ELSE PicksUp[i - Len(Reclaimed)]
  BY <1>1, <1>4, <1>5, ConcatProperties
<1>7. \A i \in 1 .. Len(Reclaimed) : chain'[i] = Reclaimed[i]
  BY <1>1, <1>4, <1>6
<1>8. \A i \in 1 .. Len(chain') : i > Len(Reclaimed) =>
          i = Len(Reclaimed) + 1 /\ PicksUp # <<>> /\ chain'[i] = PicksUp[1] /\ Len(PicksUp) = 1
  <2> SUFFICES ASSUME NEW i \in 1 .. Len(chain'), i > Len(Reclaimed)
               PROVE  i = Len(Reclaimed) + 1 /\ PicksUp # <<>> /\ chain'[i] = PicksUp[1] /\ Len(PicksUp) = 1
    OBVIOUS
  <2>1. Len(PicksUp) = 1
    BY <1>1, <1>4, <1>6
  <2>2. i = Len(Reclaimed) + 1 /\ i - Len(Reclaimed) = 1
    BY <2>1, <1>1, <1>6
  <2>3. PicksUp # <<>>
    BY <2>1
  <2>4. chain'[i] = PicksUp[i - Len(Reclaimed)]
    BY <1>1, <1>6
  <2> QED
    BY <2>1, <2>2, <2>3, <2>4
<1>9. \A i \in 1 .. Len(Reclaimed) : ItemOf(att', chain'[i])
  <2> SUFFICES ASSUME NEW i \in 1 .. Len(Reclaimed) PROVE ItemOf(att', chain'[i])
    OBVIOUS
  <2>1. PICK a \in Rows : att[a].status # "none" /\ chain'[i] = <<"settled", a, "reclaimed">>
    BY <1>2, <1>7
  <2> QED
    BY <2>1 DEF ItemOf, Grew
<1>10. Len(chain') \in Nat
  BY <1>1, <1>4, <1>6
<1>11. \A i \in 1 .. Len(Reclaimed) : chain'[i][1] = "settled"
  BY <1>2, <1>7
<1>12. \A i \in 1 .. Len(chain') : i <= Len(Reclaimed) => i \in 1 .. Len(Reclaimed)
  BY <1>1, <1>10
<1>13. \A i \in 1 .. Len(chain') : i <= Len(Reclaimed) \/ i > Len(Reclaimed)
  BY <1>1, <1>10
<1> QED
  BY <1>2, <1>4, <1>6, <1>7, <1>8, <1>9, <1>10, <1>11, <1>12, <1>13

LEMMA TailFacts ==
  ASSUME TypeOK, chain # <<>>
  PROVE  /\ Tail(chain) \in Seq(Items) /\ Len(Tail(chain)) = Len(chain) - 1 /\ Len(chain) \in Nat
         /\ \A i \in 1 .. Len(Tail(chain)) : i + 1 \in Spots /\ Tail(chain)[i] = chain[i + 1]
<1>1. chain \in Seq(Items)
  BY DEF TypeOK
<1>2. /\ Tail(chain) \in Seq(Items) /\ Len(Tail(chain)) = Len(chain) - 1
      /\ \A i \in 1 .. Len(Tail(chain)) : Tail(chain)[i] = chain[i + 1]
  BY <1>1, HeadTailProperties
<1>3. Len(chain) \in Nat
  BY <1>1
<1> QED
  BY <1>2, <1>3 DEF Spots

LEMMA ItemsStep ==
  ASSUME TypeOK, RowsInv, ItemsInv, PlaceInv, Next
  PROVE  chain' \in Seq(Items) /\ ItemsInv'
<1>1. Grew /\ chain \in Seq(Items)
  BY GrewStep DEF TypeOK
<1>2. Len(chain) \in Nat /\ \A i \in Spots : chain[i] \in Items
  BY <1>1, ElementOfSeq DEF Spots
<1>3. \A i \in Spots : ItemOf(att', chain[i])
  BY <1>1, <1>2, ItemsKept DEF ItemsInv
<1>4. ASSUME NEW s \in Seq(Items), Longer(s), \A i \in 1 .. Len(s) : ItemOf(att', s[i])
      PROVE  chain' \in Seq(Items) /\ ItemsInv'
  <2>1. /\ chain' \in Seq(Items) /\ Len(s) \in Nat /\ Len(chain') \in Nat /\ Len(chain') >= Len(s)
        /\ \A i \in 1 .. Len(s) : chain'[i] = s[i]
        /\ \A i \in 1 .. Len(chain') : i > Len(s) => Fit(chain'[i])
    BY <1>4, LongerFacts
  <2>2. \A i \in 1 .. Len(chain') : i > Len(s) \/ i \in 1 .. Len(s)
    BY <2>1
  <2>3. \A i \in 1 .. Len(chain') : ItemOf(att', chain'[i])
    BY <1>4, <2>1, <2>2 DEF Fit
  <2> QED
    BY <2>1, <2>3 DEF ItemsInv, ItemInv, Spots
<1>5. CASE Longer(chain)
  BY <1>1, <1>3, <1>4, <1>5 DEF Spots
<1>6. ASSUME NEW kind, Takes(kind), Longer(Tail(chain))
      PROVE  chain' \in Seq(Items) /\ ItemsInv'
  <2>1. chain # <<>>
    BY <1>6 DEF Takes
  <2>2. \A i \in 1 .. Len(Tail(chain)) : ItemOf(att', Tail(chain)[i])
    BY <1>3, <2>1, TailFacts
  <2> QED
    BY <1>4, <1>6, <2>1, <2>2, TailFacts
<1>7. CASE Exit
  BY <1>7 DEF Exit, ItemsInv, Spots
<1>8. CASE Boot
  BY <1>1, <1>8, BootChain DEF ItemsInv, ItemInv, Spots
<1> QED
  BY <1>5, <1>6, <1>7, <1>8, ChainStep

\* Only who waits for a fresh start minds what comes before.
Settled(i) == chain[i][1] \notin {"prepare", "requeue"}
FirstOf(i) ==
    /\ chain[i][1] = "prepare" => i = 1 /\ pc = <<"idle">> /\ Cur = 0
    /\ chain[i][1] = "requeue" =>
          /\ pc = <<"idle">> /\ chain[i][2] = Cur
          /\ \A j \in 1 .. i - 1 : chain[j][1] = "settled" /\ Done(chain[j][2])

LEMMA FirstStep ==
  ASSUME TypeOK, RowsInv, ItemsInv, FirstInv, PlaceInv, Next
  PROVE  FirstInv'
<1>1. Grew /\ chain \in Seq(Items) /\ chain' \in Seq(Items) /\ pc \in Places
  BY GrewStep, ItemsStep DEF TypeOK
<1>2. Len(chain) \in Nat /\ Len(chain') \in Nat /\ \A i \in Spots : chain[i] \in Items /\ FirstOf(i)
  BY <1>1, ElementOfSeq DEF Spots, FirstInv, FirstOf
<1>3. (\A i \in 1 .. Len(chain') : chain'[i][1] \notin {"prepare", "requeue"}) => FirstInv'
  BY DEF FirstInv, Spots
<1>4. pc # <<"idle">> => \A i \in Spots : Settled(i)
  BY <1>2 DEF FirstOf, Settled
<1>5. Cur' = Cur \/ pc[1] = "start"
  BY GrewStep DEF Start, At
<1>6. ASSUME NEW s \in Seq(Items), Longer(s), \A i \in 1 .. Len(s) : s[i][1] \notin {"prepare", "requeue"}
      PROVE  FirstInv'
  <2>1. /\ Len(s) \in Nat /\ Len(chain') \in Nat
        /\ \A i \in 1 .. Len(s) : chain'[i] = s[i]
        /\ \A i \in 1 .. Len(chain') : i > Len(s) => Fit(chain'[i])
    BY <1>6, LongerFacts
  <2>2. \A i \in 1 .. Len(chain') : i > Len(s) \/ i \in 1 .. Len(s)
    BY <2>1
  <2> QED
    BY <1>3, <1>6, <2>1, <2>2 DEF Fit
<1>7. \A i \in Spots : chain[i][1] = "settled" /\ Done(chain[i][2]) => att'[chain[i][2]].status = "done"
  BY <1>1, <1>2, ItemArgs DEF Grew
<1>8. CASE Longer(chain) /\ pc # <<"idle">>
  BY <1>1, <1>4, <1>6, <1>8 DEF Settled, Spots
<1>9. CASE Longer(chain) /\ pc' = pc /\ pc = <<"idle">>
  <2>1. Cur' = Cur
    BY <1>5, <1>9
  <2>2. /\ Len(chain') >= Len(chain)
        /\ \A i \in 1 .. Len(chain) : chain'[i] = chain[i]
        /\ \A i \in 1 .. Len(chain') : i > Len(chain) => Fit(chain'[i])
    BY <1>1, <1>9, LongerFacts
  <2>3. ASSUME NEW i \in 1 .. Len(chain') PROVE FirstOf(i)'
    <3>1. CASE i > Len(chain)
      BY <2>2, <3>1 DEF Fit, FirstOf
    <3>2. CASE i <= Len(chain)
      <4>1. i \in Spots /\ chain'[i] = chain[i] /\ FirstOf(i)
        BY <1>2, <2>2, <2>3, <3>2 DEF Spots
      <4>2. \A j \in 1 .. i - 1 : j \in Spots /\ chain'[j] = chain[j]
        BY <1>2, <2>2, <4>1 DEF Spots
      <4>3. chain[i][1] = "requeue" => \A j \in 1 .. i - 1 : chain'[j][1] = "settled" /\ att'[chain'[j][2]].status = "done"
        BY <1>7, <4>1, <4>2 DEF FirstOf, Done
      <4> QED
        BY <1>9, <2>1, <4>1, <4>3 DEF FirstOf, Done
    <3> QED
      BY <1>2, <2>3, <3>1, <3>2
  <2> QED
    BY <2>3 DEF FirstInv, FirstOf, Spots
<1>10. ASSUME NEW kind, Takes(kind), Longer(Tail(chain)), ~(kind = "settled" /\ Done(Head1[2]))
       PROVE  FirstInv'
  <2>1. chain # <<>> /\ Head1 = chain[1] /\ Head1[1] = kind /\ 1 \in Spots
    BY <1>10, HeadFacts
  <2>2. ASSUME NEW i \in 1 .. Len(Tail(chain)) PROVE Tail(chain)[i][1] \notin {"prepare", "requeue"}
    <3>1. i + 1 \in Spots /\ Tail(chain)[i] = chain[i + 1] /\ i + 1 # 1 /\ 1 \in 1 .. (i + 1) - 1
      BY <2>1, <2>2, TailFacts
    <3>2. FirstOf(i + 1)
      BY <1>2, <3>1
    <3> QED
      BY <1>10, <2>1, <3>1, <3>2 DEF FirstOf
  <2>3. Tail(chain) \in Seq(Items)
    BY <2>1, TailFacts
  <2> QED
    BY <1>6, <1>10, <2>2, <2>3
<1>11. ASSUME Takes("settled"), Longer(Tail(chain)), pc' = pc
       PROVE  FirstInv'
  <2>1. chain # <<>> /\ pc = <<"idle">>
    BY <1>11, HeadFacts
  <2>2. Cur' = Cur
    BY <1>5, <2>1
  <2> DEFINE s == Tail(chain)
  <2>3. /\ s \in Seq(Items) /\ Len(s) = Len(chain) - 1
        /\ \A i \in 1 .. Len(s) : i + 1 \in Spots /\ s[i] = chain[i + 1]
    BY <2>1, TailFacts
  <2> HIDE DEF s
  <2>4. /\ Len(s) \in Nat /\ \A i \in 1 .. Len(s) : chain'[i] = s[i]
        /\ \A i \in 1 .. Len(chain') : i > Len(s) => Fit(chain'[i])
    BY <1>11, <2>3, LongerFacts DEF s
  <2>5. ASSUME NEW i \in 1 .. Len(chain') PROVE FirstOf(i)'
    <3>1. CASE i > Len(s)
      BY <2>4, <2>5, <3>1 DEF Fit, FirstOf
    <3>2. CASE i <= Len(s)
      <4>1. i \in 1 .. Len(s) /\ i \in Nat
        BY <1>2, <2>4, <2>5, <3>2
      <4>2. i + 1 \in Spots /\ chain'[i] = chain[i + 1] /\ FirstOf(i + 1)
        BY <1>2, <2>3, <2>4, <4>1
      <4>3. \A j \in 1 .. i - 1 : j \in 1 .. Len(s) /\ j + 1 \in 1 .. (i + 1) - 1
        BY <2>4, <4>1
      <4>4. \A j \in 1 .. i - 1 : j + 1 \in Spots /\ chain'[j] = chain[j + 1]
        BY <2>3, <2>4, <4>3
      <4>5. chain[i + 1][1] = "requeue" => \A j \in 1 .. i - 1 : chain'[j][1] = "settled" /\ att'[chain'[j][2]].status = "done"
        BY <1>7, <4>2, <4>3, <4>4 DEF FirstOf, Done
      <4>6. chain[i + 1][1] # "prepare"
        BY <4>1, <4>2 DEF FirstOf
      <4> QED
        BY <1>11, <2>1, <2>2, <4>2, <4>5, <4>6 DEF FirstOf, Done
    <3> QED
      BY <1>2, <2>4, <2>5, <3>1, <3>2
  <2> QED
    BY <2>5 DEF FirstInv, FirstOf, Spots
<1>12. CASE Exit
  BY <1>12 DEF Exit, FirstInv, Spots
<1>13. CASE Boot
  <2>1. pc = <<"idle">> /\ pc' = pc
    BY <1>13 DEF Boot, PlaceInv
  <2>2. Cur' = Cur
    BY <1>5, <2>1
  <2>3. /\ \A i \in 1 .. Len(chain') :
               \/ i <= Len(Reclaimed) /\ chain'[i][1] = "settled"
               \/ i = Len(Reclaimed) + 1 /\ PicksUp # <<>> /\ chain'[i] = PicksUp[1] /\ Len(PicksUp) = 1
        /\ \A i \in 1 .. Len(Reclaimed) : \E a \in Rows : /\ att[a].status # "none"
                                                          /\ chain'[i] = <<"settled", a, "reclaimed">>
    BY <1>1, <1>13, BootChain
  <2>4. Len(Reclaimed) \in Nat
    BY ReclaimedFacts
  <2>5. ASSUME NEW i \in 1 .. Len(chain') PROVE FirstOf(i)'
    <3>1. CASE i <= Len(Reclaimed) /\ chain'[i][1] = "settled"
      BY <3>1 DEF FirstOf
    <3>2. CASE i = Len(Reclaimed) + 1 /\ PicksUp # <<>> /\ chain'[i] = PicksUp[1]
      <4>1. CASE Cur = 0 /\ PicksUp = <<<<"prepare">>>>
        <5>1. Len(Reclaimed) = 0
          <6>1. \A a \in Rows : att[a].status = "none"
            BY <4>1, RowFacts DEF Rows
          <6>2. Len(Reclaimed) # 0 => 1 \in 1 .. Len(Reclaimed)
            BY <2>4
          <6> QED
            BY <2>3, <6>1, <6>2
        <5> QED
          BY <2>1, <2>2, <3>2, <4>1, <5>1 DEF FirstOf
      <4>2. CASE Cur \in Rows /\ NeverQueued /\ ~Over /\ PicksUp = <<<<"requeue", Cur>>>>
        <5>1. PICK c \in Rows : c = Cur
          BY <4>2
        <5>2. att'[c].status = "done"
          <6>1. att' = [att EXCEPT ![c].status = "done", ![c].result = "stopped"]
            BY <1>13, <4>2, <5>1 DEF Boot, Rows
          <6>2. att \in [Rows -> AttemptRows]
            BY DEF TypeOK
          <6>3. att[c] \in AttemptRows
            BY <6>2
          <6> QED
            BY <6>1, <6>2, <6>3 DEF AttemptRows
        <5>3. \A a \in Rows : att[a].status # "none" => att'[a].status = "done"
          BY <1>1, <5>1, <5>2, RowFacts DEF Grew
        <5>4. \A j \in 1 .. i - 1 : chain'[j][1] = "settled" /\ att'[chain'[j][2]].status = "done"
          <6>1. \A j \in 1 .. i - 1 : j \in 1 .. Len(Reclaimed)
            BY <2>4, <3>2
          <6> QED
            BY <2>3, <5>3, <6>1 DEF Done
        <5>5. chain'[i] = <<"requeue", c>>
          BY <3>2, <4>2, <5>1
        <5> QED
          BY <2>1, <2>2, <5>1, <5>4, <5>5 DEF FirstOf, Done
      <4>3. CASE PicksUp = <<<<"after", Cur>>>> \/ PicksUp = <<<<"verify", Cur>>>>
        BY <3>2, <4>3 DEF FirstOf
      <4> QED
        BY <3>2, <4>1, <4>2, <4>3, PicksUpFacts
    <3> QED
      BY <2>3, <2>5, <3>1, <3>2
  <2> QED
    BY <2>5 DEF FirstInv, FirstOf, Spots
<1>14. pc[1] = "idle" <=> pc = <<"idle">>
  BY <1>1, PlaceArgs
<1> QED
  BY <1>8, <1>9, <1>10, <1>11, <1>12, <1>13, <1>14, ChainStep

-----------------------------------------------------------------------------
(* What is so of the run and its last attempt wherever the executing item is.  *)

LEMMA PlaceIdle ==
  ASSUME pc' = <<"idle">>, up' \/ workers' = {}
  PROVE  pc' \in Places /\ PlaceInv'
<1>1. pc'[1] = "idle"
  OBVIOUS
<1> QED
  BY <1>1, IsPlace DEF PlaceInv, Bare, Ending, Unguarded

LEMMA PlaceReleasing ==
  ASSUME NEW own \in BOOLEAN, pc' = <<"release", own>>, run'.status \in Terminal, up'
  PROVE  pc' \in Places /\ PlaceInv'
<1>1. pc'[1] = "release"
  OBVIOUS
<1> QED
  BY <1>1, IsPlace DEF PlaceInv, Over, Ending, Unguarded

LEMMA PlaceStays ==
  ASSUME TypeOK, PlaceInv, pc' = pc, up' = up, workers' = workers, run'.worker = run.worker, Over' = Over,
         \A a \in Rows : /\ att'[a].status = att[a].status /\ att'[a].result = att[a].result
                         /\ att'[a].started = att[a].started /\ att'[a].tree = att[a].tree,
         Cur \in Rows \cup {0}
  PROVE  pc' \in Places /\ PlaceInv'
<1>1. pc \in Places
  BY DEF TypeOK
<1>2. Cur' = Cur
  BY CurKept
<1>3. CurStatus' = CurStatus
  BY <1>2 DEF CurStatus, Rows
<1>4. /\ pc[1] \in AtRow \cup AtWorker \cup {"checks"} => pc[2] \in Rows
  BY <1>1, PlaceArgs
<1>5. Cur = 0 \/ Cur \in Rows
  OBVIOUS
<1> QED
  BY <1>1, <1>2, <1>3, <1>4, <1>5 DEF PlaceInv, Done, AtRow, AtWorker

LEMMA UpStep ==
  ASSUME Next, up, ~up'
  PROVE  Exit
<1> USE DEF Quiet, At
<1>1. CASE Steps
  BY <1>1 DEF Steps, histVars, TakePrepare, Prepared, Baselined, Start, Enqueue, Record, TakeSpawn, GiveBack,
     Replaced, Created, Go, Sent, TakeSettled, LostStopped, TakeWaiting, TakeMoved, TakeVerify, Verify, Verifying,
     Quiesced, Snapshot, Checked, TakeAfter, TakeRequeue, After, Committed, Release, TakeCancel, StopWork, Drained,
     TakeCarryOn, TakeAnswer
<1>2. CASE Cancel \/ Pause \/ Resume \/ Steer \/ StopDaemon \/ Exit \/ Boot
  BY <1>2 DEF Cancel, Pause, Resume, Steer, StopDaemon, Boot
<1>3. CASE \E a \in Rows : Claim(a) \/ TaskSettles(a) \/ Lapses(a) \/ DeadlineFires(a)
  BY <1>3 DEF Claim, TaskSettles, Lapses, DeadlineFires
<1>4. CASE \E s \in Workers : WorkerWorks(s) \/ WorkerReports(s) \/ WorkerWaits(s) \/ WorkerApproved(s) \/ WorkerEnds(s)
  BY <1>4 DEF WorkerWorks, WorkerReports, WorkerWaits, WorkerApproved, WorkerEnds
<1> QED
  BY <1>1, <1>2, <1>3, <1>4 DEF Next

LEMMA QuietPlace ==
  ASSUME TypeOK, RowsInv, ItemsInv, PlaceInv, Next,
         \/ Cancel \/ Pause \/ Resume \/ Steer \/ StopDaemon
         \/ \E a \in Rows : Claim(a) \/ TaskSettles(a) \/ Lapses(a) \/ DeadlineFires(a)
         \/ \E s \in Workers : WorkerWorks(s) \/ WorkerReports(s) \/ WorkerWaits(s) \/ WorkerApproved(s) \/ WorkerEnds(s)
  PROVE  pc' \in Places /\ PlaceInv'
<1>1. pc' = pc /\ up' = up /\ workers' = workers
  <2>1. CASE Cancel \/ Pause \/ Resume \/ Steer \/ StopDaemon
    BY <2>1 DEF Cancel, Pause, Resume, Steer, StopDaemon
  <2>2. CASE \E a \in Rows : Claim(a) \/ TaskSettles(a) \/ Lapses(a) \/ DeadlineFires(a)
    BY <2>2 DEF Claim, TaskSettles, Lapses, DeadlineFires
  <2>3. CASE \E s \in Workers : WorkerWorks(s) \/ WorkerReports(s) \/ WorkerWaits(s) \/ WorkerApproved(s) \/ WorkerEnds(s)
    BY <2>3 DEF WorkerWorks, WorkerReports, WorkerWaits, WorkerApproved, WorkerEnds
  <2> QED
    BY <2>1, <2>2, <2>3
<1>2. \A a \in Rows : /\ att'[a].status = att[a].status /\ att'[a].result = att[a].result
                      /\ att'[a].started = att[a].started /\ att'[a].tree = att[a].tree
  <2>1. CASE att' = att
    BY <2>1
  <2>2. CASE \E s \in Workers : WorkerReports(s)
    <3>1. PICK report : att' = [att EXCEPT ![Cur].report = report]
      BY <2>2 DEF WorkerReports
    <3>2. att \in [Rows -> AttemptRows]
      BY DEF TypeOK
    <3> SUFFICES ASSUME NEW a \in Rows
                 PROVE  /\ att'[a].status = att[a].status /\ att'[a].result = att[a].result
                        /\ att'[a].started = att[a].started /\ att'[a].tree = att[a].tree
      OBVIOUS
    <3>3. att[a] \in AttemptRows
      BY <3>2
    <3>4. att'[a] = att[a] \/ att'[a] = [att[a] EXCEPT !.report = report]
      BY <3>1, <3>2
    <3> QED
      BY <3>3, <3>4 DEF AttemptRows
  <2>3. Cancel \/ Pause \/ Resume \/ Steer \/ StopDaemon => att' = att
    BY DEF Cancel, Pause, Resume, Steer, StopDaemon, rowVars
  <2>4. (\E a \in Rows : Claim(a) \/ TaskSettles(a) \/ Lapses(a) \/ DeadlineFires(a)) => att' = att
    BY DEF Claim, TaskSettles, Lapses, DeadlineFires, rowVars
  <2>5. (\E s \in Workers : WorkerWorks(s) \/ WorkerWaits(s) \/ WorkerApproved(s) \/ WorkerEnds(s)) => att' = att
    BY DEF WorkerWorks, WorkerWaits, WorkerApproved, WorkerEnds, rowVars
  <2> QED
    BY <2>1, <2>2, <2>3, <2>4, <2>5
<1>3. run' = run \/ (Pause \/ Resume \/ Steer)
  BY DEF Cancel, StopDaemon, Claim, TaskSettles, Lapses, DeadlineFires, WorkerWorks, WorkerReports, WorkerWaits,
     WorkerApproved, WorkerEnds, rowVars
<1>4. run'.worker = run.worker /\ Over' = Over
  <2>1. CASE run' = run
    BY <2>1 DEF Over
  <2>2. CASE Pause \/ Resume \/ Steer
    <3>1. run \in RunRows
      BY DEF TypeOK
    <3>2. \/ run' = run
          \/ ~Over /\ (run' = [run EXCEPT !.status = "paused"] \/ run' = [run EXCEPT !.steer = TRUE])
          \/ /\ run.status = "paused"
             /\ \/ run' = [run EXCEPT !.status = "waiting"]
                \/ run' = [run EXCEPT !.status = "running", !.waitingOn = "none"]
      BY <2>2 DEF Pause, Resume, Steer
    <3>3. run'.worker = run.worker
      BY <3>1, <3>2 DEF RunRows
    <3>4. run'.status = run.status \/ (run.status \notin Terminal /\ run'.status \in {"paused", "waiting", "running"})
      BY <3>1, <3>2 DEF RunRows, Over, Terminal
    <3> QED
      BY <3>3, <3>4 DEF Over, Terminal
  <2> QED
    BY <1>3, <2>1, <2>2
<1>5. Cur \in Rows \cup {0}
  BY RowFacts
<1> QED
  BY <1>1, <1>2, <1>4, <1>5, PlaceStays

LEMMA OverStep ==
  ASSUME TypeOK, RowsInv, PlaceInv, Next
  PROVE  /\ Over => run'.status \in Terminal
         /\ ~Over /\ pc'[1] \notin {"release", "stopWork"} => run'.status \notin Terminal
<1>1. RunMoves
  BY RunStep
<1>2. pc' = <<"release", FALSE>> => pc'[1] = "release"
  OBVIOUS
<1>3. pc' = <<"stopWork">> => pc'[1] = "stopWork"
  OBVIOUS
<1>4. Over => run'.status \in Terminal
  BY <1>1 DEF RunMoves, Over
<1>5. ~Over /\ run'.status \in Terminal => pc' = <<"release", FALSE>> \/ pc' = <<"stopWork">>
  BY <1>1 DEF RunMoves
<1> QED
  BY <1>2, <1>3, <1>4, <1>5

\* Everything that is read of the run and the last attempt at a place.
LEMMA PlaceStep ==
  ASSUME TypeOK, RowsInv, ItemsInv, FirstInv, PlaceInv, Next
  PROVE  pc' \in Places /\ PlaceInv'
<1> DEFINE Goal == pc' \in Places /\ PlaceInv'
<1>1. Grew /\ (Cur' = Cur \/ Start) /\ pc \in Places /\ RunMoves /\ RowsInv'
  BY GrewStep, RunStep, RowsStep DEF TypeOK
<1>2. /\ Cur # 0 => Cur \in Rows /\ att[Cur].status = CurStatus
      /\ CurStatus # "none" => Cur # 0 /\ att[Cur].status = CurStatus
      /\ \A a \in Rows : att[a].status # "none" /\ ~Done(a) => a = Cur
      /\ 0 \notin Rows /\ Cur \in Nat
  BY RowFacts DEF CurStatus, Rows
<1>3. up' \/ Exit \/ ~up
  BY UpStep
<1>4. pc' = <<"idle">> /\ up' => Goal
  BY PlaceIdle
<1>5. \A own \in BOOLEAN : pc' = <<"release", own>> /\ run'.status \in Terminal /\ up' => Goal
  BY PlaceReleasing
<1>6. \A place : At(place) => up /\ pc[1] = place
  BY DEF At
<1>7. \A place \in AtRow \cup AtWorker \cup {"checks"} : At(place) => A \in Rows
  BY <1>1, PlaceArgs DEF At, A
<1>8. /\ Over => run'.status \in Terminal
      /\ ~Over /\ pc'[1] \notin {"release", "stopWork"} => run'.status \notin Terminal
  BY OverStep
<1>9. \A r, status : status \in {"failed", "blocked", "budget_exhausted", "cancelled", "completed"} /\ r \in RunRows /\ Ends(r, status)
         => run'.status \in Terminal
  BY EndsTyped DEF Terminal
<1>10. run \in RunRows /\ [run EXCEPT !.prepared = TRUE] \in RunRows
  BY DEF TypeOK, RunRows
<1>11. \A status \in {"failed", "blocked", "budget_exhausted", "cancelled", "completed"} :
          End(status) /\ up' => Goal
  BY <1>5, <1>9, <1>10 DEF End, Goes
<1>12. \A r \in RunRows : Baseline(r) /\ up' /\ ~Over /\ Cur' = 0 => Goal
  <2> SUFFICES ASSUME NEW r \in RunRows, Baseline(r), up', ~Over, Cur' = 0 PROVE Goal
    OBVIOUS
  <2>1. CASE pc' = <<"baseline">>
    <3>1. pc'[1] = "baseline"
      BY <2>1
    <3> QED
      BY <1>8, <2>1, <3>1, IsPlace DEF PlaceInv, Over, Bare, Ending, Unguarded
  <2>2. CASE Ends(r, "failed") /\ pc' = <<"release", FALSE>>
    BY <1>5, <1>9, <2>2
  <2> QED
    BY <2>1, <2>2 DEF Baseline, Checking, Goes
<1>13. PrepareAgain /\ up' /\ Cur' = 0 => Goal
  <2>1. pc' = <<"prepare">> /\ ~Over /\ up' /\ Cur' = 0 => Goal
    <3> SUFFICES ASSUME pc' = <<"prepare">>, ~Over, up', Cur' = 0 PROVE Goal
      OBVIOUS
    <3>1. pc'[1] = "prepare"
      OBVIOUS
    <3> QED
      BY <1>8, <3>1, IsPlace DEF PlaceInv, Over, Bare, Ending, Unguarded
  <2> HIDE DEF Goal
  <2>2. ASSUME PrepareAgain, up', Cur' = 0 PROVE Goal
    <3>1. \/ pc' = <<"idle">>
          \/ ~Over /\ pc' = <<"prepare">>
          \/ ~Over /\ Baseline(run)
      BY <2>2, Zenon DEF PrepareAgain, Checking, Idles, Goes
    <3> QED
      BY <1>4, <1>10, <1>12, <2>1, <2>2, <3>1
  <2> QED
    BY <2>2
<1>14. ASSUME NEW a \in Rows, att'[a].status = "done", pc' = <<"after", a>>, up'
       PROVE  Goal
  <2>1. pc'[1] = "after" /\ pc'[2] = a
    BY <1>14
  <2> QED
    BY <1>14, <2>1, IsPlace DEF PlaceInv, Done, AtRow, Ending, Unguarded
<1>15. ASSUME NEW a \in Rows, att'[a].started, pc' = <<"verify", a>>, up'
       PROVE  Goal
  <2>1. pc'[1] = "verify" /\ pc'[2] = a
    BY <1>15
  <2> QED
    BY <1>15, <2>1, IsPlace DEF PlaceInv, AtRow, Ending, Unguarded
<1>16. ASSUME NEW a \in Rows, NEW again \in BOOLEAN, a = Cur', att'[a].status = "done", pc' = <<"start", a, again>>, up',
              again \/ att'[a].started \/ att'[a].result = "worker_failed"
       PROVE  Goal
  <2>1. pc'[1] = "start" /\ pc'[2] = a /\ pc'[3] = again
    BY <1>16
  <2>2. Cur' # 0
    BY <1>2, <1>16
  <2>3. pc' \in Places
    BY <1>16, IsPlace
  <2>4. pc'[3] \/ att'[Cur'].started \/ att'[Cur'].result = "worker_failed"
    BY <1>16, <2>1, Zenon
  <2>5. pc'[2] = Cur' /\ att'[Cur'].status = "done"
    BY <1>16, <2>1
  <2> QED
    BY <1>16, <2>1, <2>2, <2>3, <2>4, <2>5 DEF PlaceInv, Done, Ending, Unguarded
<1>17. ASSUME NEW a \in Rows, NEW place \in {"enqueue", "record", "giveBack", "replace", "create"},
              a = Cur', att'[a].status = "queued", pc' = <<place, a>>, up', ~Over
       PROVE  Goal
  <2>1. pc'[1] = place /\ pc'[2] = a
    BY <1>17
  <2>2. CurStatus' = "queued"
    BY <1>2, <1>17 DEF CurStatus
  <2> QED
    BY <1>8, <1>17, <2>1, <2>2, IsPlace DEF PlaceInv, AtRow, Ending, Unguarded, Over
<1>18. ASSUME NEW a \in Rows, NEW s \in Workers, s = run'.worker,
              a = Cur', att'[a].status = "queued", pc' = <<"go", a, s>>, up', ~Over
       PROVE  Goal
  <2>1. pc'[1] = "go" /\ pc'[2] = a /\ pc'[3] = s
    BY <1>18
  <2>2. CurStatus' = "queued"
    BY <1>2, <1>18 DEF CurStatus
  <2> QED
    BY <1>8, <1>18, <2>1, <2>2, IsPlace DEF PlaceInv, AtWorker, Ending, Unguarded, Over
<1>19. ASSUME NEW a \in Rows, a = Cur', att'[a].status = "verifying", pc' = <<"snapshot", a>>, up', ~Over
       PROVE  Goal
  <2>1. pc'[1] = "snapshot" /\ pc'[2] = a
    BY <1>19
  <2>2. CurStatus' = "verifying"
    BY <1>2, <1>19 DEF CurStatus
  <2> QED
    BY <1>8, <1>19, <2>1, <2>2, IsPlace DEF PlaceInv, AtRow, Ending, Unguarded, Over
<1>20. CASE TakePrepare
  <2>1. chain[1][1] = "prepare" /\ 1 \in Spots /\ up
    BY <1>20, HeadFacts DEF TakePrepare
  <2>2. Cur' = 0
    <3>1. att' = att /\ Cur = 0
      BY <1>20, <2>1 DEF TakePrepare, FirstInv
    <3> QED
      BY <1>2, <3>1, CurKept
  <2> QED
    BY <1>13, <1>20, <2>1, <2>2 DEF TakePrepare
<1>21. CASE TakeCarryOn
  <2>1. up' /\ att' = att /\ Cur' = Cur
    <3>1. att' = att /\ up' = up
      BY <1>21 DEF TakeCarryOn
    <3> QED
      BY <1>6, <1>21, <3>1, CurKept DEF TakeCarryOn, Takes
  <2>2. \/ pc' = <<"idle">>
        \/ Cur = 0 /\ PrepareAgain
        \/ Cur # 0 /\ CurStatus = "done" /\ pc' = <<"after", Cur>>
    BY <1>21 DEF TakeCarryOn, CarriesOn, Idles, Goes
  <2> QED
    BY <1>2, <1>4, <1>13, <1>14, <2>1, <2>2
<1>22. CASE Prepared \/ Baselined
  <2>1. Cur = 0 /\ ~Over /\ up
    BY <1>6, <1>22 DEF Prepared, Baselined, PlaceInv, Ending, Unguarded
  <2>2. up' /\ Cur' = 0
    <3>1. att' = att /\ up' = up
      BY <1>22 DEF Prepared, Baselined
    <3> QED
      BY <2>1, <3>1, CurKept
  <2>3. pc' = <<"start", 0, FALSE>> => Goal
    <3> SUFFICES ASSUME pc' = <<"start", 0, FALSE>> PROVE Goal
      OBVIOUS
    <3>1. pc'[1] = "start" /\ pc'[2] = 0
      OBVIOUS
    <3> QED
      BY <2>2, <3>1, IsPlace DEF PlaceInv, Ending, Unguarded
  <2>4. CASE Prepared
    BY <1>4, <1>10, <1>11, <1>12, <2>1, <2>2, <2>4 DEF Prepared, Idles, Goes
  <2>5. CASE Baselined
    BY <1>4, <1>11, <2>2, <2>3, <2>5 DEF Baselined, Idles, Goes
  <2> QED
    BY <1>22, <2>4, <2>5
<1>23. CASE Start
  <2>1. up'
    BY <1>23 DEF Start, At
  <2>2. CASE stopped \/ cancelling \/ Over \/ run.status = "paused"
    BY <1>4, <1>23, <2>1, <2>2 DEF Start, Idles, Goes
  <2>3. CASE ~(stopped \/ cancelling \/ Over \/ run.status = "paused")
    <3> DEFINE a == Cur + 1
    <3>1. /\ a \in Rows /\ att' = [att EXCEPT ![a] = [NoAttempt EXCEPT !.status = "queued", !.steer = Carries(A, pc[3])]]
          /\ pc' = <<"enqueue", a>>
      BY <1>23, <2>3 DEF Start, Goes
    <3>2. att'[a].status = "queued"
      BY <3>1 DEF NoAttempt, TypeOK
    <3>3. Cur' = a
      <4>1. \A b \in Rows \ {a} : att'[b] = att[b]
        BY <3>1 DEF TypeOK
      <4> QED
        BY <3>1, <3>2, <4>1, CurNext
    <3> QED
      BY <1>17, <2>1, <2>3, <3>1, <3>2, <3>3
  <2> QED
    BY <2>2, <2>3
<1>24. CASE Enqueue
  <2>1. up' /\ A = Cur /\ att[A].status = "queued" /\ A \in Rows /\ ~Over
    BY <1>2, <1>6, <1>7, <1>24 DEF Enqueue, PlaceInv, A, AtRow, Ending, Unguarded
  <2>2. CASE End("failed")
    BY <1>11, <2>1, <2>2
  <2>3. CASE att' = att /\ pc' = <<"record", A>>
    <3>1. Cur' = Cur
      BY <2>3, CurKept
    <3> QED
      BY <1>17, <2>1, <2>3, <3>1
  <2> QED
    BY <1>24, <2>2, <2>3 DEF Enqueue, rowVars, Goes
<1>25. CASE Record \/ GiveBack \/ Sent \/ Release
  BY <1>4, <1>25 DEF Record, GiveBack, Sent, Release, At, Idles, Goes
<1>26. CASE TakeSpawn
  <2> DEFINE a == Head1[2]
  <2>1. a \in Rows /\ up' /\ up /\ pc = <<"idle">>
    <3>1. Takes("spawn") /\ up' = up
      BY <1>26 DEF TakeSpawn
    <3> QED
      BY <3>1, HeadFacts DEF OfRow
  <2>2. \/ pc' = <<"idle">>
        \/ End("budget_exhausted")
        \/ /\ Startable(a) /\ att' = att
           /\ \/ pc' = <<"giveBack", a>> \/ pc' = <<"replace", a>> \/ pc' = <<"create", a>>
              \/ pc' = <<"go", a, run.worker>> /\ run.worker # NoWorker /\ run' = run
    BY <1>26 DEF TakeSpawn, Idles, Goes, rowVars, Reusable
  <2>3. CASE Startable(a) /\ att' = att
    <3>1. Cur' = Cur
      BY <2>3, CurKept
    <3>2. a = Cur' /\ att'[a].status = "queued" /\ ~Over
      BY <2>3, <3>1 DEF Startable
    <3>3. run.worker # NoWorker => run.worker \in Workers
      BY <1>10 DEF RunRows
    <3> HIDE DEF a
    <3> QED
      BY <1>4, <1>11, <1>17, <1>18, <2>1, <2>2, <3>2, <3>3
  <2> HIDE DEF a
  <2> QED
    BY <1>4, <1>11, <2>1, <2>2, <2>3
<1>27. CASE Replaced \/ Created
  <2>1. A = Cur /\ att[A].status = "queued" /\ A \in Rows /\ ~Over /\ up
    BY <1>2, <1>6, <1>7, <1>27 DEF Replaced, Created, PlaceInv, A, AtRow, Ending, Unguarded
  <2>2. up' /\ att' = att /\ Cur' = Cur
    <3>1. att' = att /\ up' = up
      BY <1>27 DEF Replaced, Created, rowVars
    <3> QED
      BY <2>1, <3>1, CurKept
  <2>3. CASE Replaced
    BY <1>17, <2>1, <2>2, <2>3 DEF Replaced, Goes
  <2>4. CASE Created
    <3>1. pc' = <<"idle">> \/ \E s \in Workers : run' = [run EXCEPT !.worker = s] /\ pc' = <<"go", A, s>>
      BY <2>4 DEF Created, Idles, Goes
    <3>2. \A s \in Workers : run' = [run EXCEPT !.worker = s] => run'.worker = s
      BY <1>10 DEF RunRows
    <3> QED
      BY <1>4, <1>18, <2>1, <2>2, <3>1, <3>2
  <2> QED
    BY <1>27, <2>3, <2>4
<1>28. CASE Go
  <2>1. A = Cur /\ A \in Rows /\ ~Over /\ up'
    BY <1>6, <1>7, <1>28 DEF Go, PlaceInv, A, AtWorker, Ending, Unguarded
  <2>2. att'[A].status = "running"
    <3>1. att \in [Rows -> AttemptRows]
      BY DEF TypeOK
    <3>2. att[A] \in AttemptRows
      BY <2>1, <3>1
    <3> QED
      BY <1>28, <2>1, <3>1, <3>2 DEF Go, AttemptRows
  <2>3. Cur' = Cur
    BY <1>1, <1>6, <1>28 DEF Go, Start
  <2>4. pc' = <<"send", A>>
    BY <1>28 DEF Go, Goes
  <2>5. pc'[1] = "send" /\ pc'[2] = A
    BY <2>4
  <2>6. CurStatus' = "running"
    BY <1>2, <2>1, <2>2, <2>3 DEF CurStatus
  <2> QED
    BY <1>8, <2>1, <2>3, <2>4, <2>5, <2>6, IsPlace DEF PlaceInv, AtRow, Ending, Unguarded, Over
<1>29. CASE TakeSettled
  <2> DEFINE a == Head1[2]
  <2>1. Takes("settled") /\ up' = up /\ run' = run
    BY <1>29 DEF TakeSettled
  <2>2. /\ a \in Rows /\ up' /\ att[a].status # "none" /\ pc = <<"idle">>
        /\ Head1[3] = "done" => att[a].started
    BY <2>1, HeadFacts DEF ItemInv, ItemOf
  <2>3. Cur' = Cur
    BY <1>1, <2>2 DEF Start, At
  <2>4. CASE pc' = <<"idle">>
    BY <1>4, <2>2, <2>4
  <2>5. CASE pc' = <<"verify", a>> /\ (att[a].status = "verifying" \/ Head1[3] = "done" \/ a \in timedOut)
    <3>1. att[a].started
      BY <2>2, <2>5 DEF RowsInv, RowInv
    <3>2. att'[a].started
      BY <1>1, <2>2, <3>1 DEF Grew
    <3> QED
      BY <1>15, <2>2, <2>5, <3>2
  <2>6. CASE pc' = <<"after", a>> /\ (FinishAttempt(a, "stopped") \/ FinishAttempt(a, "worker_failed"))
    <3>1. att'[a].status = "done"
      BY <2>2, <2>6, Finishes DEF Results
    <3> QED
      BY <1>14, <2>2, <2>6, <3>1
  <2>7. CASE /\ ~IsSettled(a) /\ ~Over /\ FinishAttempt(a, "worker_failed")
             /\ LET s == IF att[a].worker # NoWorker THEN att[a].worker ELSE run.worker
                IN  Alive(s) /\ pc' = <<"stopLost", a, s>>
    <3> DEFINE s == IF att[a].worker # NoWorker THEN att[a].worker ELSE run.worker
    <3>1. att'[a].status = "done"
      BY <2>2, <2>7, Finishes DEF Results
    <3>2. a = Cur /\ a = Cur'
      BY <1>2, <2>2, <2>3, <2>7 DEF IsSettled, Done
    <3>3. s = run.worker
      <4>1. att[a].status \in {"queued", "running", "verifying"}
        <5>1. att[a] \in AttemptRows
          BY <2>2 DEF TypeOK
        <5> QED
          BY <2>2, <2>7, <5>1 DEF IsSettled, AttemptRows
      <4> QED
        BY <2>2, <4>1 DEF RowsInv, RowInv
    <3>4. s \in Workers
      BY <1>10, <2>7, <3>3 DEF Alive, RunRows
    <3>5. pc' = <<"stopLost", a, s>> /\ pc'[1] = "stopLost" /\ pc'[2] = a /\ pc'[3] = s
      BY <2>7
    <3>6. run'.status \notin Terminal
      BY <2>1, <2>7 DEF Over
    <3> HIDE DEF s, a
    <3> QED
      BY <2>1, <2>2, <3>1, <3>2, <3>3, <3>4, <3>5, <3>6, IsPlace DEF PlaceInv, Done, AtWorker, Ending, Unguarded, Over
  <2> QED
    BY <1>29, <2>4, <2>5, <2>6, <2>7 DEF TakeSettled, Idles, Goes
<1>30. CASE LostStopped
  <2>1. A \in Rows /\ Done(A) /\ up'
    BY <1>6, <1>7, <1>30 DEF LostStopped, PlaceInv, A, AtWorker
  <2>2. att'[A].status = "done" /\ pc' = <<"after", A>>
    BY <1>1, <1>30, <2>1 DEF Grew, LostStopped, Goes
  <2> QED
    BY <1>14, <2>1, <2>2
<1>31. CASE TakeWaiting \/ TakeMoved
  <2>1. \E kind : Takes(kind)
    BY <1>31 DEF TakeWaiting, TakeMoved
  <2>2. pc = <<"idle">> /\ up
    BY <2>1, HeadFacts
  <2> QED
    BY <1>4, <1>31, <2>2 DEF TakeWaiting, TakeMoved
<1>32. CASE TakeVerify \/ TakeAfter
  <2> DEFINE a == Head1[2]
  <2>1. a \in Rows /\ up' /\ (TakeVerify => att[a].started) /\ (TakeAfter => Done(a))
    BY <1>32, HeadFacts DEF TakeVerify, TakeAfter, OfRow, ItemInv, ItemOf, Done
  <2>2. (TakeVerify => pc' = <<"verify", a>>) /\ (TakeAfter => pc' = <<"after", a>>)
    BY DEF TakeVerify, TakeAfter, Goes
  <2>3. (TakeVerify => att'[a].started) /\ (TakeAfter => att'[a].status = "done")
    BY <1>1, <2>1 DEF Grew
  <2> HIDE DEF a
  <2> QED
    BY <1>14, <1>15, <1>32, <2>1, <2>2, <2>3
<1>33. CASE TakeRequeue
  <2> DEFINE a == Head1[2]
  <2>1. /\ a \in Rows /\ up' /\ Done(a) /\ pc = <<"idle">>
        /\ Head1 = chain[1] /\ chain[1][1] = "requeue" /\ 1 \in Spots
    BY <1>33, HeadFacts DEF TakeRequeue, OfRow, ItemInv, ItemOf, Done
  <2>2. a = Cur /\ Cur' = Cur
    BY <1>1, <2>1 DEF FirstInv, Start, At
  <2>3. att'[a].status = "done" /\ pc' = <<"start", a, TRUE>>
    BY <1>1, <1>33, <2>1 DEF Grew, TakeRequeue, Goes
  <2> HIDE DEF a
  <2> QED
    BY <1>16, <2>1, <2>2, <2>3
<1>34. CASE Verify
  <2>1. A \in Rows /\ att[A].started /\ up' /\ att' = att /\ Cur' = Cur
    BY <1>1, <1>6, <1>7, <1>34 DEF Verify, PlaceInv, A, AtRow, Start
  <2>2. CASE pc' = <<"idle">>
    BY <1>4, <2>1, <2>2
  <2>3. CASE ~(Over \/ cancelling \/ att[A].status = "done" \/ Cur # A) /\ pc' = <<"verifying", A>>
    <3>1. pc'[1] = "verifying" /\ pc'[2] = A
      BY <2>3
    <3> QED
      BY <1>8, <2>1, <2>3, <3>1, IsPlace DEF PlaceInv, Done, AtRow, Ending, Unguarded, Over
  <2> QED
    BY <1>34, <2>2, <2>3 DEF Verify, Idles, Goes
<1>35. CASE Verifying
  <2>1. A \in Rows /\ A = Cur /\ att[A].started /\ ~Done(A) /\ ~Over /\ up' /\ Cur' = Cur /\ run' = run
    BY <1>1, <1>6, <1>7, <1>35 DEF Verifying, PlaceInv, A, AtRow, Start, Ending, Unguarded
  <2>2. att \in [Rows -> AttemptRows]
    BY DEF TypeOK
  <2>3. att[A] \in AttemptRows
    BY <2>1, <2>2
  <2>4. att'[A].status = "verifying"
    BY <1>35, <2>1, <2>2, <2>3 DEF Verifying, AttemptRows
  <2> DEFINE s == IF att[A].worker # NoWorker THEN att[A].worker ELSE run.worker
  <2>5. s = run.worker
    <3>1. att[A].status \in {"running", "verifying"}
      <4>1. Cur # 0
        BY <1>2, <2>1
      <4>2. att[A].status # "none" /\ att[A].status # "queued"
        BY <2>1 DEF RowsInv, RowInv
      <4> QED
        BY <2>1, <2>3, <4>2 DEF AttemptRows, Done
    <3> QED
      BY <2>1, <3>1 DEF RowsInv, RowInv
  <2>6. \/ Alive(s) /\ pc' = <<"quiesce", A, s>>
        \/ pc' = <<"snapshot", A>>
    BY <1>35 DEF Verifying, Goes
  <2>7. CASE Alive(s) /\ pc' = <<"quiesce", A, s>>
    <3>1. s \in Workers
      BY <1>10, <2>5, <2>7 DEF Alive, RunRows
    <3>2. pc'[1] = "quiesce" /\ pc'[2] = A /\ pc'[3] = s
      BY <2>7
    <3>3. CurStatus' = "verifying"
      BY <1>2, <2>1, <2>4 DEF CurStatus
    <3> HIDE DEF s
    <3> QED
      BY <1>8, <2>1, <2>5, <2>7, <3>1, <3>2, <3>3, IsPlace DEF PlaceInv, AtWorker, Ending, Unguarded, Over
  <2> QED
    BY <1>19, <2>1, <2>4, <2>6, <2>7
<1>36. CASE Quiesced
  <2>1. A \in Rows /\ A = Cur /\ CurStatus = "verifying" /\ ~Over /\ up' /\ Cur' = Cur /\ att' = att
    BY <1>1, <1>6, <1>7, <1>36 DEF Quiesced, PlaceInv, A, AtWorker, Start, Ending, Unguarded, rowVars
  <2>2. att'[A].status = "verifying" /\ pc' = <<"snapshot", A>>
    BY <1>2, <1>36, <2>1 DEF Quiesced, Goes
  <2> QED
    BY <1>19, <2>1, <2>2
<1>37. CASE Snapshot \/ Checked
  <2>1. A \in Rows /\ A = Cur /\ CurStatus = "verifying" /\ ~Over /\ up' /\ Cur' = Cur
    BY <1>1, <1>6, <1>7, <1>37 DEF Snapshot, Checked, PlaceInv, A, AtRow, Start, Ending, Unguarded
  <2>2. CASE \E result, t : Judged(A, result, t)
    <3>1. att'[A].status = "done" /\ pc' = <<"after", A>>
      <4>1. att \in [Rows -> AttemptRows]
        BY DEF TypeOK
      <4>2. att[A] \in AttemptRows
        BY <2>1, <4>1
      <4> QED
        BY <2>1, <2>2, <4>1, <4>2 DEF Judged, Goes, AttemptRows
    <3> QED
      BY <1>14, <2>1, <3>1
  <2>3. CASE pc' = <<"idle">>
    BY <1>4, <2>1, <2>3
  <2>4. CASE att' = att /\ pc' = <<"checks", A, tree>>
    <3>1. pc'[1] = "checks" /\ pc'[2] = A
      BY <2>4
    <3>2. CurStatus' = "verifying" /\ tree \in Trees
      BY <2>1, <2>4 DEF CurStatus, TypeOK
    <3> QED
      BY <1>8, <2>1, <2>4, <3>1, <3>2, IsPlace DEF PlaceInv, Ending, Unguarded, Over
  <2> QED
    BY <1>37, <2>2, <2>3, <2>4 DEF Snapshot, Checked, Checking, Idles, Goes
<1>38. CASE After
  <2>1. A \in Rows /\ Done(A) /\ up' /\ att' = att /\ Cur' = Cur
    BY <1>1, <1>6, <1>7, <1>38 DEF After, PlaceInv, A, AtRow, Start
  <2>2. CASE pc' = <<"idle">>
    BY <1>4, <2>1, <2>2
  <2>3. CASE End("blocked") \/ End("budget_exhausted")
    BY <1>11, <2>1, <2>3
  <2>4. CASE ~Over /\ Cur = A /\ att[A].result = "verified" /\ att[A].tree # Base /\ pc' = <<"commit", A>>
    <3>1. pc'[1] = "commit" /\ pc'[2] = A
      BY <2>4
    <3> QED
      BY <1>8, <2>1, <2>4, <3>1, IsPlace DEF PlaceInv, AtRow, Ending, Unguarded, Over
  <2>5. CASE Cur = A /\ att[A].result = "stopped" /\ pc' = <<"start", A, TRUE>>
    BY <1>16, <2>1, <2>5 DEF Done
  <2>6. CASE Cur = A /\ att[A].result # "stopped" /\ pc' = <<"start", A, FALSE>>
    <3>1. att[A].result # "none"
      BY <2>1 DEF TypeOK, Done
    <3>2. att[A].started \/ att[A].result = "worker_failed"
      BY <2>1, <2>6, <3>1 DEF RowsInv, RowInv
    <3> QED
      BY <1>16, <2>1, <2>6, <3>2 DEF Done
  <2>7. CASE ~Over /\ Cur = A /\ Decide
    BY <2>2, <2>3, <2>4, <2>5, <2>6, <2>7 DEF Decide, Deliver, Idles, Goes
  <2> QED
    BY <1>38, <2>2, <2>7 DEF After, Idles, Goes
<1>39. CASE Committed
  <2>1. up'
    BY <1>39 DEF Committed, At
  <2>2. End("failed") => Goal
    BY <1>11, <2>1
  <2>3. run'.status = "completed" /\ pc' = <<"release", FALSE>> => Goal
    BY <1>5, <2>1 DEF Terminal
  <2>4. Ends([run EXCEPT !.accepted = A, !.delivered = att[A].tree], "completed") => run'.status = "completed"
    BY <1>10 DEF Ends, RunRows
  <2> QED
    BY <1>39, <2>2, <2>3, <2>4 DEF Committed, Goes
<1>40. CASE TakeCancel
  <2>1. up'
    BY <1>40 DEF TakeCancel, Takes, At
  <2>2. CASE pc' = <<"idle">>
    BY <1>4, <2>1, <2>2
  <2>3. CASE Ends(run, "cancelled") /\ pc' = <<"stopWork">>
    <3>1. run'.status \in Terminal
      BY <1>9, <1>10, <2>3
    <3>2. pc'[1] = "stopWork"
      BY <2>3
    <3> QED
      BY <2>1, <2>3, <3>1, <3>2, IsPlace DEF PlaceInv, Bare, Ending, Unguarded, Over
  <2>4. pc' = <<"idle">> \/ (Ends(run, "cancelled") /\ pc' = <<"stopWork">>)
    BY <1>40 DEF TakeCancel, Idles, Goes
  <2> QED
    BY <2>2, <2>3, <2>4
<1>41. CASE StopWork \/ Drained
  <2>1. Over /\ up' /\ (pc' = <<"drain">> \/ pc' = <<"release", TRUE>>)
    <3>1. up' /\ pc[1] \in Ending
      BY <1>6, <1>41 DEF StopWork, Drained, Ending
    <3>2. pc' = <<"drain">> \/ pc' = <<"release", TRUE>>
      BY <1>41, Zenon DEF StopWork, Drained, Goes
    <3> QED
      BY <3>1, <3>2 DEF PlaceInv
  <2>2. CASE pc' = <<"drain">>
    <3>1. pc'[1] = "drain" /\ run'.status \in Terminal
      BY <1>8, <2>1, <2>2
    <3> QED
      BY <2>1, <2>2, <3>1, IsPlace DEF PlaceInv, Bare, Ending, Unguarded, Over
  <2>3. pc' = <<"release", TRUE>> => Goal
    BY <1>5, <1>8, <2>1
  <2> QED
    BY <2>1, <2>2, <2>3
<1>42. CASE TakeAnswer
  <2> DEFINE a == Head1[2]
  <2>1. a \in Rows /\ up' /\ Done(a) /\ att[a].started /\ pc = <<"idle">>
    BY <1>42, HeadFacts DEF TakeAnswer, OfRow, ItemInv, ItemOf, Done
  <2>2. pc' = <<"idle">> \/ (Cur = a /\ pc' = <<"start", Cur, FALSE>>)
    BY <1>42 DEF TakeAnswer, Idles, Goes
  <2>3. att'[a].status = "done" /\ att'[a].started /\ Cur' = Cur
    BY <1>1, <2>1 DEF Grew, Start, At
  <2> HIDE DEF a
  <2> QED
    BY <1>4, <1>16, <2>1, <2>2, <2>3
<1>43. CASE Exit
  BY <1>43, PlaceIdle DEF Exit, Idles, Goes
<1>44. CASE Boot
  <2>1. pc' = <<"idle">> /\ up'
    BY <1>44 DEF Boot, PlaceInv
  <2> QED
    BY <1>4, <2>1
<1>45. CASE \/ Cancel \/ Pause \/ Resume \/ Steer \/ StopDaemon
            \/ \E a \in Rows : Claim(a) \/ TaskSettles(a) \/ Lapses(a) \/ DeadlineFires(a)
            \/ \E s \in Workers : WorkerWorks(s) \/ WorkerReports(s) \/ WorkerWaits(s) \/ WorkerApproved(s) \/ WorkerEnds(s)
  BY <1>45, QuietPlace
<1> QED
  BY <1>20, <1>21, <1>22, <1>23, <1>24, <1>25, <1>26, <1>27, <1>28, <1>29, <1>30, <1>31, <1>32, <1>33, <1>34, <1>35,
     <1>36, <1>37, <1>38, <1>39, <1>40, <1>41, <1>42, <1>43, <1>44, <1>45 DEF Next, Steps

-----------------------------------------------------------------------------
(* Who acts: a worker is put to work in one place only, and stopped wherever   *)
(* its attempt stops running.                                                  *)

Calm == {"prepare", "baseline", "start", "enqueue", "record", "giveBack", "replace", "create", "go", "snapshot",
         "checks", "commit", "release"}
LEMMA CalmPlaces ==
  ASSUME TypeOK, RowsInv, PlaceInv, WorkInv
  PROVE  /\ pc[1] \in Calm => Acting = {}
         /\ CurStatus # "running" /\ pc[1] \notin {"quiesce", "stopLost", "drain"} => Acting = {}
<1>1. CurStatus # "running" /\ pc[1] \notin {"quiesce", "stopLost", "drain"} => Acting = {}
  BY DEF WorkInv
<1>2. pc[1] = "release" => Acting = {}
  BY DEF WorkInv, PlaceInv, Ending
<1>3. pc[1] \in {"prepare", "baseline", "enqueue", "record", "giveBack", "replace", "create", "go", "snapshot", "checks"}
        => CurStatus # "running"
  BY DEF PlaceInv, CurStatus
<1>4. pc[1] = "start" => CurStatus # "running"
  BY DEF PlaceInv, CurStatus, Done
<1>5. pc[1] = "commit" => CurStatus # "running"
  <2> SUFFICES ASSUME pc[1] = "commit" PROVE CurStatus # "running"
    OBVIOUS
  <2>1. pc[2] \in Rows /\ pc[2] = Cur /\ att[Cur].result = "verified"
    BY PlaceArgs DEF TypeOK, AtRow, PlaceInv
  <2>2. att[Cur].status = "done" /\ 0 \notin Rows
    BY <2>1 DEF TypeOK, Rows
  <2> QED
    BY <2>1, <2>2 DEF CurStatus
<1> QED
  BY <1>1, <1>2, <1>3, <1>4, <1>5 DEF Calm

LEMMA Stopped ==
  ASSUME TypeOK, RowsInv, PlaceInv, WorkInv
  PROVE  /\ LostStopped \/ Quiesced \/ Drained \/ Exit => Acting' = {}
         /\ ~Alive(run.worker) => Acting = {}
<1>1. session \in [Workers -> SessionStatus] /\ Acting \subseteq {run.worker}
  BY DEF TypeOK, SessionStatus, WorkInv
<1>2. ASSUME LostStopped \/ Quiesced PROVE Acting' = {}
  <2>1. PICK w : w = run.worker /\ session' = Quieted(w)
    BY <1>2 DEF LostStopped, Quiesced, At, PlaceInv
  <2>2. \A s \in Workers : s # w => session'[s] = session[s] /\ s \notin Acting
    BY <1>1, <2>1 DEF Quieted
  <2>3. w \in Workers => session'[w] \in {"none", "gone", "idle"}
    BY <1>1, <2>1 DEF Quieted
  <2> QED
    BY <2>2, <2>3 DEF Acting
<1>3. ASSUME Drained PROVE Acting' = {}
  <2>1. \A s \in Workers : session'[s] = IF session[s] \in {"active", "waiting", "stopping"} THEN "idle" ELSE session[s]
    BY <1>3 DEF Drained, Acting
  <2> QED
    BY <2>1 DEF Acting
<1>4. ASSUME Exit PROVE Acting' = {}
  <2>1. PICK back \in {"idle", "gone"} : session' = [s \in Workers |-> IF Alive(s) THEN back ELSE session[s]]
    <3>1. \E back \in {"idle"} \cup (IF Fault("vanish") THEN {"gone"} ELSE {}) :
             session' = [s \in Workers |-> IF Alive(s) THEN back ELSE session[s]]
      BY <1>4 DEF Exit
    <3> QED
      BY <3>1
  <2>2. \A s \in Workers : Alive(s) \/ session[s] \in {"none", "gone"}
    BY ConstantsAssumption DEF Alive, Workers, NoWorker
  <2> QED
    BY <2>1, <2>2 DEF Acting
<1>5. ~Alive(run.worker) => Acting = {}
  BY <1>1, ConstantsAssumption DEF Alive, Acting, Workers, NoWorker
<1> QED
  BY <1>2, <1>3, <1>4, <1>5

LEMMA ActingStep ==
  ASSUME TypeOK, RowsInv, PlaceInv, WorkInv, Next
  PROVE  Acting' \subseteq Acting \/ (Sent /\ Acting' \subseteq {run.worker} /\ CurStatus = "running" /\ ~Over)
<1>1. session \in [Workers -> SessionStatus] /\ run \in RunRows /\ Acting \subseteq {run.worker}
  BY DEF TypeOK, SessionStatus, WorkInv
<1>2. session' = session => Acting' = Acting
  BY DEF Acting
<1>3. CASE TakePrepare \/ Prepared \/ Baselined \/ TakeCarryOn \/ Start \/ Enqueue \/ Record \/ TakeSpawn \/ GiveBack \/ Go
  BY <1>2, <1>3 DEF TakePrepare, Prepared, Baselined, TakeCarryOn, Start, Enqueue, Record, TakeSpawn, GiveBack, Go, sessVars
<1>4. CASE TakeSettled \/ TakeWaiting \/ TakeMoved \/ TakeVerify \/ Verify \/ Verifying \/ Snapshot \/ Checked \/ TakeAfter \/ TakeRequeue
  BY <1>2, <1>4 DEF TakeSettled, TakeWaiting, TakeMoved, TakeVerify, Verify, Verifying, Snapshot, Checked, TakeAfter, TakeRequeue,
     sessVars
<1>5. CASE After \/ Committed \/ Release \/ TakeCancel \/ StopWork \/ TakeAnswer \/ Pause \/ Resume \/ Steer \/ StopDaemon \/ Boot
  BY <1>2, <1>5 DEF After, Committed, Release, TakeCancel, StopWork, TakeAnswer, Pause, Resume, Steer, StopDaemon, Boot, sessVars
<1>6. CASE \E a \in Rows : Claim(a) \/ TaskSettles(a) \/ Lapses(a)
  BY <1>2, <1>6 DEF Claim, TaskSettles, Lapses, sessVars
<1>7. CASE LostStopped \/ Quiesced \/ Drained \/ Exit
  BY <1>7, Stopped
<1>8. CASE Replaced
  <2>1. session' = Quieted(run.worker)
    BY <1>8 DEF Replaced
  <2>2. \A s \in Workers : session'[s] = session[s] \/ session'[s] = "idle"
    BY <1>1, <2>1 DEF Quieted
  <2> QED
    BY <2>2 DEF Acting
<1>9. CASE Created
  <2>1. session' = session \/ \E s \in Workers : session' = [session EXCEPT ![s] = "idle"]
    BY <1>9 DEF Created, sessVars
  <2>2. \A s \in Workers : session'[s] = session[s] \/ session'[s] = "idle"
    BY <1>1, <2>1
  <2> QED
    BY <2>2 DEF Acting
<1>10. CASE Sent
  <2>1. CurStatus = "running" /\ A = Cur /\ pc[1] = "send" /\ A \in Rows
    BY <1>10, PlaceArgs DEF Sent, At, A, PlaceInv, AtRow, TypeOK
  <2>2. att[A].worker = run.worker /\ ~Over
    <3>1. att[A].status = "running"
      BY <2>1 DEF CurStatus, Rows
    <3> QED
      BY <2>1, <3>1 DEF RowsInv, RowInv, PlaceInv, Ending, Unguarded
  <2>3. session' = session \/ session' = [session EXCEPT ![run.worker] = "active"]
    BY <1>10, <2>2 DEF Sent
  <2>4. \A s \in Workers \ {run.worker} : session'[s] = session[s] /\ s \notin Acting
    BY <1>1, <2>3
  <2> QED
    BY <1>10, <2>1, <2>2, <2>4 DEF Acting
<1>11. CASE Cancel \/ \E a \in Rows : DeadlineFires(a)
  <2>1. session' = session \/ \E S : session' = Interrupted(S)
    BY <1>11 DEF Cancel, DeadlineFires
  <2>2. \A s \in Workers : session'[s] = session[s] \/ s \in Acting
    BY <1>1, <2>1 DEF Interrupted
  <2> QED
    BY <2>2 DEF Acting
<1>12. CASE \E s \in Workers : WorkerWorks(s) \/ WorkerReports(s) \/ WorkerWaits(s) \/ WorkerApproved(s) \/ WorkerEnds(s)
  <2>1. session' = session \/ \E s \in Acting : \E x : session' = [session EXCEPT ![s] = x]
    BY <1>12 DEF WorkerWorks, WorkerReports, WorkerWaits, WorkerApproved, WorkerEnds, Becomes, sessVars, Acting
  <2>2. \A s \in Workers : session'[s] = session[s] \/ s \in Acting
    BY <1>1, <2>1
  <2> QED
    BY <2>2 DEF Acting
<1> QED
  BY <1>3, <1>4, <1>5, <1>6, <1>7, <1>8, <1>9, <1>10, <1>11, <1>12 DEF Next, Steps

LEMMA RunningStep ==
  ASSUME TypeOK, RowsInv, ItemsInv, PlaceInv, WorkInv, Next, Acting # {}, Acting' # {}
  PROVE  CurStatus' = "running" \/ pc'[1] \in {"quiesce", "stopLost", "drain"}
<1> DEFINE Goal == CurStatus' = "running" \/ pc'[1] \in {"quiesce", "stopLost", "drain"}
<1>1. /\ pc[1] \notin Calm /\ (CurStatus = "running" \/ pc[1] \in {"quiesce", "stopLost", "drain"})
      /\ ~LostStopped /\ ~Quiesced /\ ~Drained /\ ~Exit /\ Alive(run.worker)
  BY CalmPlaces, Stopped
<1>2. /\ att \in [Rows -> AttemptRows] /\ 0 \notin Rows
      /\ Cur # 0 => Cur \in Rows /\ att[Cur].status = CurStatus
      /\ CurStatus # "none" => Cur # 0
      /\ \A a \in Rows : att[a].status # "none" /\ ~Done(a) => a = Cur
  BY RowFacts DEF CurStatus, Rows, TypeOK
<1>3. (\A a \in Rows : att'[a].status = att[a].status) => CurStatus' = CurStatus
  <2> SUFFICES ASSUME \A a \in Rows : att'[a].status = att[a].status PROVE CurStatus' = CurStatus
    OBVIOUS
  <2>1. Cur' = Cur
    BY CurKept
  <2> QED
    BY <1>2, <2>1 DEF CurStatus
<1>4. (\A a \in Rows : att'[a].status = att[a].status) /\ (pc' = pc \/ CurStatus = "running") => Goal
  BY <1>1, <1>3
<1>5. att' = att /\ (pc' = pc \/ CurStatus = "running") => Goal
  BY <1>4
<1>6. pc = <<"idle">> => CurStatus = "running"
  BY <1>1
<1>7. \A kind : Takes(kind) => CurStatus = "running"
  BY <1>6, HeadFacts
<1>8. CASE \/ Prepared \/ Baselined \/ Start \/ Enqueue \/ Record \/ GiveBack \/ Replaced \/ Created \/ Go \/ Snapshot \/ Checked
           \/ Committed \/ Release
  BY <1>1, <1>8 DEF Prepared, Baselined, Start, Enqueue, Record, GiveBack, Replaced, Created, Go, Snapshot, Checked, Committed,
     Release, At, Calm
<1>9. CASE TakePrepare \/ TakeCarryOn \/ TakeVerify \/ TakeAfter \/ TakeRequeue \/ TakeCancel \/ TakeAnswer
  BY <1>5, <1>7, <1>9 DEF TakePrepare, TakeCarryOn, TakeVerify, TakeAfter, TakeRequeue, TakeCancel, TakeAnswer, rowVars
<1>10. CASE TakeWaiting \/ TakeMoved
  <2>1. \A a \in Rows : att'[a].status = att[a].status
    BY <1>2, <1>10 DEF TakeWaiting, TakeMoved, rowVars, AttemptRows
  <2> QED
    BY <1>4, <1>7, <1>10, <2>1 DEF TakeWaiting, TakeMoved
<1>11. CASE TakeSpawn
  <2>1. CurStatus = "running" /\ Head1[2] \in Rows
    BY <1>7, <1>11, HeadFacts DEF TakeSpawn, OfRow
  <2>2. ~Startable(Head1[2])
    BY <1>2, <2>1 DEF Startable
  <2> QED
    BY <1>5, <1>11, <2>1, <2>2 DEF TakeSpawn, rowVars
<1>12. CASE TakeSettled
  <2> DEFINE a == Head1[2]
  <2>1. CurStatus = "running" /\ a \in Rows /\ att[a].status # "none" /\ pc[1] = "idle" /\ Takes("settled")
    BY <1>7, <1>12, HeadFacts DEF TakeSettled, ItemInv, ItemOf
  <2>2. ~Over
    BY <1>1, <2>1 DEF WorkInv
  <2>3. CASE att' = att
    BY <1>5, <2>1, <2>3
  <2>4. CASE ~IsSettled(a)
    <3>1. a = Cur /\ att[a].status = "running"
      BY <1>2, <2>1, <2>4 DEF IsSettled, Done
    <3>2. att[a].worker = run.worker /\ run.worker # NoWorker
      BY <1>1, <2>1, <3>1 DEF RowsInv, RowInv, Alive
    <3>3. att' = att \/ pc' = <<"stopLost", a, run.worker>>
      BY <1>1, <1>12, <2>1, <2>2, <3>1, <3>2 DEF TakeSettled, Goes, IsSettled
    <3>4. pc' = <<"stopLost", a, run.worker>> => pc'[1] = "stopLost"
      OBVIOUS
    <3> QED
      BY <2>3, <3>3, <3>4
  <2> QED
    BY <1>12, <2>3, <2>4 DEF TakeSettled
<1>13. CASE StopWork
  BY <1>13 DEF StopWork, Goes
<1>14. CASE Sent \/ Verify \/ After
  BY <1>1, <1>5, <1>14 DEF Sent, Verify, After, At, rowVars
<1>15. CASE Verifying
  <2>1. pc[1] = "verifying" /\ A = Cur /\ A \in Rows /\ CurStatus = "running"
    BY <1>1, <1>15, PlaceArgs DEF Verifying, At, A, PlaceInv, AtRow, TypeOK
  <2>2. att[A].worker = run.worker /\ run.worker # NoWorker
    BY <1>1, <1>2, <2>1 DEF RowsInv, RowInv, Alive
  <2>3. pc' = <<"quiesce", A, run.worker>>
    BY <1>1, <1>15, <2>2 DEF Verifying, Goes
  <2> QED
    BY <2>3
<1>16. CASE Boot
  <2>1. pc = <<"idle">> /\ CurStatus = "running"
    BY <1>6, <1>16 DEF Boot, PlaceInv
  <2>2. \A a \in Rows : att'[a].status = att[a].status
    BY <1>2, <1>16, <2>1 DEF Boot, NeverQueued, AttemptRows
  <2> QED
    BY <1>4, <2>1, <2>2
<1>17. CASE Cancel \/ Pause \/ Resume \/ Steer \/ StopDaemon
  BY <1>5, <1>17 DEF Cancel, Pause, Resume, Steer, StopDaemon, rowVars
<1>18. CASE \E a \in Rows : Claim(a) \/ TaskSettles(a) \/ Lapses(a) \/ DeadlineFires(a)
  BY <1>5, <1>18 DEF Claim, TaskSettles, Lapses, DeadlineFires, rowVars
<1>19. CASE \E s \in Workers : WorkerWorks(s) \/ WorkerReports(s) \/ WorkerWaits(s) \/ WorkerApproved(s) \/ WorkerEnds(s)
  <2>1. \A a \in Rows : att'[a].status = att[a].status
    BY <1>2, <1>19 DEF WorkerWorks, WorkerReports, WorkerWaits, WorkerApproved, WorkerEnds, rowVars, AttemptRows
  <2>2. pc' = pc
    BY <1>19 DEF WorkerWorks, WorkerReports, WorkerWaits, WorkerApproved, WorkerEnds
  <2> QED
    BY <1>4, <2>1, <2>2
<1> QED
  BY <1>1, <1>8, <1>9, <1>10, <1>11, <1>12, <1>13, <1>14, <1>15, <1>16, <1>17, <1>18, <1>19 DEF Next, Steps

LEMMA ReleasedCalm ==
  ASSUME TypeOK, RowsInv, ItemsInv, FirstInv, PlaceInv, WorkInv, Next, ~Over, pc'[1] = "release"
  PROVE  Acting = {}
<1>1. /\ pc[1] \in Calm => Acting = {}
      /\ CurStatus # "running" /\ pc[1] \notin {"quiesce", "stopLost", "drain"} => Acting = {}
  BY CalmPlaces
<1>2. /\ Cur # 0 => Cur \in Rows /\ att[Cur].status = CurStatus
      /\ Cur = 0 => CurStatus = "none"
      /\ 0 \notin Rows
  BY RowFacts DEF CurStatus, Rows
<1>3. pc[1] \notin {"drain", "release"}
  BY DEF PlaceInv, Ending
<1>4. pc' # pc
  BY <1>3
<1>5. /\ pc' # <<"idle">> /\ pc' # <<"stopWork">> /\ pc' # <<"drain">>
      /\ \A place \in AtRow, a \in Rows \cup {0} : pc' # <<place, a>>
      /\ \A place \in AtWorker \cup {"checks", "start"} : \A a, x : pc' # <<place, a, x>>
  BY DEF AtRow, AtWorker
<1>6. CASE Prepared \/ Baselined \/ Start \/ Enqueue \/ Record \/ GiveBack \/ Replaced \/ Created \/ Go \/ Snapshot \/ Checked
           \/ Committed
  BY <1>1, <1>6 DEF Prepared, Baselined, Start, Enqueue, Record, GiveBack, Replaced, Created, Go, Snapshot, Checked, Committed,
     At, Calm
<1>7. CASE TakePrepare
  <2>1. chain[1][1] = "prepare" /\ 1 \in Spots /\ pc = <<"idle">>
    BY <1>7, HeadFacts DEF TakePrepare
  <2>2. Cur = 0
    BY <2>1 DEF FirstInv
  <2> QED
    BY <1>1, <1>2, <2>1, <2>2
<1>8. CASE TakeCarryOn
  <2>1. pc = <<"idle">>
    BY <1>8, HeadFacts DEF TakeCarryOn
  <2>2. Cur = 0 \/ CurStatus = "done"
    BY <1>5, <1>8 DEF TakeCarryOn, CarriesOn, Idles, Goes
  <2> QED
    BY <1>1, <1>2, <2>1, <2>2
<1>9. CASE TakeSpawn
  <2>1. pc = <<"idle">> /\ Head1[2] \in Rows
    BY <1>9, HeadFacts DEF TakeSpawn, OfRow
  <2>2. Startable(Head1[2])
    BY <1>5, <1>9 DEF TakeSpawn, Idles, Goes
  <2> QED
    BY <1>1, <1>2, <2>1, <2>2 DEF Startable
<1>10. CASE After
  <2>1. pc[1] = "after" /\ A \in Rows /\ Done(A)
    BY <1>10, PlaceArgs DEF After, At, A, AtRow, PlaceInv, TypeOK
  <2>2. Cur = A
    BY <1>5, <1>10 DEF After, Idles, Goes
  <2> QED
    BY <1>1, <1>2, <2>1, <2>2 DEF Done
<1>11. CASE TakeSettled \/ TakeVerify \/ TakeAfter \/ TakeRequeue
  <2>1. pc = <<"idle">> /\ Head1[2] \in Rows
    BY <1>11, HeadFacts DEF TakeSettled, TakeVerify, TakeAfter, TakeRequeue, OfRow
  <2> DEFINE a == Head1[2]
  <2>2. CASE TakeSettled
    <3>1. pc' = <<"idle">> \/ pc' = <<"verify", a>> \/ pc' = <<"after", a>> \/ \E s : pc' = <<"stopLost", a, s>>
      BY <2>2 DEF TakeSettled, Idles, Goes
    <3> QED
      BY <1>5, <2>1, <3>1 DEF AtRow, AtWorker
  <2>3. CASE TakeVerify \/ TakeAfter \/ TakeRequeue
    <3>1. pc' = <<"verify", a>> \/ pc' = <<"after", a>> \/ pc' = <<"start", a, TRUE>>
      BY <2>3, Zenon DEF TakeVerify, TakeAfter, TakeRequeue, Goes
    <3> HIDE DEF a
    <3>2. pc' # <<"verify", a>> /\ pc' # <<"after", a>> /\ pc' # <<"start", a, TRUE>>
      BY <1>5, <2>1 DEF AtRow, a
    <3> QED
      BY <3>1, <3>2
  <2> QED
    BY <1>11, <2>2, <2>3
<1>12. CASE TakeWaiting \/ TakeMoved \/ TakeCancel \/ TakeAnswer \/ Sent
  <2>1. pc' = pc \/ pc' = <<"idle">> \/ pc' = <<"stopWork">> \/ pc' = <<"start", Cur, FALSE>>
    BY <1>12, Zenon DEF TakeWaiting, TakeMoved, TakeCancel, TakeAnswer, Sent, Idles, Goes
  <2> QED
    BY <1>4, <1>5, <2>1
<1>13. CASE Verify \/ Verifying \/ LostStopped \/ Quiesced
  <2>1. A \in Rows
    BY <1>13, PlaceArgs DEF Verify, Verifying, LostStopped, Quiesced, At, A, AtRow, AtWorker, TypeOK
  <2> QED
    BY <1>5, <1>13, <2>1 DEF Verify, Verifying, LostStopped, Quiesced, Idles, Goes, AtRow, AtWorker
<1>14. CASE StopWork \/ Drained \/ Release
  BY <1>3, <1>5, <1>14 DEF StopWork, Drained, Release, Idles, Goes, At
<1>15. CASE Cancel \/ Pause \/ Resume \/ Steer \/ StopDaemon \/ Exit \/ Boot
  BY <1>4, <1>5, <1>15 DEF Cancel, Pause, Resume, Steer, StopDaemon, Exit, Boot, Idles, Goes
<1>16. CASE \E a \in Rows : Claim(a) \/ TaskSettles(a) \/ Lapses(a) \/ DeadlineFires(a)
  BY <1>4, <1>16 DEF Claim, TaskSettles, Lapses, DeadlineFires
<1>17. CASE \E s \in Workers : WorkerWorks(s) \/ WorkerReports(s) \/ WorkerWaits(s) \/ WorkerApproved(s) \/ WorkerEnds(s)
  BY <1>4, <1>17 DEF WorkerWorks, WorkerReports, WorkerWaits, WorkerApproved, WorkerEnds
<1> QED
  BY <1>6, <1>7, <1>8, <1>9, <1>10, <1>11, <1>12, <1>13, <1>14, <1>15, <1>16, <1>17 DEF Next, Steps

\* A run that is over has three places left, each with one way on.
LEMMA EndingMoves ==
  ASSUME Next, pc[1] \in Ending, PlaceInv
  PROVE  Release \/ StopWork \/ Drained \/ Exit \/ (pc' = pc /\ workers' = workers /\ armed' = armed)
<1>1. \A kind : ~Takes(kind)
  BY DEF Takes, At, Ending
<1>2. \A place \in AtRow \cup AtWorker \cup {"checks", "start", "prepare", "baseline"} : ~At(place)
  BY DEF At, Ending, AtRow, AtWorker
<1>3. ~Boot
  BY DEF Boot, PlaceInv, Ending
<1>4. ~(Steps /\ ~Release /\ ~StopWork /\ ~Drained)
  BY <1>1, <1>2 DEF Steps, TakePrepare, Prepared, Baselined, Start, Enqueue, Record, TakeSpawn, GiveBack, Replaced, Created, Go, Sent,
     TakeSettled, LostStopped, TakeWaiting, TakeMoved, TakeVerify, Verify, Verifying, Quiesced, Snapshot, Checked, TakeAfter,
     TakeRequeue, After, Committed, TakeCancel, TakeCarryOn, TakeAnswer, AtRow, AtWorker
<1>5. CASE Cancel \/ Pause \/ Resume \/ Steer \/ StopDaemon
  BY <1>5 DEF Cancel, Pause, Resume, Steer, StopDaemon, sessVars
<1>6. CASE \E a \in Rows : Claim(a) \/ TaskSettles(a) \/ Lapses(a) \/ DeadlineFires(a)
  BY <1>6 DEF Claim, TaskSettles, Lapses, DeadlineFires, sessVars
<1>7. CASE \E s \in Workers : WorkerWorks(s) \/ WorkerReports(s) \/ WorkerWaits(s) \/ WorkerApproved(s) \/ WorkerEnds(s)
  BY <1>7 DEF WorkerWorks, WorkerReports, WorkerWaits, WorkerApproved, WorkerEnds, sessVars
<1> QED
  BY <1>3, <1>4, <1>5, <1>6, <1>7 DEF Next

\* Who changes the sets of workers, and how a worker that is let go of is taken up.
LEMMA SetsMove ==
  ASSUME Next
  PROVE  \/ armed' = armed /\ workers' = workers
         \/ Release \/ TakeSpawn \/ Replaced \/ Created \/ Go \/ Exit \/ Boot
<1>1. CASE TakePrepare \/ Prepared \/ Baselined \/ TakeCarryOn \/ Start \/ Enqueue \/ Record \/ GiveBack \/ Sent \/ TakeSettled
           \/ LostStopped \/ TakeWaiting \/ TakeMoved
  BY <1>1 DEF TakePrepare, Prepared, Baselined, TakeCarryOn, Start, Enqueue, Record, GiveBack, Sent, TakeSettled,
     LostStopped, TakeWaiting, TakeMoved, sessVars
<1>2. CASE TakeVerify \/ Verify \/ Verifying \/ Quiesced \/ Snapshot \/ Checked \/ TakeAfter \/ TakeRequeue \/ After \/ Committed
           \/ TakeCancel \/ StopWork \/ Drained \/ TakeAnswer
  BY <1>2 DEF TakeVerify, Verify, Verifying, Quiesced, Snapshot, Checked, TakeAfter, TakeRequeue, After, Committed,
     TakeCancel, StopWork, Drained, TakeAnswer, sessVars
<1>3. CASE Cancel \/ Pause \/ Resume \/ Steer \/ StopDaemon
  BY <1>3 DEF Cancel, Pause, Resume, Steer, StopDaemon, sessVars
<1>4. CASE \E a \in Rows : Claim(a) \/ TaskSettles(a) \/ Lapses(a) \/ DeadlineFires(a)
  BY <1>4 DEF Claim, TaskSettles, Lapses, DeadlineFires, sessVars
<1>5. CASE \E s \in Workers : WorkerWorks(s) \/ WorkerReports(s) \/ WorkerWaits(s) \/ WorkerApproved(s) \/ WorkerEnds(s)
  BY <1>5 DEF WorkerWorks, WorkerReports, WorkerWaits, WorkerApproved, WorkerEnds, sessVars
<1> QED
  BY <1>1, <1>2, <1>3, <1>4, <1>5 DEF Next, Steps

LEMMA GoingMoves ==
  ASSUME Next, pc[1] = "go"
  PROVE  Go \/ Exit \/ Boot \/ pc' = pc
<1>1. \A kind : ~Takes(kind)
  BY DEF Takes, At
<1>2. \A place \in (AtRow \cup AtWorker \cup Ending \cup {"checks", "start", "prepare", "baseline"}) \ {"go"} : ~At(place)
  BY DEF At
<1>3. ~(Steps /\ ~Go)
  BY <1>1, <1>2 DEF Steps, TakePrepare, Prepared, Baselined, Start, Enqueue, Record, TakeSpawn, GiveBack, Replaced, Created, Sent,
     TakeSettled, LostStopped, TakeWaiting, TakeMoved, TakeVerify, Verify, Verifying, Quiesced, Snapshot, Checked, TakeAfter,
     TakeRequeue, After, Committed, Release, TakeCancel, StopWork, Drained, TakeCarryOn, TakeAnswer, AtRow, AtWorker, Ending
<1>4. CASE Cancel \/ Pause \/ Resume \/ Steer \/ StopDaemon
  BY <1>4 DEF Cancel, Pause, Resume, Steer, StopDaemon
<1>5. CASE \E a \in Rows : Claim(a) \/ TaskSettles(a) \/ Lapses(a) \/ DeadlineFires(a)
  BY <1>5 DEF Claim, TaskSettles, Lapses, DeadlineFires
<1>6. CASE \E s \in Workers : WorkerWorks(s) \/ WorkerReports(s) \/ WorkerWaits(s) \/ WorkerApproved(s) \/ WorkerEnds(s)
  BY <1>6 DEF WorkerWorks, WorkerReports, WorkerWaits, WorkerApproved, WorkerEnds
<1> QED
  BY <1>3, <1>4, <1>5, <1>6 DEF Next

LEMMA WorkStep ==
  ASSUME TypeOK, RowsInv, ItemsInv, FirstInv, PlaceInv, WorkInv, Next
  PROVE  WorkInv'
<1>1. Acting' \subseteq Acting \/ (Sent /\ Acting' \subseteq {run.worker} /\ CurStatus = "running" /\ ~Over)
  BY ActingStep
<1>2. RunMoves /\ Acting \subseteq {run.worker}
  BY RunStep DEF WorkInv
<1>3. Acting' \subseteq {run'.worker}
  <2>1. CASE Created
    <3>1. Acting = {} /\ ~Sent
      BY <2>1, CalmPlaces DEF Created, Sent, At, Calm
    <3> QED
      BY <1>1, <3>1
  <2>2. CASE run'.worker = run.worker
    BY <1>1, <1>2, <2>2
  <2> QED
    BY <1>2, <2>1, <2>2 DEF RunMoves
<1>4. Acting' # {} => CurStatus' = "running" \/ pc'[1] \in {"quiesce", "stopLost", "drain"}
  <2>1. CASE Acting # {}
    BY <2>1, RunningStep
  <2>2. CASE Sent /\ CurStatus = "running"
    <3>1. att' = att
      BY <2>2 DEF Sent, rowVars
    <3>2. Cur' = Cur
      BY <3>1, CurKept
    <3> QED
      BY <2>2, <3>1, <3>2 DEF CurStatus
  <2> QED
    BY <1>1, <2>1, <2>2
<1>5. Over' <=> run'.status \in Terminal
  BY DEF Over
<1>6. Over => (Release \/ StopWork \/ Drained \/ Exit \/ (pc' = pc /\ workers' = workers /\ armed' = armed))
              \/ (pc[1] \notin Ending /\ Acting = {} /\ workers = {} /\ armed = {})
  BY EndingMoves DEF WorkInv, Ending
<1>7. Over' /\ Acting' # {} => pc'[1] \in {"stopWork", "drain"}
  <2> SUFFICES ASSUME Over', Acting' # {} PROVE pc'[1] \in {"stopWork", "drain"}
    OBVIOUS
  <2>1. CASE Over
    <3>1. Acting # {}
      BY <1>1, <2>1
    <3>2. pc[1] \in {"stopWork", "drain"} /\ ~Drained /\ ~Exit
      BY <2>1, <3>1, Stopped DEF WorkInv
    <3>3. StopWork \/ pc' = pc
      BY <1>6, <2>1, <3>1, <3>2 DEF Release, At
    <3> QED
      BY <3>2, <3>3 DEF StopWork, Goes
  <2>2. CASE ~Over
    <3>1. pc' = <<"release", FALSE>> \/ pc' = <<"stopWork">>
      BY <1>2, <1>5, <2>2 DEF RunMoves
    <3>2. pc' # <<"release", FALSE>>
      <4> SUFFICES ASSUME pc' = <<"release", FALSE>> PROVE FALSE
        OBVIOUS
      <4>1. pc'[1] = "release"
        OBVIOUS
      <4>2. Acting = {}
        BY <2>2, <4>1, ReleasedCalm
      <4>3. ~Sent
        <5>1. Sent => pc' = <<"idle">>
          BY DEF Sent, Idles, Goes
        <5> QED
          BY <4>1, <5>1
      <4> QED
        BY <1>1, <4>2, <4>3
    <3>3. pc' = <<"stopWork">> => pc'[1] = "stopWork"
      OBVIOUS
    <3> QED
      BY <3>1, <3>2, <3>3
  <2> QED
    BY <2>1, <2>2
<1>8. armed \subseteq workers \/ (pc[1] = "go" /\ armed \subseteq workers \cup {pc[3]})
  BY DEF WorkInv
<1>9. armed' \subseteq workers' \cup (IF pc'[1] = "go" THEN {pc'[3]} ELSE {})
  <2> DEFINE Goal == armed' \subseteq workers' \cup (IF pc'[1] = "go" THEN {pc'[3]} ELSE {})
  <2>1. armed' \subseteq workers' => Goal
    OBVIOUS
  <2>2. armed' = armed /\ workers' = workers /\ (pc[1] # "go" \/ pc' = pc) => Goal
    BY <1>8
  <2>3. \A kind : Takes(kind) => pc[1] # "go"
    BY DEF Takes, At
  <2>4. \A place : At(place) => pc[1] = place
    BY DEF At
  <2>5. CASE Release
    BY <1>8, <2>1, <2>4, <2>5 DEF Release
  <2>6. CASE TakeSpawn
    <3>1. armed \subseteq workers
      BY <1>8, <2>3, <2>6 DEF TakeSpawn
    <3>2. \/ armed' = armed /\ workers' = workers
          \/ armed' = armed \ {run.worker} /\ workers' = workers \ {run.worker}
          \/ armed' = armed \cup {run.worker} /\ workers' = workers /\ pc' = <<"go", Head1[2], run.worker>>
      BY <2>6 DEF TakeSpawn, Goes
    <3>3. pc' = <<"go", Head1[2], run.worker>> => pc'[1] = "go" /\ pc'[3] = run.worker
      OBVIOUS
    <3> QED
      BY <3>1, <3>2, <3>3
  <2>7. CASE Replaced
    <3>1. armed \subseteq workers
      BY <1>8, <2>4, <2>7 DEF Replaced
    <3> QED
      BY <2>1, <2>7, <3>1 DEF Replaced
  <2>8. CASE Created
    <3>1. armed \subseteq workers
      BY <1>8, <2>4, <2>8 DEF Created
    <3>2. workers' = workers /\ (armed' = armed \/ \E s : armed' = armed \cup {s} /\ pc' = <<"go", A, s>>)
      BY <2>8 DEF Created, Goes, sessVars
    <3>3. \A s : pc' = <<"go", A, s>> => pc'[1] = "go" /\ pc'[3] = s
      OBVIOUS
    <3> QED
      BY <3>1, <3>2, <3>3
  <2>9. CASE Go
    BY <1>8, <2>1, <2>9 DEF Go, sessVars
  <2>10. CASE Boot
    <3>1. workers = {} /\ pc[1] # "go"
      BY <2>10 DEF Boot, PlaceInv
    <3> QED
      BY <1>8, <2>1, <2>10, <3>1 DEF Boot, sessVars
  <2>11. CASE Exit
    BY <2>1, <2>11 DEF Exit
  <2>12. CASE armed' = armed /\ workers' = workers
    <3>1. pc[1] # "go" \/ pc' = pc \/ Go \/ Exit \/ Boot
      BY GoingMoves
    <3>2. pc[1] # "go" \/ pc' = pc => Goal
      BY <2>2, <2>12
    <3> QED
      BY <2>9, <2>10, <2>11, <3>1, <3>2
  <2> QED
    BY <2>5, <2>6, <2>7, <2>8, <2>9, <2>10, <2>11, <2>12, SetsMove
<1>10. Over' /\ pc'[1] \notin Ending => workers' = {} /\ armed' = {}
  <2> SUFFICES ASSUME Over', pc'[1] \notin Ending PROVE workers' = {} /\ armed' = {}
    OBVIOUS
  <2>1. Over
    BY <1>5, OverStep DEF Ending
  <2>2. CASE pc[1] \in Ending
    <3>1. armed \subseteq workers
      BY <1>8, <2>2 DEF Ending
    <3>2. pc' # pc /\ pc' # <<"drain">> /\ pc' # <<"release", TRUE>>
      <4>1. pc' = <<"drain">> => pc'[1] = "drain"
        OBVIOUS
      <4>2. pc' = <<"release", TRUE>> => pc'[1] = "release"
        OBVIOUS
      <4> QED
        BY <2>2, <4>1, <4>2 DEF Ending
    <3>3. ~StopWork /\ ~Drained
      BY <3>2 DEF StopWork, Drained, Goes
    <3>4. Release \/ Exit
      BY <1>6, <2>1, <2>2, <3>2, <3>3
    <3> QED
      BY <3>1, <3>4 DEF Release, Exit
  <2>3. CASE pc[1] \notin Ending
    <3>1. workers = {} /\ armed = {} /\ pc[1] \in Unguarded
      BY <2>1, <2>3 DEF WorkInv, PlaceInv
    <3>2. ~Replaced /\ ~Created /\ ~Go
      BY <3>1 DEF Replaced, Created, Go, At, Unguarded
    <3>3. (armed' = armed /\ workers' = workers) \/ Boot \/ TakeSpawn \/ Release \/ Exit
      BY <3>2, SetsMove
    <3>4. TakeSpawn => armed' = armed /\ workers' = workers
      BY <2>1 DEF TakeSpawn, Startable
    <3>5. Boot => armed' = armed /\ workers' = {}
      BY <2>1 DEF Boot, Followed, sessVars
    <3>6. Release \/ Exit => armed' = {} /\ workers' = {}
      BY <3>1 DEF Release, Exit
    <3> QED
      BY <3>1, <3>3, <3>4, <3>5, <3>6
  <2> QED
    BY <2>2, <2>3
<1> QED
  BY <1>3, <1>4, <1>7, <1>9, <1>10 DEF WorkInv

-----------------------------------------------------------------------------
(* What is delivered, and what becomes of guidance.                            *)

LEMMA DeliveredStep ==
  ASSUME TypeOK, RowsInv, ItemsInv, PlaceInv, DeliveredProven, Next
  PROVE  DeliveredProven'
<1>1. RunMoves /\ Grew /\ proven \subseteq proven' /\ run \in RunRows
  BY RunStep, GrewStep, ProvenStep DEF TypeOK
<1> SUFFICES ASSUME run'.status = "completed"
             PROVE  /\ run'.accepted # 0 /\ att'[run'.accepted].result = "verified"
                    /\ run'.delivered = att'[run'.accepted].tree /\ run'.delivered \in proven' \ {Base}
  BY DEF DeliveredProven
<1>2. ASSUME NEW a \in Rows, att[a].result = "verified", run'.accepted = a, run'.delivered = att[a].tree,
             att[a].tree \in proven \ {Base}
      PROVE  /\ run'.accepted # 0 /\ att'[run'.accepted].result = "verified"
             /\ run'.delivered = att'[run'.accepted].tree /\ run'.delivered \in proven' \ {Base}
  <2>1. Done(a) /\ a # 0
    BY <1>2 DEF TypeOK, Done, Rows
  <2>2. att'[a].result = att[a].result /\ att'[a].tree = att[a].tree
    BY <1>1, <2>1 DEF Grew
  <2> QED
    BY <1>1, <1>2, <2>1, <2>2
<1>3. CASE Over
  <2>1. run.status = "completed" /\ run'.accepted = run.accepted /\ run'.delivered = run.delivered
    BY <1>1, <1>3 DEF RunMoves
  <2>2. run.accepted \in Rows
    BY <1>1, <2>1 DEF DeliveredProven, RunRows
  <2> QED
    BY <1>2, <2>1, <2>2 DEF DeliveredProven
<1>4. CASE ~Over
  <2>1. Committed /\ run'.accepted = A /\ run'.delivered = att[A].tree
    BY <1>1, <1>4 DEF RunMoves
  <2>2. A \in Rows /\ att[A].result = "verified" /\ att[A].tree # Base
    BY <2>1, PlaceArgs DEF Committed, At, A, AtRow, PlaceInv, TypeOK
  <2>3. att[A].tree \in proven
    BY <2>2 DEF RowsInv, RowInv
  <2> QED
    BY <1>2, <2>1, <2>2, <2>3
<1> QED
  BY <1>3, <1>4

LEMMA SteerStep ==
  ASSUME TypeOK, RowsInv, ItemsInv, PlaceInv, SteerKept, Next
  PROVE  SteerKept'
<1> DEFINE Heard(a) == att'[a].steer /\ (att'[a].started \/ a = Cur' \/ att'[a].result = "worker_failed")
<1>1. /\ RunMoves /\ Grew
      /\ \/ att' # att /\ Start /\ Cur + 1 \in Rows /\ NewRow(Cur + 1) /\ Cur' = Cur + 1
         \/ Cur' = Cur /\ \A a \in Rows : att'[a].status # "none" <=> att[a].status # "none"
  BY RunStep, GrewStep
<1>2. /\ Cur # 0 => Cur \in Rows /\ att[Cur].status # "none"
      /\ 0 \notin Rows
  BY RowFacts DEF Rows
<1> SUFFICES ASSUME said', ~Over', ~run'.steer PROVE \E a \in Rows : Heard(a)
  BY Zenon DEF SteerKept
<1>3. ~Over /\ said
  <2>1. Over => run'.status = run.status
    BY <1>1 DEF RunMoves
  <2>2. said' => said \/ run'.steer
    BY <1>1 DEF RunMoves
  <2> QED
    BY <2>1, <2>2 DEF Over
<1>4. CASE run.steer
  <2>1. Start /\ att' # att
    BY <1>1, <1>4 DEF RunMoves
  <2>2. Cur + 1 \in Rows /\ NewRow(Cur + 1) /\ Cur' = Cur + 1
    <3>1. Cur + 1 \in Rows /\ att' = [att EXCEPT ![Cur + 1] = [NoAttempt EXCEPT !.status = "queued", !.steer = Carries(A, pc[3])]]
      BY <2>1 DEF Start, rowVars
    <3>2. att'[Cur + 1].status = "queued"
      BY <3>1 DEF NoAttempt, TypeOK
    <3>3. att[Cur + 1].status = "none"
      <4>1. Cur \in Nat /\ (att[Cur + 1].status # "none" <=> Cur + 1 <= Cur)
        BY <3>1, RowFacts
      <4> QED
        BY <4>1
    <3> QED
      BY <1>1, <3>1, <3>2, <3>3
  <2>3. att'[Cur + 1].steer
    BY <1>4, <2>2, Zenon DEF NewRow, Carries
  <2> QED
    BY <2>2, <2>3
<1>5. CASE \E w \in Rows : att[w].steer /\ (att[w].started \/ w = Cur \/ att[w].result = "worker_failed")
  <2>1. PICK w \in Rows : att[w].steer /\ (att[w].started \/ w = Cur \/ att[w].result = "worker_failed")
    BY <1>5
  <2>2. att[w].status # "none"
    <3>1. att[w].started => att[w].status # "none"
      BY DEF RowsInv, RowInv
    <3>2. att[w].result = "worker_failed" => att[w].status = "done"
      BY DEF TypeOK
    <3>3. w = Cur => att[w].status # "none"
      BY <1>2
    <3> QED
      BY <2>1, <3>1, <3>2, <3>3
  <2>3. att'[w].steer
    <3>1. att'[w].steer = att[w].steer
      BY <1>1, <2>2 DEF Grew
    <3> QED
      BY <2>1, <3>1
  <2>4. CASE att[w].started
    <3>1. att'[w].started
      BY <1>1, <2>4 DEF Grew
    <3> QED
      BY <2>3, <3>1
  <2>5. CASE att[w].result = "worker_failed"
    <3>1. Done(w)
      BY <2>5 DEF TypeOK, Done
    <3>2. att'[w].result = "worker_failed"
      BY <1>1, <2>5, <3>1 DEF Grew
    <3> QED
      BY <2>3, <3>2
  <2>6. CASE w = Cur /\ Cur' = Cur
    BY <2>3, <2>6
  <2>7. CASE w = Cur /\ ~att[w].started /\ att[w].result # "worker_failed"
             /\ Start /\ Cur + 1 \in Rows /\ NewRow(Cur + 1) /\ Cur' = Cur + 1
    <3>1. pc[1] = "start" /\ Cur # 0
      BY <1>2, <2>7 DEF Start, At
    <3>2. pc[2] = w /\ (pc[3] \/ att[w].started \/ att[w].result = "worker_failed")
      BY <2>7, <3>1 DEF PlaceInv
    <3>3. pc[3]
      BY <2>7, <3>2
    <3>4. A = w
      BY <3>2 DEF A
    <3>5. att'[Cur + 1].steer
      BY <2>1, <2>7, <3>3, <3>4, Zenon DEF NewRow, Carries
    <3> QED
      BY <2>7, <3>5
  <2> QED
    BY <1>1, <2>1, <2>4, <2>5, <2>6, <2>7
<1>6. run.steer \/ \E w \in Rows : att[w].steer /\ (att[w].started \/ w = Cur \/ att[w].result = "worker_failed")
  BY <1>3, Zenon DEF SteerKept
<1> QED
  BY <1>4, <1>5, <1>6

-----------------------------------------------------------------------------
(* The invariant.                                                              *)

LEMMA InitOK == Init => IInv
<1> SUFFICES ASSUME Init PROVE IInv
  OBVIOUS
<1>1. Made = {} /\ Cur = 0 /\ MaxRows \in Nat /\ Made = 1 .. 0
  <2>1. att = [a \in Rows |-> NoAttempt] /\ NoAttempt.status = "none"
    BY DEF Init, NoAttempt
  <2>2. Made = {}
    BY <2>1 DEF Made
  <2>3. Cur = 0
    BY <2>2, FS_EmptySet DEF Cur, Made
  <2> QED
    BY <2>2, <2>3, ConstantsAssumption
<1>2. run \in RunRows
  BY DEF Init, RunRows, Terminal, NoWorker
<1>3. NoAttempt \in AttemptRows
  BY DEF NoAttempt, AttemptRows, Results, NoWorker
<1>4. /\ att \in [Rows -> AttemptRows]
      /\ \A a \in Rows : att[a] = NoAttempt
  BY <1>3 DEF Init
<1>5. \A a \in Rows : att[a].result = "none" /\ att[a].status = "none" /\ ~att[a].started
  BY <1>4 DEF NoAttempt
<1>6. chain = <<<<"prepare">>>> /\ pc = <<"idle">> /\ chain \in Seq(Items) /\ pc \in Places
  BY IsItem, IsPlace DEF Init, Plain, Bare
<1>7. Spots = {1} /\ chain[1] = <<"prepare">> /\ chain[1][1] = "prepare" /\ pc[1] = "idle"
  BY <1>6 DEF Spots
<1>8. TypeOK
  <2>1. \A a \in Rows : att[a].result # "none" <=> att[a].status = "done"
    BY <1>5
  <2>2. /\ task \in [Rows -> Open \cup {"none", "over"}] /\ deadline \in [Rows -> {"none", "armed", "fired", "paused"}]
        /\ session \in [Workers -> {"none", "idle", "active", "waiting", "stopping", "error", "gone"}]
    BY DEF Init
  <2>3. /\ timedOut \subseteq Rows /\ workers \subseteq Workers /\ tooled \subseteq Workers /\ armed \subseteq Workers
        /\ tree \in Trees /\ proven \subseteq Trees
    BY ConstantsAssumption DEF Init
  <2>4. mix \in [faults : SUBSET FaultKinds, pauses : Nat, steers : Nat, holds : Nat, lapses : Nat, boots : Nat \ {0}]
    BY ConstantsAssumption DEF Init
  <2>5. {cancelling, aborted, up, stopped, said} \subseteq BOOLEAN
    BY DEF Init
  <2> QED
    BY <1>2, <1>4, <1>6, <2>1, <2>2, <2>3, <2>4, <2>5 DEF TypeOK
<1>9. RowsInv
  <2>1. Dense
    BY <1>1 DEF Dense
  <2>2. \A a \in Rows : task[a] = "none" /\ deadline[a] = "none" /\ a \notin timedOut /\ ~(a < Cur)
    BY <1>1 DEF Init, Rows
  <2>3. run.status # "verifying"
    BY DEF Init
  <2> QED
    BY <1>5, <2>1, <2>2, <2>3 DEF RowsInv, RowInv
<1>10. ItemsInv /\ FirstInv
  BY <1>1, <1>6, <1>7 DEF ItemsInv, ItemInv, ItemOf, FirstInv
<1>11. ~Over /\ up
  BY DEF Init, Over, Terminal
<1>12. PlaceInv
  BY <1>7, <1>11 DEF PlaceInv, Ending, Unguarded
<1>13. WorkInv
  BY <1>7, <1>11 DEF Init, WorkInv, Acting
<1>14. DeliveredProven /\ SteerKept
  BY DEF Init, DeliveredProven, SteerKept
<1> QED
  BY <1>8, <1>9, <1>10, <1>12, <1>13, <1>14 DEF IInv

LEMMA StepOK == IInv /\ [Next]_vars => IInv'
<1> SUFFICES ASSUME IInv, [Next]_vars PROVE IInv'
  OBVIOUS
<1>1. TypeOK /\ RowsInv /\ ItemsInv /\ FirstInv /\ PlaceInv /\ WorkInv /\ DeliveredProven /\ SteerKept
  BY DEF IInv
<1>2. CASE Next
  <2>1. TypeOK'
    <3>1. run' \in RunRows /\ RowsTyped'
      BY <1>1, <1>2, RunTyped, GrewStep
    <3>2. task' \in [Rows -> Open \cup {"none", "over"}]
      BY <1>1, <1>2, TaskStep DEF TaskStatus
    <3>3. chain' \in Seq(Items) /\ pc' \in Places
      BY <1>1, <1>2, ItemsStep, PlaceStep
    <3>4. deadline' \in [Rows -> {"none", "armed", "fired", "paused"}] /\ timedOut' \subseteq Rows
      BY <1>1, <1>2, ClockStep DEF ClockStatus
    <3>5. session' \in [Workers -> {"none", "idle", "active", "waiting", "stopping", "error", "gone"}]
      BY <1>1, <1>2, SessionTyped DEF SessionStatus
    <3>6. /\ workers' \subseteq Workers /\ tooled' \subseteq Workers /\ armed' \subseteq Workers
          /\ proven' \subseteq Trees
      BY <1>1, <1>2, SetsTyped, ProvenStep
    <3>7. mix' \in [faults : SUBSET FaultKinds, pauses : Nat, steers : Nat, holds : Nat, lapses : Nat, boots : Nat \ {0}]
      BY <1>1, <1>2, MixTyped DEF MixRows
    <3>8. tree' \in Trees /\ {cancelling', aborted', up', stopped', said'} \subseteq BOOLEAN
      BY <1>1, <1>2, FlagsTyped
    <3> QED
      BY <3>1, <3>2, <3>3, <3>4, <3>5, <3>6, <3>7, <3>8 DEF TypeOK, RowsTyped
  <2>2. RowsInv' /\ ItemsInv' /\ FirstInv' /\ PlaceInv' /\ WorkInv'
    BY <1>1, <1>2, RowsStep, ItemsStep, FirstStep, PlaceStep, WorkStep
  <2>3. DeliveredProven' /\ SteerKept'
    BY <1>1, <1>2, DeliveredStep, SteerStep
  <2> QED
    BY <2>1, <2>2, <2>3 DEF IInv
<1>3. CASE UNCHANGED vars
  <2>1. UNCHANGED <<run, att, task, chain, pc, deadline, timedOut, workers, session, tooled, armed>>
    BY <1>3 DEF vars, rowVars, timeVars, sessVars
  <2>2. UNCHANGED <<cancelling, aborted, tree, up, stopped, mix, proven, said>>
    BY <1>3 DEF vars, askVars, histVars
  <2>3. TypeOK'
    BY <1>1, <2>1, <2>2 DEF TypeOK
  <2>4. Cur' = Cur /\ CurStatus' = CurStatus /\ Over' = Over /\ Acting' = Acting /\ Made' = Made /\ Spots' = Spots
    BY <2>1 DEF Cur, CurStatus, Over, Acting, Made, Spots
  <2>5. RowsInv'
    BY <1>1, <2>1, <2>2, <2>4 DEF RowsInv, RowInv, Dense, Done
  <2>6. ItemsInv' /\ FirstInv'
    BY <1>1, <2>1, <2>4 DEF ItemsInv, ItemInv, ItemOf, FirstInv, Done
  <2>7. PlaceInv' /\ WorkInv'
    BY <1>1, <2>1, <2>2, <2>4 DEF PlaceInv, WorkInv, Done
  <2>8. DeliveredProven' /\ SteerKept'
    BY <1>1, <2>1, <2>2, <2>4 DEF DeliveredProven, SteerKept
  <2> QED
    BY <2>3, <2>5, <2>6, <2>7, <2>8 DEF IInv
<1> QED
  BY <1>2, <1>3

(* The invariant holds of the run through every fault, restart and request:    *)
(* what the rows, the chain and the place of the executing item say of one     *)
(* another.                                                                    *)
THEOREM RunHolds == Spec => []IInv
<1> QED
  BY InitOK, StepOK, PTL DEF Spec

(* Every variable keeps its type: the rows the store holds, the chain's items  *)
(* and the places of the executing one.                                        *)
THEOREM TypeCorrect == Spec => []TypeOK
<1>1. IInv => TypeOK
  BY DEF IInv
<1> QED
  BY <1>1, RunHolds, PTL

(* #deliver: a completed run delivered the candidate of the attempt it         *)
(* accepted, whose checks all passed, and not the code it started from.        *)
THEOREM DeliversProven == Spec => []DeliveredProven
<1>1. IInv => DeliveredProven
  BY DEF IInv
<1> QED
  BY <1>1, RunHolds, PTL

(* spawnAttemptWorker and #verify: over replacements, lost claims and restarts *)
(* at most one worker acts on the run's tree, none while a candidate is taken. *)
THEOREM WorkersTakeTurns == Spec => []OneWorker
<1>1. IInv => OneWorker
  <2> SUFFICES ASSUME IInv PROVE OneWorker
    OBVIOUS
  <2>1. Acting \subseteq {run.worker} /\ (pc[1] = "snapshot" => Acting = {})
    BY CalmPlaces DEF IInv, WorkInv, Calm
  <2>2. IsFiniteSet({run.worker}) /\ Cardinality({run.worker}) = 1
    BY FS_Singleton
  <2>3. Cardinality(Acting) <= 1
    BY <2>1, <2>2, FS_Subset
  <2> QED
    BY <2>1, <2>3 DEF OneWorker
<1> QED
  BY <1>1, RunHolds, PTL

(* #end and #release: once the item that ended the run is done, no worker is   *)
(* the run's, acts for it or keeps the autonomy it was given.                  *)
THEOREM ReleasesItsWorkers == Spec => []ReleasedAtEnd
<1>1. IInv => ReleasedAtEnd
  BY DEF IInv, WorkInv, ReleasedAtEnd, Ending
<1> QED
  BY <1>1, RunHolds, PTL

(* steerRun, #startAttempt: guidance is pending or in the prompt of an attempt *)
(* that was started, is the last, or failed to start, through every pause,     *)
(* restart and lost claim.                                                     *)
THEOREM GuidanceIsKept == Spec => []SteerKept
<1>1. IInv => SteerKept
  BY DEF IInv
<1> QED
  BY <1>1, RunHolds, PTL
=============================================================================
