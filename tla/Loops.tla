------------------------------- MODULE Loops -------------------------------
(* One loop run (src/daemon/loops/service.ts, store.ts): a workspace is        *)
(* prepared, its checks are run on the unmodified code, then attempts by a     *)
(* worker session, queued on the dispatcher, are verified one after the other  *)
(* until one passes or a limit is met.  Everything that decides runs in the    *)
(* run's chain (#enqueue); what the owner, the dispatcher, the worker and the  *)
(* clock do happens between the awaits of the item being executed.  Rows and   *)
(* tasks survive the process, the rest does not.                               *)
EXTENDS Naturals, FiniteSets, Sequences, SequencesExt

CONSTANTS Limit,        \* contract.limits.attempts
          Trees,        \* git trees the workspace may hold
          Base,         \* the unmodified one
          NoTree,
          Mixes,        \* bound: what may go wrong in one behaviour, and how often
          MaxRows,      \* bound: attempts, those that do not count included
          MaxWorkers    \* bound: sessions made for the run

FaultKinds == {"throw", "crash", "stop", "vanish", "cancel", "ask", "conflict", "time"}

ASSUME ConstantsAssumption ==
    /\ {Limit, MaxRows, MaxWorkers} \subseteq Nat \ {0} /\ Base \in Trees /\ NoTree \notin Trees
    /\ Mixes \subseteq [faults : SUBSET FaultKinds, pauses : Nat, steers : Nat, holds : Nat, lapses : Nat, boots : Nat \ {0}]

Rows == 1 .. MaxRows
Workers == 1 .. MaxWorkers
NoWorker == 0
Terminal == {"completed", "budget_exhausted", "blocked", "failed", "cancelled"}

VARIABLES
    run,        \* loop_runs: the row
    att,        \* loop_attempts
    task,       \* the dispatcher's task of each attempt
    chain,      \* #chains: the items that wait
    pc,         \* where the executing item is
    deadline,   \* #deadlines, #deadlineAt and #remaining, per attempt
    timedOut,   \* #timedOut
    cancelling, aborted,            \* #cancelling; the signal of what is awaited
    workers,                        \* #workers
    session, tooled, armed,         \* sessions: status, loop_report at hand, mode autonomous
    tree,       \* what the worktree holds
    up, stopped,
    mix,        \* bound: one of Mixes, counted down
    proven,     \* history: trees all of whose checks passed
    said        \* history: guidance was accepted

rowVars == <<run, att>>
timeVars == <<deadline, timedOut>>
askVars == <<cancelling, aborted>>
sessVars == <<session, tooled, armed>>
histVars == <<mix, proven, said>>
vars == <<rowVars, task, chain, pc, timeVars, askVars, workers, sessVars, tree, up, stopped, histVars>>

NoAttempt == [status |-> "none", result |-> "none", task |-> FALSE, started |-> FALSE, held |-> FALSE,
              report |-> "none", tree |-> NoTree, steer |-> FALSE, worker |-> NoWorker]

\* startRun creates the row and queues its preparation.
Init ==
    /\ run = [status |-> "running", waitingOn |-> "none", prepared |-> FALSE, steer |-> FALSE,
              worker |-> NoWorker, accepted |-> 0, delivered |-> NoTree]
    /\ att = [a \in Rows |-> NoAttempt] /\ task = [a \in Rows |-> "none"]
    /\ chain = <<<<"prepare">>>> /\ pc = <<"idle">>
    /\ deadline = [a \in Rows |-> "none"] /\ timedOut = {}
    /\ cancelling = FALSE /\ aborted = FALSE /\ workers = {}
    /\ session = [s \in Workers |-> "none"] /\ tooled = {} /\ armed = {}
    /\ tree = Base /\ up = TRUE /\ stopped = FALSE
    /\ mix \in Mixes /\ proven = {} /\ said = FALSE

-----------------------------------------------------------------------------
Over == run.status \in Terminal
Cur == Cardinality({a \in Rows : att[a].status # "none"})
CurStatus == IF Cur = 0 THEN "none" ELSE att[Cur].status
Fault(f) == f \in mix.faults
Acting == {s \in Workers : session[s] \in {"active", "waiting", "stopping"}}
Alive(s) == s # NoWorker /\ session[s] \notin {"none", "gone"}
QuietedIfActive(s) == [session EXCEPT ![s] = IF @ = "active" THEN "idle" ELSE @]
Quieted(s) == [session EXCEPT ![s] = IF @ \in {"none", "gone"} THEN @ ELSE "idle"]
Interrupted(S) == [s \in Workers |-> IF s \in S \cap Acting THEN "stopping" ELSE session[s]]

(* Between the awaits of an item nothing else runs, but the process may die    *)
(* between two of its writes: those are the places named here.                 *)
Mid == {"verify", "verifying", "after", "start", "enqueue", "record", "giveBack", "go", "release", "stopWork"}
Quiet == up /\ pc[1] \notin Mid
At(place) == up /\ pc[1] = place
A == pc[2]
Head1 == Head(chain)
Takes(kind) == At("idle") /\ chain # <<>> /\ Head1[1] = kind
Pop == chain' = Tail(chain)
Goes(place) == pc' = place
Idles == Goes(<<"idle">>)
Queues(item) == chain' = Append(chain, item)

FinishAttempt(a, result) == att' = [att EXCEPT ![a].status = "done", ![a].result = result, ![a].held = FALSE]
Ended(a) == timedOut' = timedOut \ {a}
Cleared(a) == deadline' = [deadline EXCEPT ![a] = "none"]

(* #end: the run's row; then #release takes the worker's autonomy away.        *)
Ends(r, status) == run' = [r EXCEPT !.status = status, !.waitingOn = "none"]
End(status) == Ends(run, status) /\ Goes(<<"release", FALSE>>)
Release ==
    /\ At("release")
    /\ workers' = {} /\ armed' = armed \ workers
    /\ cancelling' = (cancelling /\ ~pc[2])         \* `finally` of the cancel's own item
    /\ Idles
    /\ UNCHANGED <<rowVars, task, chain, timeVars, aborted, session, tooled, tree, up, stopped, histVars>>

-----------------------------------------------------------------------------
(* #prepareAndBaseline, also for a run resumed or restarted without attempts.  *)

Checking(place) == Goes(place) /\ aborted' = FALSE      \* a signal of its own
Baseline(r) ==
    \/ /\ run' = r /\ Checking(<<"baseline">>)
    \/ /\ Fault("throw") /\ Ends(r, "failed")           \* no snapshot
       /\ Goes(<<"release", FALSE>>) /\ UNCHANGED aborted
PrepareAgain ==
    \/ /\ Over \/ (run.prepared /\ run.status = "paused")
       /\ Idles /\ UNCHANGED <<run, aborted>>
    \/ /\ ~Over /\ ~run.prepared /\ UNCHANGED run /\ Checking(<<"prepare">>)
    \/ /\ ~Over /\ run.prepared /\ run.status # "paused" /\ Baseline(run)
TakePrepare ==
    /\ Takes("prepare") /\ Pop
    /\ PrepareAgain
    /\ UNCHANGED <<att, task, timeVars, cancelling, workers, sessVars, tree, up, stopped, histVars>>

\* prepareWorkspace resolves, or throws: by itself, or because it was aborted.
Prepared ==
    /\ At("prepare")
    /\ LET made == [run EXCEPT !.prepared = TRUE] IN
       \/ /\ run.status = "paused" /\ run' = made /\ Idles /\ UNCHANGED aborted
       \/ /\ run.status # "paused" /\ Baseline(made)
       \/ /\ Fault("throw") /\ ~aborted /\ End("failed") /\ UNCHANGED aborted
       \/ /\ aborted /\ Idles /\ UNCHANGED <<run, aborted>>
    /\ UNCHANGED <<att, task, chain, timeVars, cancelling, workers, sessVars, tree, up, stopped, histVars>>

\* What stopped the checks part-way: their result is never judged.
CutShort == aborted \/ stopped \/ cancelling
Baselined ==
    /\ At("baseline")
    /\ \/ /\ CutShort /\ Idles /\ UNCHANGED run
       \/ /\ ~CutShort /\ Goes(<<"start", 0, FALSE>>) /\ UNCHANGED run
       \/ /\ ~CutShort /\ End("blocked")                \* nothing to repair
       \/ /\ ~CutShort /\ Fault("throw") /\ End("failed")
    /\ UNCHANGED <<att, task, chain, timeVars, askVars, workers, sessVars, tree, up, stopped, histVars>>

-----------------------------------------------------------------------------
(* #startAttempt, from a prompt made for the run as it is.                     *)

(* The prompt of an attempt that never ran is queued again, with what it held. *)
CarriesPending(prev, again) == run.steer
Carries(prev, again) == run.steer \/ (again /\ att[prev].steer)
Start ==
    /\ At("start")
    /\ IF stopped \/ cancelling \/ Over \/ run.status = "paused"
         THEN Idles /\ UNCHANGED rowVars
         ELSE LET a == Cur + 1 IN
              /\ a \in Rows
              /\ att' = [att EXCEPT ![a] = [NoAttempt EXCEPT !.status = "queued", !.steer = Carries(A, pc[3])]]
              /\ run' = [run EXCEPT !.status = "running", !.waitingOn = "none", !.steer = FALSE]
              /\ Goes(<<"enqueue", a>>)
    /\ UNCHANGED <<task, chain, timeVars, askVars, workers, sessVars, tree, up, stopped, histVars>>

Enqueue ==
    /\ At("enqueue")
    /\ \/ /\ task' = [task EXCEPT ![A] = "queued"]
          /\ Goes(<<"record", A>>) /\ UNCHANGED rowVars
       \/ /\ Fault("throw")
          /\ FinishAttempt(A, "worker_failed") /\ End("failed") /\ UNCHANGED task
    /\ UNCHANGED <<chain, timeVars, askVars, workers, sessVars, tree, up, stopped, histVars>>

Record ==
    /\ At("record")
    /\ att' = [att EXCEPT ![A].task = TRUE] /\ Idles
    /\ UNCHANGED <<run, task, chain, timeVars, askVars, workers, sessVars, tree, up, stopped, histVars>>

-----------------------------------------------------------------------------
(* The dispatcher's side of an attempt (Dispatch.tla has it in full).          *)

Open == {"queued", "claimed", "running", "held"}
Claim(a) ==
    /\ Quiet /\ task[a] = "queued"
    /\ task' = [task EXCEPT ![a] = "claimed"] /\ Queues(<<"spawn", a>>)
    /\ UNCHANGED <<rowVars, pc, timeVars, askVars, workers, sessVars, tree, up, stopped, histVars>>

TaskSettles(a) ==
    /\ Quiet /\ task[a] = "running" /\ session[att[a].worker] \in {"idle", "error"}
    /\ task' = [task EXCEPT ![a] = "over"]
    /\ Queues(<<"settled", a, IF session[att[a].worker] = "idle" THEN "done" ELSE "failed">>)
    /\ UNCHANGED <<rowVars, pc, timeVars, askVars, workers, sessVars, tree, up, stopped, histVars>>

\* A lease that was not renewed, a hold that outlived holdMaxMs.
Lapses(a) ==
    /\ Quiet /\ mix.lapses > 0 /\ task[a] \in {"claimed", "running", "held"}
    /\ task' = [task EXCEPT ![a] = "over"] /\ Queues(<<"settled", a, "reclaimed">>)
    /\ mix' = [mix EXCEPT !.lapses = @ - 1]
    /\ UNCHANGED <<rowVars, pc, timeVars, askVars, workers, sessVars, tree, up, stopped, proven, said>>

\* The chain without its head, and what a task that ends has the loop told.
Told(a, rest) == IF task[a] \in Open THEN Append(rest, <<"settled", a, "failed">>) ELSE rest
TaskEnds(a) == task' = [task EXCEPT ![a] = IF @ \in Open THEN "over" ELSE @]

-----------------------------------------------------------------------------
(* spawnAttemptWorker.                                                         *)

\* It throws: the dispatcher fails the task, if the claim is still its own.
Throws(a, rest) == TaskEnds(a) /\ chain' = Told(a, rest)
Startable(a) == ~Over /\ ~cancelling /\ att[a].status = "queued" /\ Cur = a
Reusable(s) == s # NoWorker /\ session[s] = "idle" /\ s \in tooled
TakeSpawn ==
    /\ Takes("spawn")
    /\ LET a == Head1[2]
           rest == Tail(chain)
           s == run.worker
       IN \/ /\ ~Startable(a)
             /\ Throws(a, rest) /\ Idles /\ UNCHANGED <<rowVars, workers, armed>>
          \/ /\ Startable(a) /\ (run.status = "paused" \/ stopped)
             /\ Throws(a, rest) /\ Goes(<<"giveBack", a>>) /\ UNCHANGED <<rowVars, workers, armed>>
          \/ /\ Startable(a) /\ run.status # "paused" /\ ~stopped /\ Fault("time")
             /\ FinishAttempt(a, "stopped") /\ End("budget_exhausted")
             /\ Throws(a, rest) /\ UNCHANGED <<workers, armed>>
          \/ /\ Startable(a) /\ run.status # "paused" /\ ~stopped
             /\ chain' = rest /\ UNCHANGED <<rowVars, task>>
             /\ \/ /\ Reusable(s)
                   /\ armed' = armed \cup {s} /\ Goes(<<"go", a, s>>) /\ UNCHANGED workers
                \/ /\ ~Reusable(s) /\ Alive(s)
                   /\ Goes(<<"replace", a>>) /\ UNCHANGED <<workers, armed>>
                \/ /\ ~Reusable(s) /\ ~Alive(s)
                   /\ workers' = workers \ {s} /\ armed' = armed \ {s}
                   /\ Goes(<<"create", a>>)
    /\ UNCHANGED <<timeVars, askVars, session, tooled, tree, up, stopped, histVars>>

GiveBack ==
    /\ At("giveBack")
    /\ FinishAttempt(A, "stopped") /\ Idles
    /\ UNCHANGED <<run, task, chain, timeVars, askVars, workers, sessVars, tree, up, stopped, histVars>>

\* The old worker is stopped before another works on the same tree.
Replaced ==
    /\ At("replace")
    /\ LET s == run.worker IN
       /\ session' = Quieted(s)
       /\ workers' = workers \ {s} /\ armed' = armed \ {s}
    /\ Goes(<<"create", A>>)
    /\ UNCHANGED <<rowVars, task, chain, timeVars, askVars, tooled, tree, up, stopped, histVars>>

Created ==
    /\ At("create")
    /\ \/ /\ Fault("throw") /\ Throws(A, chain) /\ Idles
          /\ UNCHANGED <<run, sessVars>>
       \/ \E s \in Workers :
             /\ \A w \in Workers : session[w] = "none" <=> w >= s      \* the next one
             /\ session' = [session EXCEPT ![s] = "idle"]
             /\ tooled' = tooled \cup {s} /\ armed' = armed \cup {s}
             /\ run' = [run EXCEPT !.worker = s]
             /\ Goes(<<"go", A, s>>) /\ UNCHANGED <<task, chain>>
    /\ UNCHANGED <<att, timeVars, askVars, workers, tree, up, stopped, histVars>>

Go ==
    /\ At("go")
    /\ workers' = workers \cup {pc[3]}
    /\ att' = [att EXCEPT ![A].status = "running", ![A].started = TRUE, ![A].worker = pc[3]]
    /\ deadline' = [deadline EXCEPT ![A] = "armed"]
    /\ Goes(<<"send", A>>)
    /\ UNCHANGED <<run, task, chain, timedOut, askVars, sessVars, tree, up, stopped, histVars>>

\* The prompt is in the session, and the claim, if it is still held, is marked running.
Sent ==
    /\ At("send") /\ Idles
    /\ \/ /\ Fault("throw") /\ Throws(A, chain) /\ UNCHANGED session
       \/ /\ session' = [session EXCEPT ![att[A].worker] = "active"]
          /\ task' = [task EXCEPT ![A] = IF @ = "claimed" THEN "running" ELSE @]
          /\ UNCHANGED chain
    /\ UNCHANGED <<rowVars, timeVars, askVars, workers, tooled, armed, tree, up, stopped, histVars>>

-----------------------------------------------------------------------------
(* attemptSettled, attemptWaiting, workerStatusChanged.                        *)

IsSettled(a) == att[a].status = "done"
TakeSettled ==
    /\ Takes("settled") /\ Pop
    /\ LET a == Head1[2]
           how == Head1[3]
       IN \/ /\ IsSettled(a)
             /\ Idles /\ UNCHANGED <<att, deadline, timedOut>>
          \/ /\ ~IsSettled(a) /\ Over
             /\ FinishAttempt(a, "stopped") /\ Cleared(a) /\ Idles /\ UNCHANGED timedOut
          \/ /\ ~IsSettled(a) /\ ~Over /\ att[a].status = "verifying"
             /\ Cleared(a) /\ Goes(<<"verify", a>>) /\ UNCHANGED <<att, timedOut>>
          \/ /\ ~IsSettled(a) /\ ~Over /\ att[a].status = "queued" /\ how = "reclaimed"
             /\ FinishAttempt(a, "stopped") /\ Ended(a) /\ Cleared(a) /\ Goes(<<"after", a>>)
          \/ /\ ~IsSettled(a) /\ ~Over /\ how # "done" /\ a \notin timedOut
             /\ att[a].status # "verifying" /\ ~(att[a].status = "queued" /\ how = "reclaimed")
             /\ FinishAttempt(a, "worker_failed") /\ Ended(a) /\ Cleared(a)
             /\ LET s == IF att[a].worker # NoWorker THEN att[a].worker ELSE run.worker IN
                Goes(IF Alive(s) THEN <<"stopLost", a, s>> ELSE <<"after", a>>)
          \/ /\ ~IsSettled(a) /\ ~Over /\ (how = "done" \/ a \in timedOut)
             /\ att[a].status # "verifying" /\ ~(att[a].status = "queued" /\ how = "reclaimed")
             /\ Cleared(a) /\ Goes(<<"verify", a>>) /\ UNCHANGED <<att, timedOut>>
    /\ UNCHANGED <<run, task, askVars, workers, sessVars, tree, up, stopped, histVars>>

LostStopped ==
    /\ At("stopLost")
    /\ session' = Quieted(pc[3]) /\ Goes(<<"after", A>>)
    /\ UNCHANGED <<rowVars, task, chain, timeVars, askVars, workers, tooled, armed, tree, up, stopped, histVars>>

TakeWaiting ==
    /\ Takes("waiting") /\ Pop
    /\ LET a == Head1[2] IN
       IF Over \/ att[a].status # "running" \/ Cur # a \/ att[a].held
         THEN UNCHANGED <<rowVars, task, deadline>>
         ELSE /\ task' = [task EXCEPT ![a] = IF @ \in {"claimed", "running"} THEN "held" ELSE @]
              /\ deadline' = [deadline EXCEPT ![a] = IF @ = "none" THEN @ ELSE "paused"]
              /\ att' = [att EXCEPT ![a].held = TRUE]
              /\ run' = [run EXCEPT !.waitingOn = "approval",
                                    !.status = IF @ = "paused" THEN @ ELSE "waiting"]
    /\ UNCHANGED <<pc, timedOut, askVars, workers, sessVars, tree, up, stopped, histVars>>

(* unhold: what the worker is doing by then decides what becomes of the task.  *)
Unheld(a) ==
    IF task[a] # "held" THEN Pop /\ UNCHANGED task
    ELSE CASE session[att[a].worker] \in {"idle", "error"} ->
                /\ task' = [task EXCEPT ![a] = "over"]
                /\ chain' = Append(Tail(chain), <<"settled", a, IF session[att[a].worker] = "idle"
                                                                  THEN "done" ELSE "failed">>)
           [] session[att[a].worker] = "waiting" ->
                /\ task' = [task EXCEPT ![a] = "running"]
                /\ chain' = Append(Tail(chain), <<"waiting", a>>)
           [] OTHER -> task' = [task EXCEPT ![a] = "running"] /\ Pop
ClockGoesOn(a) == deadline' = [deadline EXCEPT ![a] = IF @ = "paused" THEN "armed" ELSE @]
TakeMoved ==
    /\ Takes("moved")
    /\ IF CurStatus = "running" /\ att[Cur].held /\ att[Cur].worker = Head1[2]
         THEN /\ Unheld(Cur) /\ ClockGoesOn(Cur)
              /\ att' = [att EXCEPT ![Cur].held = FALSE]
              /\ run' = IF run.waitingOn # "approval" THEN run
                        ELSE [run EXCEPT !.waitingOn = "none",
                                         !.status = IF @ = "waiting" THEN "running" ELSE @]
         ELSE Pop /\ UNCHANGED <<rowVars, task, deadline>>
    /\ UNCHANGED <<pc, timedOut, askVars, workers, sessVars, tree, up, stopped, histVars>>

-----------------------------------------------------------------------------
(* #verify: the run's row, the attempt's row, the worker stopped, a snapshot,  *)
(* the checks on it, the verdict.                                              *)

TakeVerify ==
    /\ Takes("verify") /\ Pop /\ Goes(<<"verify", Head1[2]>>)
    /\ UNCHANGED <<rowVars, task, timeVars, askVars, workers, sessVars, tree, up, stopped, histVars>>

Verify ==
    /\ At("verify")
    /\ IF Over \/ cancelling \/ att[A].status = "done" \/ Cur # A
         THEN Idles /\ UNCHANGED run
         ELSE /\ Goes(<<"verifying", A>>)
              /\ run' = IF run.status = "paused" THEN run
                        ELSE [run EXCEPT !.status = "verifying",
                                         !.waitingOn = IF @ = "approval" THEN "none" ELSE @]
    /\ UNCHANGED <<att, task, chain, timeVars, askVars, workers, sessVars, tree, up, stopped, histVars>>

Verifying ==
    /\ At("verifying")
    /\ att' = [att EXCEPT ![A].status = "verifying", ![A].held = FALSE]
    /\ LET s == IF att[A].worker # NoWorker THEN att[A].worker ELSE run.worker IN
       Goes(IF Alive(s) THEN <<"quiesce", A, s>> ELSE <<"snapshot", A>>)
    /\ UNCHANGED <<run, task, chain, timeVars, askVars, workers, sessVars, tree, up, stopped, histVars>>

Quiesced ==
    /\ At("quiesce")
    /\ session' = Quieted(pc[3]) /\ Goes(<<"snapshot", A>>)
    /\ UNCHANGED <<rowVars, task, chain, timeVars, askVars, workers, tooled, armed, tree, up, stopped, histVars>>

\* judgeAttempt, for an attempt whose checks do not all pass.
Judge(a) ==
    IF a \in timedOut THEN "timed_out"
    ELSE IF att[a].report = "conflict" THEN "cannot_satisfy" ELSE "unverified"
Judged(a, result, candidate) ==
    /\ att' = [att EXCEPT ![a].status = "done", ![a].result = result, ![a].tree = candidate, ![a].held = FALSE]
    /\ Ended(a) /\ Goes(<<"after", a>>)

\* Without a snapshot, or with a question, no check is run: none of none passed.
UncheckedPasses(a) == IF att[a].report = "ask" THEN "needs_input" ELSE "verified"
Unchecked(a) == IF att[a].report = "ask" THEN "needs_input" ELSE "unverified"
Snapshot ==
    /\ At("snapshot")
    /\ \/ /\ Fault("throw") /\ Judged(A, Unchecked(A), NoTree) /\ UNCHANGED aborted
       \/ /\ att[A].report = "ask" /\ Judged(A, Unchecked(A), tree) /\ UNCHANGED aborted
       \/ /\ att[A].report # "ask" /\ Checking(<<"checks", A, tree>>) /\ UNCHANGED <<att, timedOut>>
    /\ UNCHANGED <<run, task, chain, deadline, cancelling, workers, sessVars, tree, up, stopped, histVars>>

Checked ==
    /\ At("checks")
    /\ \/ /\ CutShort /\ Idles /\ UNCHANGED <<att, timedOut, proven>>
       \/ /\ ~CutShort /\ Judged(A, "verified", pc[3])
          /\ proven' = proven \cup {pc[3]}
       \/ /\ ~CutShort /\ Judged(A, Judge(A), pc[3]) /\ UNCHANGED proven
    /\ UNCHANGED <<run, task, chain, deadline, askVars, workers, sessVars, tree, up, stopped, mix, said>>

-----------------------------------------------------------------------------
(* #afterAttempt and #deliver.                                                 *)

TakeAfter ==
    /\ Takes("after") /\ Pop /\ Goes(<<"after", Head1[2]>>)
    /\ UNCHANGED <<rowVars, task, timeVars, askVars, workers, sessVars, tree, up, stopped, histVars>>
TakeRequeue ==
    /\ Takes("requeue") /\ Pop /\ Goes(<<"start", Head1[2], TRUE>>)
    /\ UNCHANGED <<rowVars, task, timeVars, askVars, workers, sessVars, tree, up, stopped, histVars>>

Counted == SelectSeq([a \in 1 .. Cur |-> att[a]], LAMBDA x : x.result \notin {"needs_input", "stopped"})
\* Two attempts in a row that left the tree as they found it.
NoProgress ==
    LET trees == <<Base>> \o [i \in DOMAIN Counted |-> Counted[i].tree]
        n == Len(trees)
        same(i) == trees[i] # NoTree /\ trees[i] = trees[i - 1]
    IN n >= 3 /\ same(n) /\ same(n - 1)
Spent == Len(Counted) >= Limit

Deliver ==
    \/ /\ stopped \/ cancelling
       /\ Idles /\ UNCHANGED run
    \/ /\ ~(stopped \/ cancelling) /\ att[A].tree = Base /\ End("blocked")
    \/ /\ ~(stopped \/ cancelling) /\ att[A].tree # Base /\ Goes(<<"commit", A>>) /\ UNCHANGED run
Decide ==
    CASE att[A].result = "stopped" -> Goes(<<"start", A, TRUE>>) /\ UNCHANGED run
      [] att[A].result = "verified" -> Deliver
      [] att[A].result = "cannot_satisfy" -> End("blocked")
      [] att[A].result = "needs_input" ->
            Idles /\ run' = [run EXCEPT !.status = "waiting", !.waitingOn = "question"]
      [] OTHER -> IF NoProgress THEN End("blocked")
                  ELSE IF Spent THEN End("budget_exhausted")
                  ELSE \/ Fault("time") /\ End("budget_exhausted")
                       \/ Goes(<<"start", A, FALSE>>) /\ UNCHANGED run
After ==
    /\ At("after")
    /\ IF Over \/ run.status = "paused" \/ Cur # A THEN Idles /\ UNCHANGED run ELSE Decide
    /\ UNCHANGED <<att, task, chain, timeVars, askVars, workers, sessVars, tree, up, stopped, histVars>>

Committed ==
    /\ At("commit")
    /\ \/ Fault("throw") /\ End("failed")
       \/ /\ Ends([run EXCEPT !.accepted = A, !.delivered = att[A].tree], "completed")
          /\ Goes(<<"release", FALSE>>)
    /\ UNCHANGED <<att, task, chain, timeVars, askVars, workers, sessVars, tree, up, stopped, histVars>>

-----------------------------------------------------------------------------
(* The owner's requests: what each does at once, and what it puts in the chain. *)

Cancel ==
    /\ Quiet /\ Fault("cancel") /\ ~Over /\ ~cancelling
    /\ cancelling' = TRUE /\ aborted' = TRUE
    /\ session' = Interrupted({run.worker} \cup (IF Cur = 0 THEN {} ELSE {att[Cur].worker}))
    /\ Queues(<<"cancel">>)
    /\ UNCHANGED <<rowVars, task, pc, timeVars, workers, tooled, armed, tree, up, stopped, histVars>>

TakeCancel ==
    /\ Takes("cancel") /\ Pop
    /\ IF Over THEN cancelling' = FALSE /\ Idles /\ UNCHANGED run
       ELSE Ends(run, "cancelled") /\ Goes(<<"stopWork">>) /\ UNCHANGED cancelling
    /\ UNCHANGED <<att, task, timeVars, aborted, workers, sessVars, tree, up, stopped, histVars>>

\* #stopActiveWork, up to the interrupt it awaits.
StopWork ==
    /\ At("stopWork") /\ Goes(<<"drain">>)
    /\ IF CurStatus \in {"none", "done"} THEN UNCHANGED <<att, task, chain, deadline>>
       ELSE FinishAttempt(Cur, "stopped") /\ Cleared(Cur) /\ Throws(Cur, chain)
    /\ UNCHANGED <<run, timedOut, askVars, workers, sessVars, tree, up, stopped, histVars>>

Drained ==
    /\ At("drain")
    /\ session' = [s \in Workers |-> IF s \in Acting THEN "idle" ELSE session[s]]
    /\ Goes(<<"release", TRUE>>)
    /\ UNCHANGED <<rowVars, task, chain, timeVars, askVars, workers, tooled, armed, tree, up, stopped, histVars>>

Pause ==
    /\ Quiet /\ mix.pauses > 0 /\ ~Over /\ run.status # "paused"
    /\ run' = [run EXCEPT !.status = "paused"]
    /\ mix' = [mix EXCEPT !.pauses = @ - 1]
    /\ UNCHANGED <<att, task, chain, pc, timeVars, askVars, workers, sessVars, tree, up, stopped, proven, said>>

\* Back to waiting, if what was waited on is still only a person's to give.
StillWaiting ==
    \/ run.waitingOn = "question"
    \/ run.waitingOn = "approval" /\ CurStatus = "running" /\ att[Cur].held
Resume ==
    /\ Quiet /\ run.status = "paused"
    /\ IF StillWaiting THEN run' = [run EXCEPT !.status = "waiting"] /\ UNCHANGED chain
       ELSE run' = [run EXCEPT !.status = "running", !.waitingOn = "none"] /\ Queues(<<"carryOn">>)
    /\ UNCHANGED <<att, task, pc, timeVars, askVars, workers, sessVars, tree, up, stopped, histVars>>

CarriesOn == CurStatus = "done"
TakeCarryOn ==
    /\ Takes("carryOn") /\ Pop
    /\ IF run.status # "running" THEN Idles /\ UNCHANGED <<run, aborted>>
       ELSE IF Cur = 0 THEN PrepareAgain
       ELSE (IF CarriesOn THEN Goes(<<"after", Cur>>) ELSE Idles) /\ UNCHANGED <<run, aborted>>
    /\ UNCHANGED <<att, task, timeVars, cancelling, workers, sessVars, tree, up, stopped, histVars>>

Asked == run.status = "waiting" /\ Cur # 0 /\ att[Cur].result = "needs_input"
Steer ==
    /\ Quiet /\ mix.steers > 0 /\ ~Over
    /\ mix' = [mix EXCEPT !.steers = @ - 1]
    /\ IF Asked THEN Queues(<<"answer", Cur>>) /\ UNCHANGED <<run, said>>
       ELSE run' = [run EXCEPT !.steer = TRUE] /\ said' = TRUE /\ UNCHANGED chain
    /\ UNCHANGED <<att, task, pc, timeVars, askVars, workers, sessVars, tree, up, stopped, proven>>

\* The answer starts the next attempt, or is guidance after all.
TakeAnswer ==
    /\ Takes("answer") /\ Pop
    /\ IF Over THEN Idles /\ UNCHANGED <<run, said>>
       ELSE IF run.status # "waiting" \/ Cur # Head1[2]
         THEN run' = [run EXCEPT !.steer = TRUE] /\ said' = TRUE /\ Idles
         ELSE /\ run' = [run EXCEPT !.status = "running", !.waitingOn = "none"]
              /\ Goes(<<"start", Cur, FALSE>>) /\ UNCHANGED said
    /\ UNCHANGED <<att, task, timeVars, askVars, workers, sessVars, tree, up, stopped, mix, proven>>

-----------------------------------------------------------------------------
(* The worker, as the daemon sees it, and the attempt's clock.                 *)

\* A change of status matters to an attempt that is held, or about to be.
Moves(s) == IF s \in workers /\ Cur # 0 /\ (att[Cur].held \/ \E i \in DOMAIN chain : chain[i] = <<"waiting", Cur>>)
              THEN Queues(<<"moved", s>>) ELSE UNCHANGED chain
Becomes(s, status) == session' = [session EXCEPT ![s] = status]

WorkerWorks(s) ==
    /\ Quiet /\ session[s] = "active" /\ tree' \in Trees
    /\ UNCHANGED <<rowVars, task, chain, pc, timeVars, askVars, workers, sessVars, up, stopped, histVars>>

\* recordReport, of an outcome that changes the verdict.
WorkerReports(s) ==
    /\ Quiet /\ session[s] = "active" /\ s \in workers
    /\ CurStatus = "running" /\ att[Cur].worker = s /\ att[Cur].report = "none"
    /\ \E report \in {"ask", "conflict"} \cap mix.faults : att' = [att EXCEPT ![Cur].report = report]
    /\ UNCHANGED <<run, task, chain, pc, timeVars, askVars, workers, sessVars, tree, up, stopped, histVars>>

WorkerWaits(s) ==
    /\ Quiet /\ mix.holds > 0 /\ session[s] = "active" /\ Becomes(s, "waiting")
    /\ mix' = [mix EXCEPT !.holds = @ - 1]
    /\ IF \E a \in Rows : task[a] = "running" /\ att[a].worker = s
         THEN Queues(<<"waiting", CHOOSE a \in Rows : task[a] = "running" /\ att[a].worker = s>>)
         ELSE UNCHANGED chain
    /\ UNCHANGED <<rowVars, task, pc, timeVars, askVars, workers, tooled, armed, tree, up, stopped, proven, said>>

WorkerApproved(s) ==
    /\ Quiet /\ session[s] = "waiting" /\ Becomes(s, "active") /\ Moves(s)
    /\ UNCHANGED <<rowVars, task, pc, timeVars, askVars, workers, tooled, armed, tree, up, stopped, histVars>>

WorkerEnds(s) ==
    /\ Quiet /\ Moves(s)
    /\ \/ session[s] = "active" /\ (Becomes(s, "idle") \/ (Fault("throw") /\ Becomes(s, "error")))
       \/ session[s] = "stopping" /\ Becomes(s, "idle")
    /\ UNCHANGED <<rowVars, task, pc, timeVars, askVars, workers, tooled, armed, tree, up, stopped, histVars>>

\* No turn will end by itself: the settle was lost, or there is no worker.
NoWorkerYet(s) == s = NoWorker
NoTurn(s) == s = NoWorker \/ session[s] = "idle"
(* The attempt's time is up: its turn is interrupted, or, where there is none  *)
(* to end, its task is freed and it is settled here.                           *)
DeadlineFires(a) ==
    /\ Quiet /\ deadline[a] = "armed"
    /\ deadline' = [deadline EXCEPT ![a] = "fired"] /\ timedOut' = timedOut \cup {a}
    /\ LET s == IF att[a].worker # NoWorker THEN att[a].worker ELSE run.worker IN
       IF NoTurn(s)
         THEN /\ TaskEnds(a) /\ chain' = Append(Told(a, chain), <<"settled", a, "done">>)
              /\ UNCHANGED session
         ELSE session' = Interrupted({s}) /\ UNCHANGED <<task, chain>>
    /\ UNCHANGED <<rowVars, pc, askVars, workers, tooled, armed, tree, up, stopped, histVars>>

-----------------------------------------------------------------------------
(* The process.                                                                *)

StopDaemon ==
    /\ Quiet /\ Fault("stop") /\ ~stopped /\ mix.boots > 1
    /\ stopped' = TRUE /\ aborted' = TRUE
    /\ deadline' = [a \in Rows |-> IF deadline[a] = "armed" THEN "fired" ELSE deadline[a]]
    /\ UNCHANGED <<rowVars, task, chain, pc, timedOut, cancelling, workers, sessVars, tree, up, histVars>>

\* A worker comes back at rest, guarded and without loop_report, or not at all.
Exit ==
    /\ up /\ mix.boots > 1 /\ (stopped \/ Fault("crash"))
    /\ up' = FALSE /\ stopped' = FALSE /\ chain' = <<>> /\ Idles
    /\ deadline' = [a \in Rows |-> "none"] /\ timedOut' = {}
    /\ cancelling' = FALSE /\ aborted' = FALSE /\ workers' = {} /\ tooled' = {} /\ armed' = {}
    /\ \E back \in {"idle"} \cup (IF Fault("vanish") THEN {"gone"} ELSE {}) :
          session' = [s \in Workers |-> IF Alive(s) THEN back ELSE session[s]]
    /\ mix' = [mix EXCEPT !.boots = @ - 1]
    /\ UNCHANGED <<rowVars, task, tree, proven, said>>

(* start(), the dispatcher's first pass before it: every claim of the process  *)
(* that died is reclaimed.                                                     *)
Claimed == SetToSeq({a \in Rows : task[a] \in {"claimed", "running", "held"}})
Reclaimed == [i \in DOMAIN Claimed |-> <<"settled", Claimed[i], "reclaimed">>]
NeverQueued == CurStatus = "queued" /\ ~att[Cur].task
LeftUndecided == run.status \in {"running", "verifying"}
PicksUp ==
    CASE Over -> <<>>
      [] ~Over /\ Cur = 0 -> IF run.status = "running" THEN <<<<"prepare">>>> ELSE <<>>
      [] ~Over /\ CurStatus = "done" ->
            IF LeftUndecided THEN <<<<"after", Cur>>>> ELSE <<>>
      [] ~Over /\ CurStatus # "done" /\ "verifying" \in {CurStatus, run.status} -> <<<<"verify", Cur>>>>
      [] NeverQueued /\ run.status = "running" -> <<<<"requeue", Cur>>>>
      [] OTHER -> <<>>
Rearmed == IF ~Over /\ CurStatus = "running" /\ run.status # "verifying"
             THEN [deadline EXCEPT ![Cur] = "armed"] ELSE deadline
FollowedAnyway == {run.worker} \ {NoWorker}
Followed == IF Over THEN {} ELSE {run.worker} \ {NoWorker}
Boot ==
    /\ ~up /\ up' = TRUE
    /\ task' = [a \in Rows |-> IF task[a] \in {"claimed", "running", "held"} THEN "over" ELSE task[a]]
    /\ chain' = Reclaimed \o PicksUp
    /\ workers' = Followed
    /\ deadline' = Rearmed
    /\ att' = IF Over \/ Cur = 0 THEN att
              ELSE IF NeverQueued THEN [att EXCEPT ![Cur].status = "done", ![Cur].result = "stopped"]
              ELSE [att EXCEPT ![Cur].held = FALSE]
    /\ UNCHANGED <<run, pc, timedOut, askVars, sessVars, tree, stopped, histVars>>

-----------------------------------------------------------------------------
Steps ==
    \/ TakePrepare \/ Prepared \/ Baselined \/ Start \/ Enqueue \/ Record
    \/ TakeSpawn \/ GiveBack \/ Replaced \/ Created \/ Go \/ Sent
    \/ TakeSettled \/ LostStopped \/ TakeWaiting \/ TakeMoved
    \/ TakeVerify \/ Verify \/ Verifying \/ Quiesced \/ Snapshot \/ Checked
    \/ TakeAfter \/ TakeRequeue \/ After \/ Committed \/ Release
    \/ TakeCancel \/ StopWork \/ Drained \/ TakeCarryOn \/ TakeAnswer
Next ==
    \/ Steps \/ Cancel \/ Pause \/ Resume \/ Steer \/ StopDaemon \/ Exit \/ Boot
    \/ \E a \in Rows : Claim(a) \/ TaskSettles(a) \/ Lapses(a) \/ DeadlineFires(a)
    \/ \E s \in Workers : WorkerWorks(s) \/ WorkerReports(s) \/ WorkerWaits(s) \/ WorkerApproved(s) \/ WorkerEnds(s)

Spec == Init /\ [][Next]_vars

(* What is awaited ends (every one has a timeout), the dispatcher ticks, timers *)
(* fire, an interrupted turn ends, a stopped daemon exits and is started again. *)
(* None for a worker's own turn, people, faults and crashes.                    *)
Fairness ==
    /\ WF_vars(Steps) /\ WF_vars(Boot) /\ WF_vars(stopped /\ Exit)
    /\ WF_vars(\E a \in Rows : Claim(a)) /\ WF_vars(\E a \in Rows : TaskSettles(a))
    /\ WF_vars(\E a \in Rows : DeadlineFires(a))
    /\ WF_vars(\E s \in Workers : session[s] = "stopping" /\ WorkerEnds(s))
FairSpec == Spec /\ Fairness

-----------------------------------------------------------------------------
(* Properties.                                                                 *)

\* What may wait in the chain, and where the executing item may be.
Items ==
    {<<kind>> : kind \in {"prepare", "carryOn", "cancel"}}
    \cup {<<kind, a>> : kind \in {"spawn", "waiting", "verify", "after", "requeue", "answer"}, a \in Rows}
    \cup {<<"settled", a, how>> : a \in Rows, how \in {"done", "failed", "reclaimed"}}
    \cup {<<"moved", s>> : s \in Workers}
Places ==
    {<<place>> : place \in {"idle", "prepare", "baseline", "stopWork", "drain"}}
    \cup {<<place, a>> : place \in {"enqueue", "record", "giveBack", "replace", "create", "send", "verify",
                                    "verifying", "snapshot", "after", "commit"}, a \in Rows}
    \cup {<<place, a, s>> : place \in {"go", "quiesce", "stopLost"}, a \in Rows, s \in Workers}
    \cup {<<"start", a, again>> : a \in Rows \cup {0}, again \in BOOLEAN}
    \cup {<<"checks", a, t>> : a \in Rows, t \in Trees} \cup {<<"release", own>> : own \in BOOLEAN}
Results == {"none", "stopped", "worker_failed", "verified", "unverified", "timed_out", "cannot_satisfy", "needs_input"}
RunRows == [status : Terminal \cup {"running", "verifying", "waiting", "paused"},
            waitingOn : {"none", "approval", "question"}, prepared : BOOLEAN, steer : BOOLEAN,
            worker : Workers \cup {NoWorker}, accepted : Rows \cup {0}, delivered : Trees \cup {NoTree}]
AttemptRows == [status : {"none", "queued", "running", "verifying", "done"}, result : Results,
                task : BOOLEAN, started : BOOLEAN, held : BOOLEAN,
                report : {"none", "ask", "conflict"}, tree : Trees \cup {NoTree},
                steer : BOOLEAN, worker : Workers \cup {NoWorker}]
TypeOK ==
    /\ run \in RunRows /\ att \in [Rows -> AttemptRows]
    /\ \A a \in Rows : att[a].result # "none" <=> att[a].status = "done"
    /\ task \in [Rows -> Open \cup {"none", "over"}] /\ chain \in Seq(Items) /\ pc \in Places
    /\ deadline \in [Rows -> {"none", "armed", "fired", "paused"}] /\ timedOut \subseteq Rows
    /\ session \in [Workers -> {"none", "idle", "active", "waiting", "stopping", "error", "gone"}]
    /\ workers \subseteq Workers /\ tooled \subseteq Workers /\ armed \subseteq Workers
    /\ tree \in Trees /\ proven \subseteq Trees
    /\ mix \in [faults : SUBSET FaultKinds, pauses : Nat, steers : Nat, holds : Nat, lapses : Nat, boots : Nat \ {0}]
    /\ {cancelling, aborted, up, stopped, said} \subseteq BOOLEAN

(* What a completed run delivered is the candidate of the attempt it accepted, *)
(* a tree that passed every check, and not the code it started from.           *)
DeliveredProven ==
    run.status = "completed" =>
        /\ run.accepted # 0 /\ att[run.accepted].result = "verified"
        /\ run.delivered = att[run.accepted].tree /\ run.delivered \in proven \ {Base}

(* Two workers never act on the run's tree at once, over replacements, lost    *)
(* claims and restarts, and none does while a candidate is taken from it.      *)
OneWorker == Cardinality(Acting) <= 1 /\ (pc[1] = "snapshot" => Acting = {})

(* A run that is over has given its workers back: none is the run's, acts for  *)
(* it or acts on its own, once the item that ended it is done.                 *)
ReleasedAtEnd == Over /\ Quiet /\ pc[1] = "idle" => workers = {} /\ armed = {} /\ Acting = {}

(* Guidance the owner gave waits for an attempt or is in the prompt of one     *)
(* that was started, is the run's last, or failed to start: a pause, a restart *)
(* or a lost claim drops none.                                                 *)
SteerKept ==
    said /\ ~Over => \/ run.steer
                     \/ \E a \in Rows : att[a].steer /\ (att[a].started \/ a = Cur \/ att[a].result = "worker_failed")

\* The task of an attempt is over and its end will not be heard.
Unheard(a) == task[a] = "over" /\ (att[a].status = "queued" \/ ~Alive(att[a].worker))

(* A run that is under way ends, or comes to wait for a person: the checks,    *)
(* the claims, the clock and the limits see to it, over every restart.         *)
(* Excepted is an attempt whose task ended before it started, where the        *)
(* process died before the loop heard of it (or its worker with it).           *)
RunEnds ==
    run.status \in {"running", "verifying"} ~>
        (run.status \notin {"running", "verifying"} \/ (Cur # 0 /\ Unheard(Cur)))

=============================================================================
