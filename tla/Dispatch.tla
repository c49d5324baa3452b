------------------------------ MODULE Dispatch ------------------------------
(* The dispatcher of one daemon (src/src/daemon/dispatch.ts) over its durable  *)
(* task table (the dispatch_* methods of src/src/daemon/store.ts) and the      *)
(* sessions of its host (session-manager.ts, #makeDispatcherHost).             *)
(*                                                                             *)
(* Grain.  A JavaScript turn runs to completion, so two handlers never         *)
(* interleave inside one; but each SQL statement commits by itself, so a crash *)
(* can fall between two of them.  `todo` is what the current turn still has to *)
(* do, one statement per item: handlers start only when it is empty, a crash   *)
(* may come at any point.  An `await` ends the turn.                           *)
(*                                                                             *)
(* Time.  The lease, the retry delay and the hold window are flags of the row  *)
(* that the passing of time sets at any moment (a suspended machine wakes up   *)
(* past every one of them).                                                    *)
EXTENDS Naturals, Sequences, FiniteSets

CONSTANTS
    Tasks,          \* rows of dispatch_tasks
    Sessions,       \* sessions the host knows or may create
    NoTask, NoSession,
    Kind,           \* [Tasks -> {"send", "spawn", "attempt"}]
    Group,          \* the tasks fanned out together by enqueueGroup
    Target,         \* target_session of a send, NoSession otherwise
    FailureLimit,   \* config.failureLimit
    MaxWorkers,     \* config.maxConcurrentWorkers
    MaxBoots,       \* bound: boots of the daemon
    MaxWaits,       \* bound: approvals asked for
    MaxGeneration,  \* bound: the generation up to which a row is claimed
    Faults          \* what else happens: "crash", "vanish", "throw", "lapse", "prompt", "busy"

ASSUME NamesAssumption == NoTask \notin Tasks /\ NoSession \notin Sessions
ASSUME KindAssumption == Kind \in [Tasks -> {"send", "spawn", "attempt"}]
ASSUME TargetAssumption ==
    /\ Target \in [Tasks -> Sessions \cup {NoSession}]
    /\ \A t \in Tasks : Kind[t] = "send" <=> Target[t] # NoSession
ASSUME GroupAssumption ==
    /\ Group \in SUBSET Tasks
    /\ IsFiniteSet(Tasks)
    /\ \A t \in Group : Kind[t] # "attempt"
ASSUME BoundsAssumption ==
    /\ FailureLimit \in Nat \ {0}
    /\ MaxWorkers \in Nat \ {0}
    /\ MaxBoots \in Nat \ {0}
    /\ MaxWaits \in Nat /\ MaxGeneration \in Nat

VARIABLES
    \* The task table, a function per column of dispatch_tasks.
    status, attempts, generation,
    claim_owner,    \* the boot that claimed the row, 0 for NULL
    leased,         \* claimed_at is set and within the lease
    cooling,        \* not_before is in the future
    worker,         \* worker_session_id
    lapsed,         \* held_until has passed
    events,     \* dispatch_events, in id order
    boot,       \* the running boot's id
    watched,    \* #watched: <<session, task, generation>>
    tick,       \* #ticking and where the pass is: "off", "run" or "deliver"
    touched,    \* tasks the pass has claimed already
    exec,       \* the #execute the pass awaits
    delivery,   \* #deliveringEvents: the batch the host is delivering
    todo,       \* what is left of the current turn
    session,    \* status of every session
    born,       \* the task whose worker a session is
    conductor,  \* the recipient of the events
    inbox,      \* what the loop host was told of attempts and has not handled
    waits,      \* approvals asked for so far
    briefed,    \* history: times a task's brief reached a session
    settled     \* history: outcomes reported to the loop host per attempt

task == <<status, attempts, generation, claim_owner, leased, cooling, worker, lapsed>>
table == <<task, events>>
memory == <<watched, tick, touched, exec, delivery, inbox>>
world == <<session, born, conductor, waits>>
history == <<briefed, settled>>
vars == <<status, attempts, generation, claim_owner, leased, cooling, worker, lapsed, events, boot,
          watched, tick, touched, exec, delivery, todo, session, born, conductor, inbox, waits, briefed, settled>>

Statuses == {"absent", "queued", "claimed", "running", "held", "done", "failed", "blocked"}
TERMINAL_TASK_STATUS == {"done", "failed", "blocked"}
WORKER_ACTIVE == {"active"}     \* thinking and tool_running, merged
SessionStatuses == {"none", "active", "waiting", "idle", "error", "gone"}
Alive(s) == session[s] \in {"active", "waiting", "idle", "error"}

TaskEvents == {"task_done", "task_failed", "task_blocked"}
EventTypes == TaskEvents \cup {"group_done"}
Event == [task : Tasks, type : EventTypes, delivered : BOOLEAN, handed : Nat]

NoExec == [task |-> NoTask, generation |-> 0, step |-> "none", sess |-> NoSession]
NoDelivery == [step |-> "none", ids |-> {}]

(* One item of a turn: its operation and the operation's arguments.            *)
Item(op, t, g, s, how) == [op |-> op, task |-> t, generation |-> g, sess |-> s, how |-> how]
ItemsOf(ops, tasks, sessions, hows) ==
    [op : ops, task : tasks, generation : Nat, sess : sessions, how : hows]
AnySession == Sessions \cup {NoSession}
Items ==
    ItemsOf({"reclaimed", "admit", "settle", "wedge", "resume"}, Tasks, AnySession, {"", "waiting"})
    \cup ItemsOf({"throw"}, Tasks, AnySession, {"retry", "final"})
    \cup ItemsOf({"finish"}, Tasks, AnySession, {"idle", "error"})
    \cup ItemsOf({"emit", "notice"}, Tasks, AnySession, TaskEvents)
    \cup ItemsOf({"destroy"}, {NoTask}, Sessions, {""})
    \cup ItemsOf({"renew", "claim", "deliver", "pump"}, {NoTask}, {NoSession}, {""})
Finish(s, t, g, end) == Item("finish", t, g, s, end)
Throw(s, t, g, how) == Item("throw", t, g, s, how)
Emit(t, type) == Item("emit", t, 0, NoSession, type)
Notice(t) == Item("notice", t, 0, NoSession, "task_failed")
Settle(t) == Item("settle", t, 0, NoSession, "")
Wedge(s, t, g) == Item("wedge", t, g, s, "waiting")
Reclaimed(t) == Item("reclaimed", t, 0, NoSession, "")
Destroy(s) == Item("destroy", NoTask, 0, s, "")
Resume(t, g) == Item("resume", t, g, NoSession, "")
Admit(t) == Item("admit", t, 0, NoSession, "")
Step(op) == Item(op, NoTask, 0, NoSession, "")

(* The orders in which a loop over a set can run.                              *)
Orders(S) == {q \in [1..Cardinality(S) -> S] : \A i, j \in DOMAIN q : q[i] = q[j] => i = j}

-----------------------------------------------------------------------------
(* The statements of the store.                                                *)

\* WHERE id = ? AND generation = ? AND status IN ('claimed', 'running')
Fence(t, g) == generation[t] = g /\ status[t] \in {"claimed", "running"}

failure_limit(t) == IF Kind[t] = "attempt" THEN 1 ELSE FailureLimit

\* CASE WHEN kind = 'attempt' ... WHEN attempts + 1 >= failure_limit ... END
AfterFailureLate(t) ==
    IF Kind[t] = "attempt" THEN "failed"
    ELSE IF attempts[t] >= failure_limit(t) THEN "blocked" ELSE "queued"
AfterFailure(t) ==
    IF Kind[t] = "attempt" THEN "failed"
    ELSE IF attempts[t] + 1 >= failure_limit(t) THEN "blocked" ELSE "queued"

dispatchClaimNext(t) ==
    /\ status' = [status EXCEPT ![t] = "claimed"]
    /\ claim_owner' = [claim_owner EXCEPT ![t] = boot]
    /\ leased' = [leased EXCEPT ![t] = TRUE]
    /\ generation' = [generation EXCEPT ![t] = @ + 1]
    /\ UNCHANGED <<attempts, cooling, worker, lapsed>>

dispatchMarkRunning(t, s) ==
    /\ status' = [status EXCEPT ![t] = "running"]
    /\ worker' = [worker EXCEPT ![t] = s]
    /\ UNCHANGED <<attempts, generation, claim_owner, leased, cooling, lapsed>>

dispatchTouch(entries) ==
    /\ leased' = [t \in Tasks |-> leased[t] \/ \E e \in entries : e[2] = t /\ e[3] = generation[t]]
    /\ UNCHANGED <<status, attempts, generation, claim_owner, cooling, worker, lapsed>>

dispatchComplete(t) ==
    /\ status' = [status EXCEPT ![t] = "done"]
    /\ UNCHANGED <<attempts, generation, claim_owner, leased, cooling, worker, lapsed>>

\* Both dispatchFail and dispatchSettleHeld give up the claim.
Unclaimed(t) ==
    /\ claim_owner' = [claim_owner EXCEPT ![t] = 0]
    /\ leased' = [leased EXCEPT ![t] = FALSE]

Failed(t, retryable) == IF retryable THEN AfterFailure(t) ELSE "failed"
dispatchFail(t, retryable) ==
    /\ attempts' = [attempts EXCEPT ![t] = @ + 1]
    /\ status' = [status EXCEPT ![t] = Failed(t, retryable)]
    /\ cooling' = [cooling EXCEPT ![t] = Failed(t, retryable) = "queued"]
    /\ Unclaimed(t)
    /\ UNCHANGED <<generation, worker, lapsed>>

dispatchHold(t) ==
    /\ status' = [status EXCEPT ![t] = "held"]
    /\ lapsed' = [lapsed EXCEPT ![t] = FALSE]
    /\ UNCHANGED <<attempts, generation, claim_owner, leased, cooling, worker>>

dispatchUnhold(t) ==
    /\ status' = [status EXCEPT ![t] = "running"]
    /\ leased' = [leased EXCEPT ![t] = TRUE]
    /\ lapsed' = [lapsed EXCEPT ![t] = FALSE]
    /\ UNCHANGED <<attempts, generation, claim_owner, cooling, worker>>

\* dispatchSettleHeld costs an attempt, dispatchCancelAttempt does not.
EndAttempt(t, cost) ==
    /\ status' = [status EXCEPT ![t] = "failed"]
    /\ attempts' = [attempts EXCEPT ![t] = @ + cost]
    /\ generation' = [generation EXCEPT ![t] = @ + 1]
    /\ lapsed' = [lapsed EXCEPT ![t] = FALSE]
    /\ Unclaimed(t)
    /\ UNCHANGED <<cooling, worker>>

dispatchReleasePaid(t) ==
    /\ status' = [status EXCEPT ![t] = "queued"]
    /\ attempts' = [attempts EXCEPT ![t] = @ + 1]
    /\ Unclaimed(t)
    /\ UNCHANGED <<generation, cooling, worker, lapsed>>
dispatchRelease(t) ==
    /\ status' = [status EXCEPT ![t] = "queued"]
    /\ Unclaimed(t)
    /\ UNCHANGED <<attempts, generation, cooling, worker, lapsed>>

\* The rows dispatchReclaimStale updates, all in one statement.
StaleAnyStatus(t) ==
    /\ status[t] \notin {"absent", "queued", "held"}
    /\ claim_owner[t] # boot \/ ~leased[t]
StaleHeldForever(t) ==
    \/ /\ status[t] \in {"claimed", "running"}
       /\ claim_owner[t] # boot \/ ~leased[t]
    \/ /\ status[t] = "held"
       /\ claim_owner[t] # boot
Stale(t) ==
    \/ /\ status[t] \in {"claimed", "running"}
       /\ claim_owner[t] # boot \/ ~leased[t]
    \/ /\ status[t] = "held"
       /\ claim_owner[t] # boot \/ lapsed[t]

dispatchReclaimStale ==
    /\ attempts' = [t \in Tasks |-> IF Stale(t) THEN attempts[t] + 1 ELSE attempts[t]]
    /\ status' = [t \in Tasks |-> IF Stale(t) THEN AfterFailure(t) ELSE status[t]]
    /\ generation' = [t \in Tasks |-> IF Stale(t) THEN generation[t] + 1 ELSE generation[t]]
    /\ claim_owner' = [t \in Tasks |-> IF Stale(t) THEN 0 ELSE claim_owner[t]]
    /\ leased' = [t \in Tasks |-> leased[t] /\ ~Stale(t)]
    /\ lapsed' = [t \in Tasks |-> lapsed[t] /\ ~Stale(t)]
    /\ UNCHANGED <<cooling, worker>>

dispatchActiveSpawnCount ==
    Cardinality({t \in Tasks : /\ Kind[t] \in {"spawn", "attempt"}
                               /\ status[t] \in {"claimed", "running", "held"}})

dispatchEventAdd(t, type) ==
    Append(events, [task |-> t, type |-> type, delivered |-> FALSE, handed |-> 0])

dispatchEventsPending == {i \in DOMAIN events : ~events[i].delivered}

-----------------------------------------------------------------------------
(* The watch table.                                                            *)

Watchers(s) == {w \in watched : w[1] = s}
unwatchNothing(s, t) == watched
unwatch(s, t) == {w \in watched : ~(w[1] = s /\ w[2] = t)}
unwatchTask(t) == {w \in watched : w[2] # t}
\* #watch: a task has one generation per session.
watch(s, t, g) == unwatch(s, t) \cup {<<s, t, g>>}

\* What #execute awaits: the call depends on the kind of task.
Sends == {t \in Tasks : Kind[t] = "send"}
ExecsOf(tasks, steps, sessions) == [task : tasks, generation : Nat, step : steps, sess : sessions]
Execs == {NoExec} \cup ExecsOf(Sends, {"send", "gsend", "landed"}, AnySession)
                  \cup ExecsOf(Tasks \ Sends, {"spawn"}, AnySession)
                  \cup ExecsOf(Tasks \ Sends, {"continue", "landed", "continued"}, Sessions)

TypeOK ==
    /\ status \in [Tasks -> Statuses]
    /\ attempts \in [Tasks -> Nat] /\ generation \in [Tasks -> Nat] /\ claim_owner \in [Tasks -> Nat]
    /\ leased \in [Tasks -> BOOLEAN] /\ cooling \in [Tasks -> BOOLEAN] /\ lapsed \in [Tasks -> BOOLEAN]
    /\ worker \in [Tasks -> AnySession]
    /\ events \in Seq(Event)
    /\ boot \in 1..MaxBoots
    /\ watched \subseteq Sessions \X Tasks \X Nat /\ IsFiniteSet(watched)
    /\ tick \in {"off", "run", "deliver"}
    /\ touched \subseteq Tasks
    /\ exec \in Execs
    /\ delivery \in [step : {"none", "sending", "handed"}, ids : SUBSET Nat]
    /\ todo \in Seq(Items)
    /\ session \in [Sessions -> SessionStatuses]
    /\ born \in [Sessions -> Tasks \cup {NoTask}]
    /\ conductor \in {"idle", "busy"}
    /\ inbox \subseteq Tasks \X {"waiting", "answered"}
    /\ waits \in 0..MaxWaits
    /\ briefed \in [Tasks -> Nat]
    /\ settled \in [Tasks -> Nat]

-----------------------------------------------------------------------------
(* The statements of a turn, one action per operation.                         *)

Head1 == Head(todo)
Doing(op) == todo # <<>> /\ Head1.op = op
\* The turn goes on with `items`, then with what it had left.
Goes(items) == todo' = items \o Tail(todo)

\* A worker's session goes with its task; a send's target never does.
TeardownNever(t, s) == <<>>
Teardown(t, s) == IF Kind[t] = "spawn" /\ s # NoSession THEN <<Destroy(s)>> ELSE <<>>

\* What follows once t was put in status `next`: an attempt is settled, a requeued
\* task is silent, an ended one is told of and its worker s torn down.
EventOf(end) == IF end = "done" THEN "task_done"
                ELSE IF end = "blocked" THEN "task_blocked" ELSE "task_failed"
AfterBlockedSilent(t, next, s) ==
    IF Kind[t] = "attempt" THEN <<Settle(t)>>
    ELSE IF next \in {"queued", "blocked"} THEN <<>>
    ELSE <<Emit(t, EventOf(next))>> \o Teardown(t, s)
After(t, next, s) ==
    IF Kind[t] = "attempt" THEN <<Settle(t)>>
    ELSE IF next = "queued" THEN <<>>
    ELSE <<Emit(t, EventOf(next))>> \o Teardown(t, s)

(* #reclaimStale's loop over the rows its one UPDATE returned.                 *)
RunReclaimed ==
    /\ Doing("reclaimed")
    /\ LET t == Head1.task
           s == worker[t]
       IN  /\ watched' = unwatch(s, t)
           /\ Goes(After(t, status[t], s))
    /\ UNCHANGED <<table, boot, tick, touched, exec, delivery, inbox, world, history>>

(* #renewLiveLeases: the watches whose worker is seen working.                 *)

Renewed == {w \in watched : session[w[1]] \in WORKER_ACTIVE}

RunRenew ==
    /\ Doing("renew")
    /\ dispatchTouch(Renewed)
    /\ Goes(<<>>)
    /\ UNCHANGED <<events, boot, memory, world, history>>

(* #claimAndExecute: dispatchClaimNext.  Rows of one age are claimed in any    *)
(* order: created_at is not modelled.                                          *)
Ready(t) == /\ status[t] = "queued" /\ ~cooling[t] /\ t \notin touched
            /\ generation[t] < MaxGeneration

RunClaim ==
    /\ Doing("claim")
    /\ \E t \in Tasks :
         /\ Ready(t)
         /\ dispatchClaimNext(t)
         /\ touched' = touched \cup {t}
         /\ Goes(<<Admit(t)>>)
    /\ UNCHANGED <<events, boot, watched, tick, exec, delivery, inbox, world, history>>

RunNothingReadyNoPump ==
    /\ Doing("claim")
    /\ ~\E t \in Tasks : Ready(t)
    /\ tick' = "off"
    /\ Goes(<<>>)
    /\ UNCHANGED <<table, boot, watched, touched, exec, delivery, inbox, world, history>>

RunNothingReady ==
    /\ Doing("claim")
    /\ ~\E t \in Tasks : Ready(t)
    /\ Goes(<<Step("pump")>>)
    /\ UNCHANGED <<table, boot, memory, world, history>>

OverCap(t) == Kind[t] \in {"spawn", "attempt"} /\ dispatchActiveSpawnCount > MaxWorkers

RunDefer ==
    /\ Doing("admit")
    /\ LET t == Head1.task
       IN  /\ OverCap(t)
           /\ dispatchRelease(t)
    /\ Goes(<<Step("claim")>>)
    /\ UNCHANGED <<events, boot, memory, world, history>>

(* #execute up to its first await.                                             *)
Start(t, step) ==
    exec' = [task |-> t, generation |-> generation[t], step |-> step, sess |-> worker[t]]

RunExecute ==
    /\ Doing("admit")
    /\ LET t == Head1.task
       IN  /\ ~OverCap(t)
           /\ t \notin Group \/ Kind[t] # "send"
           /\ Start(t, IF Kind[t] = "send" THEN "send"
                       ELSE IF Kind[t] = "spawn" /\ worker[t] # NoSession THEN "continue"
                       ELSE "spawn")
    /\ Goes(<<>>)
    /\ UNCHANGED <<table, boot, watched, tick, touched, delivery, inbox, world, history>>

(* #startGroupedSend.                                                          *)
alreadyDeliveredNever(t) == FALSE
alreadyDelivered(t) == worker[t] # NoSession

RunGroupedSend ==
    /\ Doing("admit")
    /\ LET t == Head1.task
       IN  /\ t \in Group /\ Kind[t] = "send"
           /\ ~alreadyDelivered(t)
           /\ dispatchMarkRunning(t, Target[t])
           /\ watched' = watch(Target[t], t, generation[t])
           /\ Start(t, "gsend")
    /\ Goes(<<>>)
    /\ UNCHANGED <<events, boot, tick, touched, delivery, inbox, world, history>>

RunGroupedRewatch ==
    /\ Doing("admit")
    /\ LET t == Head1.task
           s == Target[t]
           g == generation[t]
       IN  /\ t \in Group /\ Kind[t] = "send"
           /\ alreadyDelivered(t)
           /\ IF session[s] = "gone"
              THEN /\ Goes(<<Throw(s, t, g, "final")>>)
                   /\ UNCHANGED <<task, watched>>
              ELSE /\ dispatchMarkRunning(t, s)
                   /\ IF session[s] \in WORKER_ACTIVE
                      THEN watched' = watch(s, t, g) /\ Goes(<<Step("claim")>>)
                      ELSE /\ Goes(<<Finish(s, t, g, IF session[s] = "error" THEN "error" ELSE "idle"),
                                    Step("claim")>>)
                           /\ UNCHANGED watched
    /\ UNCHANGED <<events, boot, tick, touched, exec, delivery, inbox, world, history>>

(* The catch of #execute.                                                      *)
RunThrow ==
    /\ Doing("throw")
    /\ LET t == Head1.task
           retryable == Head1.how = "retry"
       IN  /\ watched' = unwatchTask(t)
           /\ IF Fence(t, Head1.generation)
              THEN /\ dispatchFail(t, retryable)
                   /\ Goes(After(t, Failed(t, retryable), Head1.sess) \o <<Step("claim")>>)
              ELSE Goes(<<Step("claim")>>) /\ UNCHANGED task
    /\ UNCHANGED <<events, boot, tick, touched, exec, delivery, inbox, world, history>>

(* #finishWorkerTask.                                                          *)
RunFinish ==
    /\ Doing("finish")
    /\ LET t == Head1.task
           s == Head1.sess
       IN  \/ /\ ~Fence(t, Head1.generation)
              /\ Goes(<<>>) /\ UNCHANGED task
           \/ /\ Fence(t, Head1.generation) /\ Head1.how = "idle"
              /\ Goes(After(t, "done", s)) /\ dispatchComplete(t)
           \/ /\ Fence(t, Head1.generation) /\ Head1.how = "error"
              /\ Goes(After(t, AfterFailure(t), s)) /\ dispatchFail(t, TRUE)
    /\ UNCHANGED <<events, boot, memory, world, history>>

(* #emitEvent and #barrierAbsorb.                                              *)
Terminal(t) == status[t] \in TERMINAL_TASK_STATUS
Absorbed(t) == t \in Group /\ Terminal(t)
BarrierPendingRunning == \E m \in Group : status[m] = "running"
BarrierPending == \E m \in Group : ~Terminal(m)

RunEmit ==
    /\ Doing("emit") \/ Doing("notice")
    /\ LET t == Head1.task
       IN  IF Absorbed(t) /\ BarrierPending
           THEN Goes(<<>>) /\ UNCHANGED events
           ELSE /\ events' = dispatchEventAdd(t, IF Absorbed(t) THEN "group_done" ELSE Head1.how)
                /\ Goes(IF Absorbed(t) \/ Head1.op = "emit" THEN <<Step("deliver")>> ELSE <<>>)
    /\ UNCHANGED <<task, boot, memory, world, history>>

(* #settleAttempt: onAttemptSettled of the loop host.                          *)
RunSettle ==
    /\ Doing("settle")
    /\ settled' = [settled EXCEPT ![Head1.task] = @ + 1]
    /\ Goes(<<>>)
    /\ UNCHANGED <<table, boot, memory, world, briefed>>

(* onSessionStatus for waiting_approval, one watcher at a time.                *)
RunWedge ==
    /\ Doing("wedge")
    /\ LET t == Head1.task
       IN  IF generation[t] # Head1.generation THEN Goes(<<>>) /\ UNCHANGED inbox
           ELSE IF Kind[t] = "attempt" THEN Goes(<<>>) /\ inbox' = inbox \cup {<<t, "waiting">>}
           ELSE Goes(<<Notice(t)>>) /\ UNCHANGED inbox
    /\ UNCHANGED <<table, boot, watched, tick, touched, exec, delivery, world, history>>

(* The rest of unhold: the worker's current status decides.                    *)
RunResume ==
    /\ Doing("resume")
    /\ LET t == Head1.task
           g == Head1.generation
           s == worker[t]
       IN  \/ /\ s = NoSession \/ ~Alive(s)
              /\ dispatchFail(t, FALSE)
              /\ Goes(<<Settle(t)>>)
              /\ UNCHANGED <<watched, inbox>>
           \/ /\ s # NoSession /\ session[s] \in {"idle", "error"}
              /\ Goes(<<Finish(s, t, g, session[s])>>)
              /\ UNCHANGED <<task, watched, inbox>>
           \/ /\ s # NoSession /\ session[s] \in {"active", "waiting"}
              /\ watched' = watch(s, t, g)
              /\ inbox' = IF session[s] = "waiting" THEN inbox \cup {<<t, "waiting">>} ELSE inbox
              /\ Goes(<<>>)
              /\ UNCHANGED task
    /\ UNCHANGED <<events, boot, tick, touched, exec, delivery, world, history>>

(* destroyWorker: only a session whose role is "worker".                       *)
RunDestroy ==
    /\ Doing("destroy")
    /\ session' = IF born[Head1.sess] # NoTask THEN [session EXCEPT ![Head1.sess] = "gone"] ELSE session
    /\ Goes(<<>>)
    /\ UNCHANGED <<table, boot, memory, born, conductor, waits, history>>

(* #deliverPendingEvents up to its await: from #emitEvent ("deliver") or as    *)
(* the last step of a pass ("pump"), which waits for its own delivery only.    *)
CanDeliverAgain == conductor = "idle" /\ dispatchEventsPending # {}
CanDeliver == delivery.step = "none" /\ conductor = "idle" /\ dispatchEventsPending # {}

RunDeliver ==
    /\ Doing("deliver") \/ Doing("pump")
    /\ delivery' = IF CanDeliver THEN [step |-> "sending", ids |-> dispatchEventsPending] ELSE delivery
    /\ IF Head1.op = "pump"
       THEN tick' = (IF CanDeliver THEN "deliver" ELSE "off") /\ touched' = {}
       ELSE UNCHANGED <<tick, touched>>
    /\ Goes(<<>>)
    /\ UNCHANGED <<table, boot, watched, exec, inbox, world, history>>

RunTurn ==
    \/ RunReclaimed \/ RunRenew \/ RunClaim \/ RunNothingReady \/ RunDefer \/ RunExecute
    \/ RunGroupedSend \/ RunGroupedRewatch \/ RunThrow \/ RunFinish \/ RunEmit \/ RunSettle
    \/ RunWedge \/ RunResume \/ RunDestroy \/ RunDeliver

-----------------------------------------------------------------------------
(* Handlers: each starts a turn.                                               *)

Quiet == todo = <<>>

Submit(S) ==
    /\ status' = [t \in Tasks |-> IF t \in S THEN "queued" ELSE status[t]]
    /\ UNCHANGED <<attempts, generation, claim_owner, leased, cooling, worker, lapsed>>

enqueue ==
    /\ Quiet
    /\ \E t \in Tasks \ Group : status[t] = "absent" /\ Submit({t})
    /\ UNCHANGED <<events, boot, memory, todo, world, history>>

\* One transaction for all the members.
enqueueGroup ==
    /\ Quiet
    /\ \E t \in Group : status[t] = "absent"
    /\ Submit(Group)
    /\ UNCHANGED <<events, boot, memory, todo, world, history>>

(* tick: the reclaim statement, then its rows, the renewal and the claims.     *)
StartTick ==
    /\ Quiet /\ tick = "off"
    /\ tick' = "run" /\ touched' = {}
    /\ dispatchReclaimStale
    /\ \E order \in Orders({t \in Tasks : Stale(t)}) :
         todo' = [i \in DOMAIN order |-> Reclaimed(order[i])] \o <<Step("renew"), Step("claim")>>
    /\ UNCHANGED <<events, boot, watched, exec, delivery, inbox, world, history>>

(* The loop host parks an attempt it was told waits, and releases it when its  *)
(* worker's status moved on (LoopService attemptWaiting, workerStatusChanged). *)
(* A hold of an earlier boot may also be released: it is settled instead.      *)
hold(t) ==
    /\ Quiet
    /\ <<t, "waiting">> \in inbox /\ inbox' = inbox \ {<<t, "waiting">>}
    /\ IF status[t] \in {"claimed", "running"}
       THEN dispatchHold(t) /\ watched' = unwatch(worker[t], t)
       ELSE UNCHANGED <<task, watched>>
    /\ UNCHANGED <<events, boot, tick, touched, exec, delivery, todo, world, history>>

unhold(t) ==
    /\ Quiet
    /\ status[t] = "held"
    /\ \/ <<t, "answered">> \in inbox /\ <<t, "waiting">> \notin inbox
       \/ claim_owner[t] # boot
    /\ inbox' = inbox \ {<<t, "answered">>}
    /\ IF claim_owner[t] # boot
       THEN EndAttempt(t, 1) /\ todo' = <<Settle(t)>>
       ELSE dispatchUnhold(t) /\ todo' = <<Resume(t, generation[t])>>
    /\ UNCHANGED <<events, boot, watched, tick, touched, exec, delivery, world, history>>

cancel(t) ==
    /\ Quiet
    /\ Kind[t] = "attempt"
    /\ status[t] \in {"queued", "claimed", "running", "held"}
    /\ EndAttempt(t, 0)
    /\ watched' = unwatchTask(t)
    /\ todo' = <<Settle(t)>>
    /\ UNCHANGED <<events, boot, tick, touched, exec, delivery, inbox, world, history>>

-----------------------------------------------------------------------------
(* The host calls that #execute awaits.                                        *)

\* A prompt reaches a live session: it joins a turn, or starts one.
Prompted(s) == [session EXCEPT ![s] = IF @ \in {"idle", "error"} THEN "active" ELSE @]
Brief(t) == briefed' = [briefed EXCEPT ![t] = @ + 1]

sendToSession ==
    /\ Quiet /\ exec.step \in {"send", "gsend"}
    /\ LET s == Target[exec.task]
       IN  Alive(s) /\ session' = Prompted(s)
    /\ Brief(exec.task)
    /\ exec' = [exec EXCEPT !.step = "landed"]
    /\ UNCHANGED <<table, boot, watched, tick, touched, delivery, todo, born, conductor, inbox,
                   waits, settled>>

continueWorker ==
    /\ Quiet /\ exec.step = "continue"
    /\ IF Alive(exec.sess)
       THEN /\ session' = Prompted(exec.sess)
            /\ Brief(exec.task)
            /\ exec' = [exec EXCEPT !.step = "continued"]
       ELSE exec' = [exec EXCEPT !.step = "spawn"] /\ UNCHANGED <<session, briefed>>
    /\ UNCHANGED <<table, boot, watched, tick, touched, delivery, todo, born, conductor, inbox,
                   waits, settled>>

(* A fresh session; a loop may reuse the idle worker of an earlier attempt.    *)
Usable(t, s) ==
    \/ session[s] = "none"
    \/ /\ Kind[t] = "attempt" /\ session[s] = "idle"
       /\ born[s] # NoTask /\ Kind[born[s]] = "attempt"

spawnWorker ==
    /\ Quiet /\ exec.step = "spawn"
    /\ \E s \in Sessions :
         /\ Usable(exec.task, s)
         /\ session' = [session EXCEPT ![s] = "active"]
         /\ born' = [born EXCEPT ![s] = exec.task]
         /\ exec' = [exec EXCEPT !.step = "landed", !.sess = s]
    /\ Brief(exec.task)
    /\ UNCHANGED <<table, boot, watched, tick, touched, delivery, todo, conductor, inbox, waits,
                   settled>>

(* A call that throws.  A target that is gone is final; a target parked on an  *)
(* approval refuses a prompt that cannot join its turn, for now; a backend or  *)
(* a workdir can fail either way.                                              *)
Refusals ==
    LET prompts == exec.step \in {"send", "gsend"}
        target == session[Target[exec.task]]
    IN  {how \in {"retry", "final"} :
            \/ prompts /\ target = "gone" /\ how = "final"
            \/ prompts /\ target = "waiting" /\ how = "retry"
            \/ (prompts \/ exec.step = "continue") /\ "throw" \in Faults /\ how = "retry"
            \/ exec.step = "spawn" /\ ("throw" \in Faults \/ ~\E s \in Sessions : Usable(exec.task, s))}

HostThrows ==
    /\ Quiet
    /\ \E how \in Refusals : todo' = <<Throw(exec.sess, exec.task, exec.generation, how)>>
    /\ exec' = NoExec
    /\ UNCHANGED <<table, boot, watched, tick, touched, delivery, inbox, world, history>>

(* The rest of #execute once the call returned.                                *)
Executed ==
    /\ Quiet /\ exec.step \in {"landed", "continued"}
    /\ LET t == exec.task
           g == exec.generation
           s == exec.sess
           orphan == Kind[t] = "spawn" /\ exec.step = "landed"    \* #staleStart, fresh
       IN  \/ /\ Kind[t] = "send"
              /\ IF t \notin Group /\ Fence(t, g) THEN dispatchComplete(t) ELSE UNCHANGED task
              /\ todo' = <<Step("claim")>>
              /\ UNCHANGED watched
           \/ /\ Kind[t] # "send" /\ Fence(t, g)
              /\ dispatchMarkRunning(t, s)
              /\ watched' = watch(s, t, g)
              /\ todo' = <<Step("claim")>>
           \/ /\ Kind[t] # "send" /\ ~Fence(t, g)
              /\ todo' = (IF orphan THEN <<Destroy(s)>> ELSE <<>>) \o <<Step("claim")>>
              /\ UNCHANGED <<task, watched>>
    /\ exec' = NoExec
    /\ UNCHANGED <<events, boot, tick, touched, delivery, inbox, world, history>>

-----------------------------------------------------------------------------
(* deliverEvents: the batch reaches its recipient, then it is marked.          *)

DeliveryLands ==
    /\ Quiet /\ delivery.step = "sending"
    /\ delivery' = [delivery EXCEPT !.step = "handed"]
    /\ events' = [i \in DOMAIN events |-> IF i \in delivery.ids
                                          THEN [events[i] EXCEPT !.handed = @ + 1] ELSE events[i]]
    /\ conductor' = "busy"
    /\ UNCHANGED <<task, boot, watched, tick, touched, exec, todo, session, born, inbox, waits, history>>

AfterDelivery == tick' = IF tick = "deliver" THEN "off" ELSE tick

MarkDelivered ==
    /\ Quiet /\ delivery.step = "handed"
    /\ events' = [i \in DOMAIN events |-> IF i \in delivery.ids
                                          THEN [events[i] EXCEPT !.delivered = TRUE] ELSE events[i]]
    /\ delivery' = NoDelivery
    /\ AfterDelivery
    /\ UNCHANGED <<task, boot, watched, touched, exec, todo, world, inbox, history>>

\* The recipient was stopped before its turn started, or its send failed.
DeliveryFails ==
    /\ Quiet /\ delivery.step = "sending" /\ "throw" \in Faults
    /\ delivery' = NoDelivery
    /\ AfterDelivery
    /\ UNCHANGED <<table, boot, watched, touched, exec, todo, world, inbox, history>>

-----------------------------------------------------------------------------
(* Sessions and their observer, onSessionStatus.                               *)

Answered(s) == {<<t, "answered">> : t \in {a \in Tasks : /\ worker[a] = s
                                                         /\ \/ status[a] = "held"
                                                            \/ <<a, "waiting">> \in inbox}}

SessionSettles(s, end) ==
    /\ Quiet /\ session[s] \in {"active", "waiting"}
    /\ session' = [session EXCEPT ![s] = end]
    /\ watched' = watched \ Watchers(s)
    /\ \E order \in Orders(Watchers(s)) :
         todo' = [i \in DOMAIN order |-> Finish(s, order[i][2], order[i][3], end)]
    /\ inbox' = inbox \cup Answered(s)
    /\ UNCHANGED <<table, boot, tick, touched, exec, delivery, born, conductor, waits, history>>

SessionWaits(s) ==
    /\ Quiet /\ session[s] = "active" /\ waits < MaxWaits
    /\ waits' = waits + 1
    /\ session' = [session EXCEPT ![s] = "waiting"]
    /\ \E order \in Orders(Watchers(s)) :
         todo' = [i \in DOMAIN order |-> Wedge(s, order[i][2], order[i][3])]
    /\ UNCHANGED <<table, boot, memory, born, conductor, history>>

SessionApproved(s) ==
    /\ Quiet /\ session[s] = "waiting"
    /\ session' = [session EXCEPT ![s] = "active"]
    /\ inbox' = inbox \cup Answered(s)
    /\ UNCHANGED <<table, boot, watched, tick, touched, exec, delivery, todo, born, conductor, waits,
                   history>>

\* A person, or anything but the dispatcher, starts a turn.
SessionPrompted(s) ==
    /\ Quiet /\ session[s] \in {"idle", "error"} /\ "prompt" \in Faults
    /\ session' = [session EXCEPT ![s] = "active"]
    /\ UNCHANGED <<table, boot, memory, todo, born, conductor, waits, history>>

\* Destroyed by its owner; a turn in progress settles first.
SessionVanishes(s) ==
    /\ Quiet /\ session[s] \in {"idle", "error"} /\ "vanish" \in Faults
    /\ session' = [session EXCEPT ![s] = "gone"]
    /\ UNCHANGED <<table, boot, memory, todo, born, conductor, waits, history>>

ConductorTurns ==
    /\ \/ conductor = "busy" /\ conductor' = "idle"
       \/ conductor = "idle" /\ "busy" \in Faults /\ conductor' = "busy"
    /\ UNCHANGED <<table, boot, memory, todo, session, born, waits, history>>

-----------------------------------------------------------------------------
(* Time, and the end of a boot.                                                *)

LeaseExpires(t) ==
    /\ "lapse" \in Faults
    /\ status[t] \in {"claimed", "running"} /\ leased[t]
    /\ leased' = [leased EXCEPT ![t] = FALSE]
    /\ UNCHANGED <<status, attempts, generation, claim_owner, cooling, worker, lapsed>>
    /\ UNCHANGED <<events, boot, memory, todo, world, history>>

HoldLapses(t) ==
    /\ status[t] = "held" /\ ~lapsed[t]
    /\ lapsed' = [lapsed EXCEPT ![t] = TRUE]
    /\ UNCHANGED <<status, attempts, generation, claim_owner, leased, cooling, worker>>
    /\ UNCHANGED <<events, boot, memory, todo, world, history>>

CoolsDown(t) ==
    /\ cooling[t]
    /\ cooling' = [cooling EXCEPT ![t] = FALSE]
    /\ UNCHANGED <<status, attempts, generation, claim_owner, leased, worker, lapsed>>
    /\ UNCHANGED <<events, boot, memory, todo, world, history>>

\* The tables survive; sessions come back idle (resumeSessions runs first).
Crash ==
    /\ "crash" \in Faults /\ boot < MaxBoots
    /\ boot' = boot + 1
    /\ watched' = {} /\ tick' = "off" /\ touched' = {} /\ exec' = NoExec
    /\ delivery' = NoDelivery /\ todo' = <<>> /\ inbox' = {}
    /\ session' = [s \in Sessions |-> IF Alive(s) THEN "idle" ELSE session[s]]
    /\ UNCHANGED <<table, born, conductor, waits, history>>

-----------------------------------------------------------------------------
Init ==
    /\ status = [t \in Tasks |-> "absent"]
    /\ attempts = [t \in Tasks |-> 0] /\ generation = [t \in Tasks |-> 0]
    /\ claim_owner = [t \in Tasks |-> 0] /\ worker = [t \in Tasks |-> NoSession]
    /\ leased = [t \in Tasks |-> FALSE] /\ cooling = [t \in Tasks |-> FALSE]
    /\ lapsed = [t \in Tasks |-> FALSE]
    /\ events = <<>>
    /\ boot = 1
    /\ watched = {} /\ tick = "off" /\ touched = {} /\ exec = NoExec
    /\ delivery = NoDelivery /\ todo = <<>> /\ inbox = {}
    /\ session = [s \in Sessions |-> IF \E t \in Tasks : Target[t] = s THEN "idle" ELSE "none"]
    /\ born = [s \in Sessions |-> NoTask]
    /\ conductor = "idle" /\ waits = 0
    /\ briefed = [t \in Tasks |-> 0] /\ settled = [t \in Tasks |-> 0]

Handlers == enqueue \/ enqueueGroup \/ StartTick
Loop == \E t \in Tasks : hold(t) \/ unhold(t) \/ cancel(t)
Execution == sendToSession \/ continueWorker \/ spawnWorker \/ HostThrows \/ Executed
Deliveries == DeliveryLands \/ MarkDelivered \/ DeliveryFails
SessionSteps == \E s \in Sessions :
    \/ \E end \in {"idle", "error"} : SessionSettles(s, end)
    \/ SessionWaits(s) \/ SessionApproved(s) \/ SessionPrompted(s) \/ SessionVanishes(s)
Time == \E t \in Tasks : LeaseExpires(t) \/ HoldLapses(t) \/ CoolsDown(t)

Next == \/ RunTurn \/ Handlers \/ Loop \/ Execution \/ Deliveries
        \/ SessionSteps \/ ConductorTurns \/ Time \/ Crash

Spec == Init /\ [][Next]_vars

=============================================================================
