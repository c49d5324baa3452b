--------------------------- MODULE DispatchProps ----------------------------
(* What should be true of Dispatch, and the fairness its scheduling gives.     *)
EXTENDS Dispatch

(* At rest the watch table is exactly the running rows this boot claimed: each *)
(* under the session and generation the row names.  A missing entry is a       *)
(* worker whose end nobody would notice, a spare one a replaced worker that is *)
(* still listened to (#watch, #unwatch and every path that calls them).        *)
WatchTableExact ==
    Quiet => watched = {<<worker[t], t, generation[t]>> :
                            t \in {r \in Tasks : status[r] = "running" /\ claim_owner[r] = boot}}

(* A live session made for a spawn task has a task that still needs it, as its *)
(* recorded worker or as the one being started: "a surviving worker session    *)
(* must not be orphaned" (dispatch.ts, the terminal paths).                    *)
NoOrphanWorker ==
    Quiet => \A s \in Sessions :
        LET t == born[s]
        IN  (t # NoTask /\ Kind[t] = "spawn" /\ Alive(s)) =>
                /\ ~Terminal(t)
                /\ worker[t] = s \/ (exec.task = t /\ exec.sess = s)

(* A worker gets its brief at most once per try, so never more often than the  *)
(* failure limit, whatever crashes, retries and deferrals come between.        *)
BriefsArePaid ==
    \A t \in Tasks : /\ attempts[t] <= failure_limit(t)
                     /\ briefed[t] <= attempts[t] + 1
                     /\ briefed[t] <= failure_limit(t)

(* "Re-delivery is not idempotent": a panel member reads its brief at most     *)
(* once, across restarts and retries (#startGroupedSend).                      *)
PanelBriefedOnce == \A t \in Group : Kind[t] = "send" => briefed[t] <= 1

(* A panel member is recorded done only if its brief reached its target: "A    *)
(* GROUPED send completes when its target finishes the WORK, not when the      *)
(* prompt is handed over" (dispatch.ts:770).                                   *)
PanelDoneWasBriefed == \A t \in Group : status[t] = "done" => briefed[t] > 0

(* The merged event of a panel waits for the last member (#barrierAbsorb).     *)
BarrierJoinsAll ==
    (\E i \in DOMAIN events : events[i].type = "group_done") => \A m \in Group : Terminal(m)

(* Nothing ends in silence: once the turn is over, a worker's or a failed      *)
(* send's end is in the event table, a joined panel has its merged event, and  *)
(* an attempt's end was reported to its loop.                                  *)
Told(t) == \E i \in DOMAIN events : events[i].task = t /\ events[i].type # "group_done"
OutcomeTold ==
    Quiet => \A t \in Tasks : Terminal(t) =>
        CASE Kind[t] = "attempt" -> settled[t] > 0
          [] t \in Group -> BarrierPending \/ \E i \in DOMAIN events : events[i].type = "group_done"
          [] OTHER -> Told(t) \/ (Kind[t] = "send" /\ status[t] = "done")

(* A loop hears of the end of an attempt at most once, and never before it.    *)
AttemptSettledOnce ==
    \A t \in Tasks : settled[t] <= 1 /\ (settled[t] = 1 => Kind[t] = "attempt" /\ Terminal(t))

(* No event is marked delivered that its recipient never got: the batch is     *)
(* marked, not what is pending by then (#deliverPendingEvents).                *)
DeliveredWasHanded == \A i \in DOMAIN events : events[i].delivered => events[i].handed > 0

(* Without a crash in between, no event is handed over twice                   *)
(* (#deliveringEvents).                                                        *)
HandedOnce == \A i \in DOMAIN events : events[i].handed <= 1

(* A task that ended never changes status, is never claimed again and never    *)
(* costs another try: late workers, retries and reclaims are all fenced.       *)
TerminalIsFinal ==
    [][\A t \in Tasks : Terminal(t) => /\ status'[t] = status[t]
                                       /\ attempts'[t] = attempts[t]
                                       /\ generation'[t] = generation[t]]_vars

-----------------------------------------------------------------------------
(* The queue is a TaskLifecycle.                                               *)

PhaseOf(now) ==
    IF now = "queued" THEN "ready"
    ELSE IF now \in {"claimed", "running"} THEN "working"
    ELSE IF now = "held" THEN "parked"
    ELSE IF now \in {"failed", "blocked"} THEN "dead"
    ELSE now

phaseOf == [t \in Tasks |-> PhaseOf(status[t])]

L == INSTANCE TaskLifecycle WITH
        Retries <- {t \in Tasks : Kind[t] # "attempt"}, Limit <- FailureLimit,
        phase <- phaseOf, tries <- attempts

(* Every run of the dispatcher is a run of the abstract life cycle.            *)
ImplementsLifecycle == L!LifecycleSpec

-----------------------------------------------------------------------------
(* Fairness.  The event loop runs a turn to its end, the interval timer fires, *)
(* the clock runs on and the recipient of events rests now and then (WF).  A   *)
(* callback that keeps being due gets its turn although other turns run in     *)
(* between (SF): the end of a session's turn, the return of a delivery.        *)
(* So a host call returns or throws: one that hung would stop the dispatcher,  *)
(* whose ticks do not overlap (#ticking).  And a turn at work ends: a lease is *)
(* renewed for as long as its worker is seen working (#renewLiveLeases), so    *)
(* the queue itself would wait for ever.  A turn that waits need not end:      *)
(* nothing says that an approval is answered, and its lease runs out.          *)
Working(t) == \E w \in Renewed : w[2] = t /\ w[3] = generation[t]
HostReturns == sendToSession \/ continueWorker \/ spawnWorker \/ HostThrows
TurnEnds(s) == session[s] = "active" /\ \E end \in {"idle", "error"} : SessionSettles(s, end)
RecipientRests == conductor = "busy" /\ ConductorTurns

Fairness ==
    /\ WF_vars(RunTurn) /\ WF_vars(StartTick)
    /\ WF_vars(HostReturns) /\ WF_vars(Executed) /\ WF_vars(RecipientRests)
    /\ SF_vars(DeliveryLands \/ MarkDelivered)
    /\ \A s \in Sessions : SF_vars(TurnEnds(s))
    /\ \A t \in Tasks : /\ WF_vars(~Working(t) /\ LeaseExpires(t))
                        /\ WF_vars(HoldLapses(t)) /\ WF_vars(CoolsDown(t))

FairSpec == Spec /\ Fairness

(* The bound on generations, and not the queue, keeps t from its next claim:   *)
(* it was deferred behind a task that has ended since and left the slot free.  *)
OutOfClaims(t) ==
    /\ status[t] = "queued" /\ generation[t] >= MaxGeneration
    /\ dispatchActiveSpawnCount < MaxWorkers
    /\ \E u \in Tasks : Terminal(u)

(* Every queued task ends if turns and host calls do: through an approval      *)
(* nobody gives, a hold that lapses, a lost lease or a crash, a retry, and     *)
(* the deferrals of a full cap.  What is deferred is not starved: whoever      *)
(* holds the slot ends and leaves it (#claimAndExecute, dispatchReclaimStale). *)
EveryTaskEnds == \A t \in Tasks : status[t] = "queued" ~> (Terminal(t) \/ OutOfClaims(t))

(* Every event reaches its recipient and is marked.                            *)
EveryEventArrives ==
    (\E i \in DOMAIN events : ~events[i].delivered) ~> (\A i \in DOMAIN events : events[i].delivered)

=============================================================================
