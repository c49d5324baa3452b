--------------------------- MODULE TaskLifecycle ----------------------------
(* What the dispatch queue promises of every task, with no worker, claim,      *)
(* lease, boot or event in sight (the header of src/src/daemon/dispatch.ts):   *)
(* a task waits, is worked on, may be parked, and ends once, done or dead; a   *)
(* lost or failed try is counted, and only a task with tries left goes back    *)
(* to the queue.                                                               *)
EXTENDS Naturals

CONSTANTS Tasks,
          Retries,      \* tasks the queue itself may retry
          Limit         \* tries before a task is given up

VARIABLES phase, tries

Phases == {"absent", "ready", "working", "parked", "done", "dead"}

LifecycleInit ==
    /\ phase = [t \in Tasks |-> "absent"]
    /\ tries = [t \in Tasks |-> 0]

Moves(t, from, to) ==
    /\ phase[t] \in from
    /\ phase' = [phase EXCEPT ![t] = to]
    /\ UNCHANGED tries

SubmitAll(S) ==
    /\ \A t \in S : phase[t] = "absent"
    /\ phase' = [t \in Tasks |-> IF t \in S THEN "ready" ELSE phase[t]]
    /\ UNCHANGED tries

(* Some tries are lost together: a new boot, or a lapse of time.               *)
AfterLoss(t) == IF t \in Retries /\ tries[t] + 1 < Limit THEN "ready" ELSE "dead"

Lose(S) ==
    /\ \A t \in S : phase[t] \in {"working", "parked"}
    /\ phase' = [t \in Tasks |-> IF t \in S THEN AfterLoss(t) ELSE phase[t]]
    /\ tries' = [t \in Tasks |-> IF t \in S THEN tries[t] + 1 ELSE tries[t]]

(* The work can never succeed, whatever tries are left.                        *)
Refuse(t) ==
    /\ phase[t] \in {"working", "parked"}
    /\ phase' = [phase EXCEPT ![t] = "dead"]
    /\ tries' = [tries EXCEPT ![t] = @ + 1]

LifecycleNext ==
    \/ \E S \in SUBSET Tasks : SubmitAll(S) \/ Lose(S)
    \/ \E t \in Tasks :
        \/ Moves(t, {"ready"}, "working")                   \* claimed
        \/ Moves(t, {"working"}, "ready")                   \* deferred, at no cost
        \/ Moves(t, {"working"}, "done")
        \/ Refuse(t)
        \/ t \notin Retries /\ \/ Moves(t, {"working"}, "parked")
                               \/ Moves(t, {"parked"}, "working")
                               \/ Moves(t, {"ready", "working", "parked"}, "dead")

LifecycleSpec == LifecycleInit /\ [][LifecycleNext]_<<phase, tries>>

=============================================================================
