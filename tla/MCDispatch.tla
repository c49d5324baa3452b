----------------------------- MODULE MCDispatch -----------------------------
(* Instances of Dispatch for TLC: which tasks there are, and of what kind.     *)
EXTENDS DispatchProps, TLC

CONSTANTS t1, t2, s1, s2, s3

\* A spawned worker and a plain send to an existing session.
SpawnAndSend == t1 :> "spawn" @@ t2 :> "send"
SpawnAndSendTarget == t1 :> NoSession @@ t2 :> s1

\* A loop attempt beside a spawned worker.
AttemptAndSpawn == t1 :> "attempt" @@ t2 :> "spawn"
NoTargets == t1 :> NoSession @@ t2 :> NoSession

\* A panel of two, with two targets.
PanelKind == t1 :> "send" @@ t2 :> "send"
PanelTargets == t1 :> s1 @@ t2 :> s2

\* A bound of the liveness run: an approval is asked for or the daemon dies, not both.
OneTrouble == waits' + boot' <= 2
LiveSpec == Init /\ [][Next /\ OneTrouble]_vars /\ Fairness

=============================================================================
