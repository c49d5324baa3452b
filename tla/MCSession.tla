----------------------------- MODULE MCSession ------------------------------
(* Instances of Session for TLC. A run draws one mix of messages, calls and    *)
(* faults at the start, so that each pair that interferes is explored without *)
(* the product of all of them.                                                *)
EXTENDS Session

CONSTANTS s1, s2, c1, b1

Mix(S, C, t, k, x) == [sends |-> S, calls |-> C, stops |-> t, kills |-> k, crashes |-> x]

TurnMixes == {
    Mix({s1, s2}, {c1}, 1, 0, 0),       \* two messages, a call and a Stop
    Mix({s1}, {c1, b1}, 1, 0, 0),       \* a background agent beside the turn, and a Stop
    Mix({s1}, {c1, b1}, 0, 1, 1),       \* ... a backend terminated, and one that fails
    Mix({s1, s2}, {c1}, 0, 0, 1),       \* a failure between two messages
    Mix({s1, s2}, {b1}, 0, 1, 0)}       \* a background agent, and a termination
=============================================================================
