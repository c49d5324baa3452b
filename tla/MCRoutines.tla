----------------------------- MODULE MCRoutines -----------------------------
(* An instance of Routines for TLC: a loop routine with a check, which skips,  *)
(* and a session routine that keeps its session and queues.                    *)
EXTENDS Routines, TLC

CONSTANTS L, Q

Mix(of, may, made, asked, timed) == [of |-> of, faults |-> may, runs |-> made, asks |-> asked, dues |-> timed]
MCMixes ==
    {Mix({Q}, {"crash", "cancel", "delete", "throw"}, 3, 2, 1),
     Mix({Q}, {"stop", "vanish", "pause", "late", "refuse"}, 3, 2, 2),
     Mix({L}, {"crash", "cancel", "delete", "conflict"}, 3, 2, 1),
     Mix({L}, {"stop", "pause", "late", "refuse"}, 3, 2, 1),
     Mix({L, Q}, {"crash"}, 3, 1, 1),
     Mix({L, Q}, {"throw", "cancel", "delete"}, 2, 1, 1)}

=============================================================================
