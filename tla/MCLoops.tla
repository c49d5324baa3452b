------------------------------ MODULE MCLoops -------------------------------
(* An instance of Loops for TLC: two attempts that count, two trees.           *)
EXTENDS Loops

Mix(may, paused, steered, waits, lost, started) ==
    [faults |-> may, pauses |-> paused, steers |-> steered, holds |-> waits, lapses |-> lost, boots |-> started]
WaitMix == Mix({"crash"}, 0, 0, 1, 1, 2)
MCMixes ==
    {WaitMix,
     Mix({"crash", "vanish"}, 0, 0, 0, 0, 2),
     Mix({"crash", "throw"}, 0, 0, 0, 0, 2),
     Mix({"crash", "cancel"}, 0, 0, 0, 0, 2),
     Mix({"crash"}, 0, 1, 0, 0, 2),
     Mix({"crash"}, 1, 0, 0, 0, 2),
     Mix({"stop", "time"}, 1, 0, 0, 0, 2),
     Mix({"stop", "ask"}, 0, 1, 0, 0, 2),
     Mix({"cancel", "throw"}, 0, 0, 1, 1, 1),
     Mix({"ask"}, 1, 1, 0, 0, 1),
     Mix({"ask", "cancel"}, 0, 1, 0, 0, 1),
     Mix({"conflict"}, 0, 0, 2, 0, 1),
     Mix({"throw"}, 1, 0, 0, 0, 1),
     Mix({}, 1, 0, 1, 0, 1)}

=============================================================================
