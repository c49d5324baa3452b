---------------------------- MODULE MCPipelines -----------------------------
(* Instances of Pipelines for TLC: plans with every gate, policy and loop.     *)
EXTENDS Pipelines

Plain == [entry |-> FALSE, gate |-> FALSE, skip |-> FALSE, fail |-> "halt", loop |-> "none", rounds |-> 0]
MCPlans ==
    {<<[Plain EXCEPT !.gate = TRUE, !.skip = TRUE], Plain>>,
     <<[Plain EXCEPT !.entry = TRUE, !.gate = TRUE], [Plain EXCEPT !.gate = TRUE, !.fail = "retry"]>>,
     <<[Plain EXCEPT !.entry = TRUE, !.gate = TRUE, !.fail = "abort"]>>,
     <<[Plain EXCEPT !.entry = TRUE, !.gate = TRUE, !.loop = "gated", !.rounds = 2]>>,
     <<[Plain EXCEPT !.loop = "plain", !.fail = "retry", !.rounds = 1]>>,
     <<[Plain EXCEPT !.loop = "plain"], Plain>>}

=============================================================================
