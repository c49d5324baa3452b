------------------------------ MODULE MCWatches ------------------------------
(* An instance of Watches for TLC: what may happen in one behaviour.           *)
EXTENDS Watches

CONSTANTS w1, w2
Mix(who, list, happen, counts) ==
    [kinds |-> happen, watchers |-> who, trust |-> list,
     ticks |-> counts[1], arrivals |-> counts[2], reds |-> counts[3], asks |-> counts[4], changes |-> counts[5],
     fails |-> counts[6], refusals |-> counts[7], unready |-> counts[8], crashes |-> counts[9]]
Both == {w1, w2}
MCMixes ==
    {Mix({w1}, {Me}, {}, <<1, 1, 0, 1, 0, 1, 0, 0, 0>>),
     Mix({w1}, {Me}, {}, <<2, 1, 0, 1, 0, 0, 0, 0, 0>>),
     Mix({w1}, {Me}, {}, <<1, 0, 1, 2, 0, 0, 1, 0, 0>>),
     Mix({w1}, Logins, {"trust"}, <<0, 1, 1, 0, 2, 0, 0, 0, 0>>),
     Mix({w1}, {Me}, {"vouch"}, <<0, 1, 1, 0, 1, 0, 0, 0, 0>>),
     Mix({w1}, {Me}, {"trust", "vouch"}, <<0, 0, 1, 0, 2, 0, 0, 0, 0>>),
     Mix({w1}, {Me}, {"pause", "login", "delete"}, <<1, 0, 0, 1, 1, 0, 0, 0, 0>>),
     Mix({w1}, {Me}, {"close", "stop"}, <<0, 0, 1, 1, 2, 0, 0, 0, 1>>),
     Mix(Both, {Me}, {}, <<0, 0, 1, 1, 0, 0, 0, 0, 0>>),
     Mix(Both, {Me}, {}, <<1, 0, 0, 1, 0, 0, 0, 1, 0>>),
     Mix(Both, {Me}, {}, <<0, 0, 0, 1, 0, 0, 0, 1, 1>>)}

=============================================================================
