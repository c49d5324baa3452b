----------------------------- MODULE Pipelines ------------------------------
(* One pipeline run (src/src/daemon/pipeline/): the engine that moves a phase  *)
(* from gate to turn to gate, the findings loop inside a phase, the people who *)
(* approve, revise, reject and abort, and the process that may stop or die.    *)
(* Calls on a pipeline wait in a chain and run one after the other; a call     *)
(* that drives it works on a copy, `run[o]`, which is saved once per step.     *)
(* A step awaits gates and at most one turn of the run's session.              *)
EXTENDS Naturals, Sequences

CONSTANTS MaxCalls,     \* bound: calls made on the pipeline
          MaxCrashes,   \* bound: ends of the process
          MaxAttempts,  \* onFail.max of the phases that retry
          FormatRetries,
          Plans         \* the phase plans the pipeline may be made from

Calls == 1 .. MaxCalls
Boot == 0                       \* the call driveResumable makes
Ops == Calls \cup {Boot}
Kinds == {"advance", "approve", "reject", "revise", "abort"}
Terminal == {"done", "failed", "abandoned"}
Gates == {"skip", "entry", "exit", "fixgate"}
Places == Gates \cup {"kind", "fix"}
Sources == {"entry", "exit", "input"}
Defs == [entry : BOOLEAN, gate : BOOLEAN, skip : BOOLEAN, fail : {"halt", "abort", "retry"},
         loop : {"none", "plain", "gated"}, rounds : Nat]
Phases == [st : {"pending", "running", "halted", "passed", "skipped", "failed"},
           req : Sources \cup {"none"}, clean : BOOLEAN, attempts : Nat, notes : Nat,
           next : {"review", "fix"}, open : BOOLEAN, legs : Nat, retries : Nat, rereview : BOOLEAN,
           ended : {"none", "output", "question", "error"}, saw : Nat, fixed : BOOLEAN]
Runs == [status : {"draft", "running", "halted"} \cup Terminal, cursor : Nat, ph : Seq(Phases)]

ASSUME ConstantsAssumption ==
    /\ {MaxCalls, MaxCrashes, FormatRetries} \subseteq Nat /\ MaxAttempts \in Nat \ {0}
    /\ \A p \in Plans : p # <<>> /\ p \in Seq(Defs)
    /\ \A p \in Plans : \A i \in DOMAIN p : p[i].loop # "none" => ~p[i].skip

VARIABLES
    plan,           \* the definitions of the phases, as persisted at create
    saved,          \* the row of the pipeline, and the cache, which holds the same
    kind, req,      \* each call: what it is, the request it answers,
    at, run,        \* where it is, the copy it works on
    chain,          \* #chains: the calls not yet settled, in order
    aborted,        \* evidence: abortOwner was called for this pipeline
    stopping,       \* evidence: abortAll was called, the daemon shuts down
    up, crashes

vars == <<plan, saved, kind, req, at, run, chain, aborted, stopping, up, crashes>>

\* `ended`, `saw` and `fixed` are history: how the phase's last saved leg ended, the notes it was
\* given, and whether a fix leg was committed after the last review round.  `req` is kept once the
\* phase has passed: the request it was approved at.
Pending == [st |-> "pending", req |-> "none", clean |-> FALSE, attempts |-> 0, notes |-> 0,
            next |-> "review", open |-> FALSE, legs |-> 0, retries |-> 0, rereview |-> FALSE,
            ended |-> "none", saw |-> 0, fixed |-> FALSE]
NoRun == [status |-> "draft", cursor |-> 1, ph |-> <<>>]
NoReq == <<"none", 0>>

Init ==
    /\ plan \in Plans
    /\ saved = [status |-> "draft", cursor |-> 1, ph |-> [i \in 1 .. Len(plan) |-> Pending]]
    /\ kind = [o \in Ops |-> "none"] /\ req = [o \in Ops |-> NoReq]
    /\ at = [o \in Ops |-> "none"] /\ run = [o \in Ops |-> NoRun] /\ chain = <<>>
    /\ aborted = FALSE /\ stopping = FALSE /\ up = TRUE /\ crashes = 0

-----------------------------------------------------------------------------
(* The run and its active phase.                                               *)
Active(s) == s.status \in {"draft", "running"}
Cur(s) == s.ph[s.cursor]
Def(s) == plan[s.cursor]
Looping(s) == Def(s).loop # "none"
With(s, phase) == [s EXCEPT !.ph[s.cursor] = phase]
Halted(s, phase, source, ok) ==
    [With(s, [phase EXCEPT !.st = "halted", !.req = source, !.clean = ok]) EXCEPT !.status = "halted"]
Failed(s, phase) == [With(s, [phase EXCEPT !.st = "failed"]) EXCEPT !.status = "failed"]
Again(s, phase) ==
    [With(s, [phase EXCEPT !.st = "running", !.attempts = @ + 1]) EXCEPT !.status = "running"]
Forward(s, phase) ==
    [With(s, phase) EXCEPT !.cursor = @ + 1,
                           !.status = IF s.cursor = Len(plan) THEN "done" ELSE "running"]
MayRetry(s) == Def(s).fail = "retry" /\ Cur(s).attempts + 1 < MaxAttempts

\* What a failed gate or turn does.  A turn that failed never halts for an approval.
applyFail(s, source) ==
    IF MayRetry(s) THEN Again(s, Cur(s))
    ELSE IF Def(s).fail = "halt" /\ source # "kind" THEN Halted(s, Cur(s), source, FALSE)
    ELSE Failed(s, Cur(s))

\* What a leg of the findings loop does that used up its repair, or its budget with findings open.
findingsFail(s) ==
    LET phase == [Cur(s) EXCEPT !.retries = 0, !.rereview = FALSE,
                                !.next = IF Cur(s).open THEN "fix" ELSE "review"]
    IN IF MayRetry(s) THEN Again(s, [phase EXCEPT !.legs = 0])
       ELSE IF Def(s).fail = "halt" THEN Halted(s, [phase EXCEPT !.next = "review"], "exit", FALSE)
       ELSE Failed(s, phase)

\* Where a step goes first: the skip probe of a phase entered for the first time, its entry gate
\* unless the leg is the loop's own, or the leg.
LoopLeg(s) == Looping(s) /\ (Cur(s).next = "fix" \/ Cur(s).rereview \/ Cur(s).retries > 0)
Leg(s) == IF Looping(s) /\ Cur(s).next = "fix" THEN "fix" ELSE "kind"
AfterSkip(s) == IF Def(s).entry /\ ~LoopLeg(s) THEN "entry" ELSE Leg(s)
First(s) == IF Cur(s).st = "pending" /\ Def(s).skip /\ Def(s).gate THEN "skip" ELSE AfterSkip(s)
Promoted(s) == [With(s, [Cur(s) EXCEPT !.st = "running"]) EXCEPT !.status = "running"]

-----------------------------------------------------------------------------
(* The chain of calls, and the steps of the one that drives the run.           *)
MayStartAnyway(o) == at[o] = "queued"                       \* mutant: no chain
MayStart(o) == at[o] = "queued" /\ Head(chain) = o
Forget(o) ==
    /\ kind' = [kind EXCEPT ![o] = "none"] /\ req' = [req EXCEPT ![o] = NoReq]
    /\ run' = [run EXCEPT ![o] = NoRun]
Ends(o) == at' = [at EXCEPT ![o] = "over"] /\ chain' = Tail(chain) /\ Forget(o)
\* A step that is saved, and the start of the next one.
Goes(o, s) ==
    /\ saved' = s
    /\ IF Active(s)
       THEN /\ at' = [at EXCEPT ![o] = First(s)] /\ run' = [run EXCEPT ![o] = Promoted(s)]
            /\ UNCHANGED <<kind, req, chain>>
       ELSE Ends(o)
\* A step that goes on: nothing is saved.
Stays(o, place, s) ==
    /\ at' = [at EXCEPT ![o] = place] /\ run' = [run EXCEPT ![o] = s]
    /\ UNCHANGED <<kind, req, saved, chain>>
world == <<plan, stopping, up, crashes>>

\* GateCancelled: the step is dropped unsaved, and so is the drive.
Cancelled(o) ==
    /\ at[o] \in Gates /\ (aborted \/ stopping)
    /\ Ends(o)
    /\ UNCHANGED <<saved, aborted, world>>

SkipProbe(o, pass) ==
    LET s == run[o] IN
    /\ at[o] = "skip"
    /\ IF pass THEN Goes(o, Forward(s, [Cur(s) EXCEPT !.st = "skipped"])) ELSE Stays(o, AfterSkip(s), s)
    /\ UNCHANGED <<aborted, world>>

EntryGate(o, pass) ==
    LET s == run[o] IN
    /\ at[o] = "entry"
    /\ IF pass THEN Stays(o, Leg(s), s) ELSE Goes(o, applyFail(s, "entry"))
    /\ UNCHANGED <<aborted, world>>

\* mutant: the loop's own verdict is left out
BoundaryTrustsGate(s, pass) ==
    IF pass THEN Halted(s, Cur(s), "exit", TRUE)
    ELSE IF Def(s).fail = "halt" THEN Halted(s, Cur(s), "exit", FALSE)
    ELSE applyFail(s, "exit")
\* The exit boundary: what the gate says and what the loop left open, then the person.
Boundary(s, pass) ==
    LET open == Looping(s) /\ Cur(s).open IN
    IF pass /\ ~open THEN Halted(s, Cur(s), "exit", TRUE)
    ELSE IF Def(s).fail = "halt" THEN Halted(s, Cur(s), "exit", FALSE)
    ELSE IF open THEN findingsFail(s)
    ELSE applyFail(s, "exit")
ExitGate(o, pass) ==
    /\ at[o] = "exit"
    /\ Goes(o, Boundary(run[o], pass))
    /\ UNCHANGED <<aborted, world>>

-----------------------------------------------------------------------------
(* A turn rests: with a report, with a question nobody was there to answer, or *)
(* in an error.  A report of the findings loop may lack its block.             *)
After(s, how) == With(s, [Cur(s) EXCEPT !.ended = how, !.saw = Cur(s).notes])
Asked(s) == Halted(After(s, "question"), Cur(After(s, "question")), "input", FALSE)
\* mutant: the repair is not counted
RepairedAgain(s) ==
    IF Cur(s).retries < FormatRetries THEN s ELSE findingsFail(s)
\* One repair of the same leg, then the policy.
Repaired(s) ==
    IF Cur(s).retries < FormatRetries THEN With(s, [Cur(s) EXCEPT !.retries = @ + 1]) ELSE findingsFail(s)
\* A review round is recorded.
Reviewed(s, blockers) ==
    With(s, [Cur(s) EXCEPT !.rereview = FALSE, !.retries = 0, !.open = blockers, !.fixed = FALSE,
                           !.next = IF blockers /\ Cur(s).legs < Def(s).rounds THEN "fix" ELSE "review"])
\* A fix leg is committed: the reviewer speaks next.
Committed(s) ==
    With(s, [Cur(s) EXCEPT !.legs = @ + 1, !.retries = 0, !.next = "review",
                           !.rereview = TRUE, !.fixed = TRUE])
ToBoundary(o, s) == IF Def(s).gate THEN Stays(o, "exit", s) ELSE Goes(o, Boundary(s, TRUE))

TurnFails(o, how) ==
    LET s == run[o] IN
    /\ at[o] \in {"kind", "fix"}
    /\ Goes(o, IF how = "question" THEN Asked(s) ELSE applyFail(After(s, "error"), "kind"))
    /\ UNCHANGED <<aborted, world>>

PhaseEnds(o) ==
    LET s == run[o] IN
    /\ at[o] = "kind" /\ ~Looping(s)
    /\ ToBoundary(o, After(s, "output"))
    /\ UNCHANGED <<aborted, world>>

ReviewEnds(o, report) ==
    LET s == After(run[o], "output")
        r == Reviewed(s, report = "blockers")
    IN
    /\ at[o] = "kind" /\ Looping(s)
    /\ \/ report = "bad" /\ Goes(o, Repaired(With(s, [Cur(s) EXCEPT !.rereview = FALSE])))
       \/ report # "bad" /\ Cur(r).next = "fix" /\ Goes(o, r)
       \/ report # "bad" /\ Cur(r).next = "review" /\ ToBoundary(o, r)
    /\ UNCHANGED <<aborted, world>>

FixEnds(o, valid) ==
    LET s == After(run[o], "output") IN
    /\ at[o] = "fix"
    /\ IF ~valid THEN Goes(o, Repaired(s))
       ELSE IF Def(s).loop = "gated" THEN Stays(o, "fixgate", s)
       ELSE Goes(o, Committed(s))
    /\ UNCHANGED <<aborted, world>>

FixGate(o, pass) ==
    /\ at[o] = "fixgate"
    /\ Goes(o, IF pass THEN Committed(run[o]) ELSE Repaired(run[o]))
    /\ UNCHANGED <<aborted, world>>

-----------------------------------------------------------------------------
(* The calls.  Whoever answers names the request the saved row shows.          *)
Request(s) == <<Cur(s).req, s.cursor>>
Waits(s, asked) == s.status = "halted" /\ Cur(s).st = "halted" /\ Request(s) = asked

Call(o, k) ==
    /\ up /\ ~stopping /\ at[o] = "none"
    /\ \A p \in 1 .. o - 1 : at[p] # "none"
    /\ k \in {"approve", "reject", "revise"} => saved.status = "halted"
    /\ kind' = [kind EXCEPT ![o] = k] /\ at' = [at EXCEPT ![o] = "queued"]
    /\ req' = [req EXCEPT ![o] = IF k \in {"advance", "abort"} THEN NoReq ELSE Request(saved)]
    /\ chain' = Append(chain, o)
    /\ aborted' = (aborted \/ k = "abort")
    /\ UNCHANGED <<saved, run, world>>

Advance(o) ==
    /\ MayStart(o) /\ kind[o] = "advance"
    /\ Goes(o, saved)
    /\ UNCHANGED <<aborted, world>>

\* Approving a question would pass the phase without the answer.
Approve(o) ==
    /\ MayStart(o) /\ kind[o] = "approve"
    /\ IF Waits(saved, req[o]) /\ Cur(saved).req # "input"
       THEN Goes(o, Forward(saved, [Cur(saved) EXCEPT !.st = "passed"]))
       ELSE Ends(o) /\ UNCHANGED saved
    /\ UNCHANGED <<aborted, world>>

Reject(o) ==
    /\ MayStart(o) /\ kind[o] = "reject"
    /\ IF Waits(saved, req[o]) THEN Goes(o, Failed(saved, Cur(saved))) ELSE Ends(o) /\ UNCHANGED saved
    /\ UNCHANGED <<aborted, world>>

Noted(s) ==
    [With(s, [Cur(s) EXCEPT !.st = "running", !.attempts = 0, !.notes = @ + 1]) EXCEPT !.status = "running"]
Revise(o) ==
    /\ MayStart(o) /\ kind[o] = "revise"
    /\ IF Waits(saved, req[o]) THEN Goes(o, Noted(saved)) ELSE Ends(o) /\ UNCHANGED saved
    /\ UNCHANGED <<aborted, world>>

Abort(o) ==
    /\ MayStart(o) /\ kind[o] = "abort"
    /\ saved' = IF saved.status \in Terminal THEN saved
                ELSE [With(saved, [Cur(saved) EXCEPT !.st = "failed"]) EXCEPT !.status = "abandoned"]
    /\ Ends(o)
    /\ UNCHANGED <<aborted, world>>

-----------------------------------------------------------------------------
(* The process: it stops its checks, then it is gone, and a new one re-drives  *)
(* what was in the middle of a run.                                            *)
Shutdown == up /\ ~stopping /\ crashes < MaxCrashes /\ stopping' = TRUE
            /\ UNCHANGED <<plan, saved, kind, req, at, run, chain, aborted, up, crashes>>
Crash ==
    /\ up /\ crashes < MaxCrashes
    /\ up' = FALSE /\ crashes' = crashes + 1
    /\ at' = [o \in Ops |-> IF at[o] = "none" THEN "none" ELSE "over"]
    /\ kind' = [o \in Ops |-> "none"] /\ req' = [o \in Ops |-> NoReq] /\ run' = [o \in Ops |-> NoRun]
    /\ chain' = <<>> /\ aborted' = FALSE /\ stopping' = FALSE
    /\ UNCHANGED <<plan, saved>>
RedrivenDrafts(s) == s.status = "draft"                    \* mutant: what was running is left
Redriven(s) == Active(s)
Start ==
    /\ ~up /\ up' = TRUE
    /\ IF Redriven(saved)
       THEN /\ kind' = [kind EXCEPT ![Boot] = "advance"] /\ at' = [at EXCEPT ![Boot] = "queued"]
            /\ chain' = Append(chain, Boot)
       ELSE UNCHANGED <<kind, at, chain>>
    /\ UNCHANGED <<plan, saved, req, run, aborted, stopping, crashes>>

Works(o) ==
    \/ Advance(o) \/ Approve(o) \/ Reject(o) \/ Revise(o) \/ Abort(o)
    \/ Cancelled(o)
    \/ \E pass \in BOOLEAN :
           SkipProbe(o, pass) \/ EntryGate(o, pass) \/ ExitGate(o, pass) \/ FixGate(o, pass)
    \/ \E how \in {"question", "error"} : TurnFails(o, how)
    \/ PhaseEnds(o)
    \/ \E report \in {"bad", "blockers", "clean"} : ReviewEnds(o, report)
    \/ \E valid \in BOOLEAN : FixEnds(o, valid)

Next ==
    \/ \E o \in Calls : \E k \in Kinds : Call(o, k)
    \/ \E o \in Ops : Works(o)
    \/ Shutdown \/ Crash \/ Start

Spec == Init /\ [][Next]_vars

-----------------------------------------------------------------------------
(* Every run fits its plan: the cursor leaves it only when the run is done, so *)
(* the engine never meets the missing phase it provides for.                   *)
Fits(s) ==
    /\ s \in Runs /\ Len(s.ph) = Len(plan)
    /\ s.cursor \in 1 .. Len(plan) + 1
    /\ s.cursor = Len(plan) + 1 => s.status = "done"
TypeOK ==
    /\ plan \in Plans /\ Fits(saved)
    /\ kind \in [Ops -> Kinds \cup {"none"}] /\ req \in [Ops -> (Sources \cup {"none"}) \X Nat]
    /\ at \in [Ops -> Places \cup {"none", "queued", "over"}]
    /\ DOMAIN run = Ops /\ \A o \in Ops : IF at[o] \in Places THEN Fits(run[o]) ELSE run[o] = NoRun
    /\ chain \in Seq(Ops)
    /\ {aborted, stopping, up} \subseteq BOOLEAN /\ crashes \in 0 .. MaxCrashes

(* A run saved as running is being driven, or its process is going down: no    *)
(* approval, revision, cancelled gate or restart leaves one nothing will move. *)
RunningIsDriven == up /\ ~stopping /\ saved.status = "running" => chain # <<>>

(* A run that is over stays so: an abort or a rejection is not overwritten by  *)
(* the step that was in flight ("clobber persisted state", manager.ts:9).      *)
OverStaysOver == [][saved.status \in Terminal => saved' = saved]_vars

(* What a person is asked to approve, and what counts as passed, is the work:  *)
(* the phase's last leg brought a report and had every note of theirs, unless  *)
(* they overrode an entry gate; and "review and approve" is said only with no  *)
(* blocking finding open and no fix unreviewed.                                *)
BoundaryIsWork ==
    \A i \in DOMAIN saved.ph :
        LET phase == saved.ph[i] IN
        /\ phase.st \in {"halted", "passed"} /\ phase.req = "exit"
              => phase.ended = "output" /\ phase.saw = phase.notes
        /\ phase.st = "passed" => phase.req \in {"entry", "exit"}
        /\ phase.st = "halted" /\ phase.clean => ~phase.open /\ ~phase.fixed

(* What the scheduling gives: a call gets its turn, a check ends within its    *)
(* time limit, a turn rests (the person watching may stop it), and what a      *)
(* report says is up to the model.                                             *)
Fairness == \A o \in Ops : WF_vars(Works(o))
FairSpec == Spec /\ Fairness

(* Every call is answered: the retries, repairs and fix legs of a drive are    *)
(* bounded whatever the model and the gates say, so the chain moves on.        *)
CallsSettle == \A o \in Calls : at[o] = "queued" ~> at[o] = "over"

=============================================================================
