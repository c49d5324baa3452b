-------------------------- MODULE PipelinesProofs ---------------------------
(* What Pipelines does for any plans, any number of calls and any bounds.      *)
(*   ChainInv  ties the chain of calls to who drives the run: from it a run    *)
(*             that is over stays so (Finality), and one saved as running is   *)
(*             driven (Driven).                                                *)
(*   WorkInv   ties what a leg brought to what the boundary asks: from it an   *)
(*             approval is of work (Boundaries).                               *)
EXTENDS Pipelines, SequenceTheorems, TLAPS

(* The call at a running place is the head of the chain, and nothing has ended *)
(* the run under it; every call that waits is in the chain; a new process      *)
(* starts with none; an abort that was asked for waits in the chain or has     *)
(* been; and a running run has a call at work, the one made at boot, or an     *)
(* abort to come.                                                              *)
ChainInv ==
    /\ \A o \in Ops : at[o] \in Places => chain # <<>> /\ Head(chain) = o /\ Active(saved)
    /\ \A o \in Ops : at[o] = "queued" => \E i \in 1 .. Len(chain) : chain[i] = o
    /\ ~up => chain = <<>> /\ ~aborted
    /\ aborted => \/ saved.status \in Terminal
                  \/ \E i \in 1 .. Len(chain) : at[chain[i]] = "queued" /\ kind[chain[i]] = "abort"
    /\ up /\ ~stopping /\ ~aborted /\ saved.status = "running" =>
         /\ chain # <<>>
         /\ at[Head(chain)] \notin Places => Head(chain) = Boot /\ kind[Boot] = "advance"

(* What a phase of a run, saved or not, may be at the boundary.                *)
PhaseWork(phase) ==
    /\ phase.st \in {"halted", "passed"} /\ phase.req = "exit"
          => phase.ended = "output" /\ phase.saw = phase.notes
    /\ phase.st = "halted" => phase.req \in Sources
    /\ phase.st = "passed" => phase.req \in {"entry", "exit"}
    /\ phase.st = "halted" /\ phase.clean => ~phase.open /\ ~phase.fixed
RunWork(s) ==
    \A i \in 1 .. Len(plan) :
        /\ PhaseWork(s.ph[i])
        /\ plan[i].loop = "none" => ~s.ph[i].open /\ ~s.ph[i].fixed
Well(s) == Fits(s) /\ RunWork(s)
Here(s) == Well(s) /\ s.cursor \in 1 .. Len(plan)
(* A copy at each place of a step: the active phase runs, and before its exit  *)
(* or its fix gate the leg that ended brought a report.                        *)
Running(s) == Here(s) /\ s.status = "running" /\ Cur(s).st = "running"
Reported(s) == Running(s) /\ Cur(s).ended = "output" /\ Cur(s).saw = Cur(s).notes
CopyAt(place, s) ==
    /\ Running(s)
    /\ place \in {"exit", "fixgate"} => Reported(s)
    /\ place = "exit" => ~Cur(s).fixed
    /\ place \in {"fix", "fixgate"} => Looping(s)
WorkInv ==
    /\ RunWork(saved)
    /\ \A o \in Ops : at[o] \in Places => CopyAt(at[o], run[o])

-----------------------------------------------------------------------------
(* The run: what each transition of the engine leaves.                         *)
Suits(s, phase) ==
    phase \in Phases /\ PhaseWork(phase) /\ (~Looping(s) => ~phase.open /\ ~phase.fixed)

LEMMA PlanType ==
    ASSUME plan \in Plans
    PROVE  Len(plan) \in Nat \ {0} /\ \A i \in 1 .. Len(plan) : plan[i] \in Defs
<1>1. plan \in Seq(Defs) /\ plan # <<>>
  BY ConstantsAssumption
<1> QED
  BY <1>1

LEMMA CurType ==
    ASSUME plan \in Plans, NEW s, Here(s)
    PROVE  Cur(s) \in Phases /\ Suits(s, Cur(s)) /\ Def(s) \in Defs
<1>1. s.ph \in Seq(Phases) /\ Len(s.ph) = Len(plan)
  BY DEF Here, Well, Fits, Runs
<1>2. Cur(s) \in Phases
  BY <1>1 DEF Here, Cur
<1>3. PhaseWork(Cur(s)) /\ (~Looping(s) => ~Cur(s).open /\ ~Cur(s).fixed)
  BY DEF Here, Well, RunWork, Cur, Looping, Def
<1> QED
  BY <1>2, <1>3, PlanType DEF Suits, Here, Def

(* Replacing the active phase by one that suits, with any status.              *)
LEMMA WithFits ==
    ASSUME plan \in Plans, NEW s, Here(s), NEW phase, Suits(s, phase)
    PROVE  LET t == With(s, phase) IN
           Here(t) /\ t.status = s.status /\ t.cursor = s.cursor /\ Cur(t) = phase
<1> DEFINE t == With(s, phase)
<1>1. s \in Runs /\ phase \in Phases /\ s.ph \in Seq(Phases) /\ Len(s.ph) = Len(plan) /\ s.cursor \in 1 .. Len(plan)
  BY DEF Here, Well, Fits, Runs, Suits
<1>2. t = [s EXCEPT !.ph = [s.ph EXCEPT ![s.cursor] = phase]]
  BY DEF With
<1>3. /\ [s.ph EXCEPT ![s.cursor] = phase] \in Seq(Phases)
      /\ Len([s.ph EXCEPT ![s.cursor] = phase]) = Len(plan)
  BY <1>1
<1>4. t \in Runs /\ t.status = s.status /\ t.cursor = s.cursor /\ t.ph = [s.ph EXCEPT ![s.cursor] = phase]
  BY <1>1, <1>2, <1>3 DEF Runs
<1>5. t.ph[s.cursor] = phase /\ \A i \in 1 .. Len(plan) : i # s.cursor => t.ph[i] = s.ph[i]
  BY <1>1, <1>4
<1>6. Fits(t)
  BY <1>3, <1>4 DEF Here, Well, Fits
<1>7. RunWork(t)
  BY <1>1, <1>5 DEF RunWork, Here, Well, Suits, Looping, Def
<1> HIDE DEF t
<1> QED
  BY <1>1, <1>4, <1>5, <1>6, <1>7 DEF Here, Well, Cur, t

LEMMA StatusFits ==
    ASSUME plan \in Plans, NEW s, Here(s), NEW st \in {"draft", "running", "halted"} \cup Terminal
    PROVE  LET t == [s EXCEPT !.status = st] IN
           Here(t) /\ t.status = st /\ t.cursor = s.cursor /\ Cur(t) = Cur(s)
<1> DEFINE t == [s EXCEPT !.status = st]
<1>1. s \in Runs
  BY DEF Here, Well, Fits
<1>2. t \in Runs /\ t.status = st /\ t.cursor = s.cursor /\ t.ph = s.ph
  BY <1>1 DEF Runs
<1>3. Len(plan) \in Nat
  BY PlanType
<1> HIDE DEF t
<1> QED
  BY <1>2, <1>3 DEF Here, Well, Fits, RunWork, Cur, t

LEMMA Moved ==
    ASSUME plan \in Plans, NEW s, Here(s), NEW phase, Suits(s, phase)
    PROVE  /\ \A st \in {"draft", "running", "halted"} \cup Terminal :
                 LET t == [With(s, phase) EXCEPT !.status = st] IN
                 Here(t) /\ t.status = st /\ t.cursor = s.cursor /\ Cur(t) = phase
           /\ Well(Forward(s, phase)) /\ Forward(s, phase).status \in {"running", "done"}
<1> DEFINE w == With(s, phase)
<1>1. Here(w) /\ w.status = s.status /\ w.cursor = s.cursor /\ Cur(w) = phase
  BY WithFits
<1>2. \A st \in {"draft", "running", "halted"} \cup Terminal :
         LET t == [w EXCEPT !.status = st] IN
         Here(t) /\ t.status = st /\ t.cursor = s.cursor /\ Cur(t) = phase
  <2> HIDE DEF w
  <2> QED
    BY <1>1, StatusFits
<1> DEFINE f == [w EXCEPT !.cursor = @ + 1, !.status = IF s.cursor = Len(plan) THEN "done" ELSE "running"]
<1>3. Well(f) /\ f.status \in {"running", "done"}
  <2> HIDE DEF w
  <2>1. w \in Runs /\ Len(plan) \in Nat \ {0}
    BY <1>1, PlanType DEF Here, Well, Fits
  <2>2. /\ f \in Runs /\ f.ph = w.ph /\ f.cursor = w.cursor + 1
        /\ f.status = IF s.cursor = Len(plan) THEN "done" ELSE "running"
    <3>1. DEFINE st == IF s.cursor = Len(plan) THEN "done" ELSE "running"
    <3>2. st \in {"draft", "running", "halted"} \cup Terminal
      BY DEF Terminal
    <3>3. f = [w EXCEPT !.cursor = w.cursor + 1, !.status = st]
      OBVIOUS
    <3> HIDE DEF st, f
    <3>4. w.cursor \in Nat /\ w.cursor + 1 \in Nat /\ w.ph \in Seq(Phases)
      BY <2>1 DEF Runs
    <3>5. f = [status |-> st, cursor |-> w.cursor + 1, ph |-> w.ph]
      BY <2>1, <3>3 DEF Runs
    <3>6. f \in Runs
      BY <3>2, <3>4, <3>5 DEF Runs
    <3> QED
      BY <3>5, <3>6 DEF st
  <2>3. Fits(w) /\ RunWork(w) /\ w.cursor \in 1 .. Len(plan) /\ w.cursor = s.cursor
    BY <1>1 DEF Here, Well
  <2> HIDE DEF f
  <2>4. Fits(f)
    BY <2>1, <2>2, <2>3 DEF Fits
  <2>5. RunWork(f)
    BY <2>2, <2>3 DEF RunWork
  <2>6. f.status \in {"running", "done"}
    BY <2>2
  <2> QED
    BY <2>4, <2>5, <2>6 DEF Well
<1> QED
  BY <1>2, <1>3 DEF Forward

LEMMA Verdicts ==
    ASSUME plan \in Plans, NEW s, Here(s), NEW phase \in Phases,
           ~Looping(s) => ~phase.open /\ ~phase.fixed
    PROVE  /\ Well(Failed(s, phase)) /\ Well(Again(s, phase))
           /\ Well(Forward(s, [phase EXCEPT !.st = "skipped"]))
           /\ \A source \in Sources, ok \in BOOLEAN :
                /\ source = "exit" => phase.ended = "output" /\ phase.saw = phase.notes
                /\ ok => ~phase.open /\ ~phase.fixed
                => Well(Halted(s, phase, source, ok))
<1>1. Well(Failed(s, phase))
  <2>1. Suits(s, [phase EXCEPT !.st = "failed"])
    BY DEF Suits, PhaseWork, Phases
  <2> QED
    BY <2>1, Moved DEF Failed, Terminal, Here
<1>2. Well(Again(s, phase))
  <2> DEFINE k == [phase EXCEPT !.st = "running", !.attempts = phase.attempts + 1]
  <2>1. phase.attempts + 1 \in Nat
    BY DEF Phases
  <2>2. k \in Phases /\ k.st = "running" /\ k.open = phase.open /\ k.fixed = phase.fixed
    BY <2>1 DEF Phases
  <2> HIDE DEF k
  <2>3. Suits(s, k)
    BY <2>2 DEF Suits, PhaseWork
  <2> QED
    BY <2>3, Moved DEF Again, Here, k
<1>3. Well(Forward(s, [phase EXCEPT !.st = "skipped"]))
  <2> DEFINE k == [phase EXCEPT !.st = "skipped"]
  <2>0. k \in Phases /\ k.st = "skipped" /\ k.open = phase.open /\ k.fixed = phase.fixed
    BY DEF Phases
  <2> HIDE DEF k
  <2>1. Suits(s, k)
    BY <2>0 DEF Suits, PhaseWork
  <2> QED
    BY <2>1, Moved DEF k
<1>4. ASSUME NEW source \in Sources, NEW ok \in BOOLEAN,
             source = "exit" => phase.ended = "output" /\ phase.saw = phase.notes,
             ok => ~phase.open /\ ~phase.fixed
      PROVE  Well(Halted(s, phase, source, ok))
  <2> DEFINE h == [phase EXCEPT !.st = "halted", !.req = source, !.clean = ok]
  <2>1. h \in Phases
    BY <1>4 DEF Phases
  <2>2. /\ h.st = "halted" /\ h.req = source /\ h.clean = ok /\ h.open = phase.open
        /\ h.fixed = phase.fixed /\ h.ended = phase.ended /\ h.saw = phase.saw /\ h.notes = phase.notes
    BY DEF Phases
  <2> HIDE DEF h
  <2>3. Suits(s, h)
    BY <1>4, <2>1, <2>2 DEF Suits, PhaseWork
  <2> QED
    BY <2>3, Moved DEF Halted, Here, h
<1> QED
  BY <1>1, <1>2, <1>3, <1>4

LEMMA RunningWith ==
    ASSUME plan \in Plans, NEW s, Running(s), NEW phase \in Phases, phase.st = "running",
           ~Looping(s) => ~phase.open /\ ~phase.fixed
    PROVE  Running(With(s, phase)) /\ Cur(With(s, phase)) = phase /\ Def(With(s, phase)) = Def(s)
<1>1. Suits(s, phase)
  BY DEF Suits, PhaseWork
<1> QED
  BY <1>1, WithFits DEF Running, Def

LEMMA Rests ==
    ASSUME plan \in Plans, NEW s, Running(s), NEW how \in {"output", "question", "error"}
    PROVE  LET t == After(s, how) IN
           /\ Running(t) /\ Def(t) = Def(s) /\ Cur(t).fixed = Cur(s).fixed
           /\ how = "output" => Reported(t)
<1> DEFINE phase == [Cur(s) EXCEPT !.ended = how, !.saw = Cur(s).notes]
<1>1. Cur(s) \in Phases /\ (~Looping(s) => ~Cur(s).open /\ ~Cur(s).fixed)
  BY CurType DEF Running, Suits
<1>2. /\ phase \in Phases /\ phase.st = "running" /\ phase.open = Cur(s).open /\ phase.fixed = Cur(s).fixed
      /\ phase.ended = how /\ phase.saw = phase.notes
  BY <1>1 DEF Phases, Running
<1> HIDE DEF phase
<1>3. Running(With(s, phase)) /\ Cur(With(s, phase)) = phase /\ Def(With(s, phase)) = Def(s)
  BY <1>1, <1>2, RunningWith
<1> QED
  BY <1>2, <1>3 DEF After, phase, Reported

LEMMA GateFails ==
    ASSUME plan \in Plans, NEW s, Running(s), NEW source \in {"entry", "exit", "kind"},
           source = "exit" => Def(s).fail # "halt"
    PROVE  Well(applyFail(s, source))
<1>1. Cur(s) \in Phases /\ (~Looping(s) => ~Cur(s).open /\ ~Cur(s).fixed)
  BY CurType DEF Running, Suits
<1>2. /\ Well(Failed(s, Cur(s))) /\ Well(Again(s, Cur(s)))
      /\ Well(Halted(s, Cur(s), "entry", FALSE))
  BY <1>1, Verdicts DEF Running, Sources
<1> QED
  BY <1>2 DEF applyFail

LEMMA LegFails ==
    ASSUME plan \in Plans, NEW s, Reported(s)
    PROVE  Well(findingsFail(s))
<1> DEFINE p(next) == [Cur(s) EXCEPT !.retries = 0, !.rereview = FALSE, !.next = next]
           q(next) == [p(next) EXCEPT !.legs = 0]
           r(next) == [p(next) EXCEPT !.next = "review"]
<1>1. Cur(s) \in Phases /\ (~Looping(s) => ~Cur(s).open /\ ~Cur(s).fixed)
  BY CurType DEF Reported, Running, Suits
<1>2. ASSUME NEW next \in {"review", "fix"}
      PROVE  /\ Well(Again(s, q(next))) /\ Well(Failed(s, p(next)))
             /\ Well(Halted(s, r(next), "exit", FALSE))
  <2> DEFINE Same(ph) == /\ ph \in Phases /\ ph.open = Cur(s).open /\ ph.fixed = Cur(s).fixed
                         /\ ph.ended = "output" /\ ph.saw = ph.notes
  <2>0. Same(Cur(s))
    BY <1>1 DEF Reported
  <2>1. Same(p(next))
    BY <1>2, <2>0 DEF Phases
  <2>2. Same(q(next)) /\ Same(r(next))
    <3> HIDE DEF p
    <3> QED
      BY <2>1 DEF Phases
  <2> HIDE DEF p, q, r
  <2> QED
    BY <1>1, <2>1, <2>2, Verdicts DEF Reported, Running, Sources
<1> QED
  BY <1>2 DEF findingsFail

LEMMA Repairs ==
    ASSUME plan \in Plans, NEW s, Reported(s)
    PROVE  Well(Repaired(s))
<1> DEFINE phase == [Cur(s) EXCEPT !.retries = @ + 1]
<1>1. Cur(s) \in Phases /\ (~Looping(s) => ~Cur(s).open /\ ~Cur(s).fixed)
  BY CurType DEF Reported, Running, Suits
<1>2. phase \in Phases /\ phase.st = "running" /\ phase.open = Cur(s).open /\ phase.fixed = Cur(s).fixed
  BY <1>1 DEF Phases, Reported, Running
<1> HIDE DEF phase
<1>3. Running(With(s, phase))
  BY <1>1, <1>2, RunningWith DEF Reported
<1> QED
  BY <1>3, LegFails DEF Repaired, Running, Here, phase

LEMMA Commits ==
    ASSUME plan \in Plans, NEW s, Reported(s), Looping(s)
    PROVE  Well(Committed(s))
<1> DEFINE phase == [Cur(s) EXCEPT !.legs = @ + 1, !.retries = 0, !.next = "review",
                                   !.rereview = TRUE, !.fixed = TRUE]
<1>1. Cur(s) \in Phases
  BY CurType DEF Reported, Running
<1>2. phase \in Phases /\ phase.st = "running"
  <2>1. Cur(s).st = "running" /\ Cur(s).legs + 1 \in Nat
    BY <1>1 DEF Phases, Reported, Running
  <2> QED
    BY <1>1, <2>1 DEF Phases
<1> HIDE DEF phase
<1>3. Running(With(s, phase))
  BY <1>2, RunningWith DEF Reported
<1> QED
  BY <1>3 DEF Committed, Running, Here, phase

LEMMA Bounds ==
    ASSUME plan \in Plans, NEW s, Reported(s), ~Cur(s).fixed, NEW pass \in BOOLEAN
    PROVE  Well(Boundary(s, pass))
<1>1. Cur(s) \in Phases /\ (~Looping(s) => ~Cur(s).open /\ ~Cur(s).fixed)
  BY CurType DEF Reported, Running, Suits
<1>2. Well(Halted(s, Cur(s), "exit", FALSE)) /\ (~Cur(s).open => Well(Halted(s, Cur(s), "exit", TRUE)))
  BY <1>1, Verdicts DEF Reported, Running, Sources
<1>3. Well(findingsFail(s)) /\ (Def(s).fail # "halt" => Well(applyFail(s, "exit")))
  BY LegFails, GateFails DEF Reported
<1>4. ~(Looping(s) /\ Cur(s).open) => ~Cur(s).open
  BY <1>1 DEF Phases
<1> QED
  BY <1>2, <1>3, <1>4 DEF Boundary

-----------------------------------------------------------------------------
(* The steps: TypeOK and WorkInv.                                              *)
LEMMA Begins ==
    ASSUME plan \in Plans, NEW s, Well(s), Active(s)
    PROVE  CopyAt(First(s), Promoted(s)) /\ First(s) \in {"skip", "entry", "kind", "fix"}
<1> DEFINE phase == [Cur(s) EXCEPT !.st = "running"]
<1>1. Here(s)
  <2>1. Len(plan) \in Nat \ {0}
    BY PlanType
  <2> QED
    BY <2>1 DEF Here, Well, Fits, Active
<1>2. Cur(s) \in Phases /\ (~Looping(s) => ~Cur(s).open /\ ~Cur(s).fixed)
  BY <1>1, CurType DEF Suits
<1>3. phase \in Phases /\ phase.st = "running" /\ phase.open = Cur(s).open /\ phase.fixed = Cur(s).fixed
  BY <1>2 DEF Phases
<1>4. Suits(s, phase)
  <2> HIDE DEF phase
  <2> QED
    BY <1>2, <1>3 DEF Suits, PhaseWork
<1>5. Running(Promoted(s)) /\ Looping(Promoted(s)) = Looping(s)
  <2> HIDE DEF phase
  <2>1. LET t == [With(s, phase) EXCEPT !.status = "running"] IN
        Here(t) /\ t.status = "running" /\ t.cursor = s.cursor /\ Cur(t) = phase
    BY <1>1, <1>4, Moved
  <2> QED
    BY <1>3, <2>1 DEF Promoted, Running, Looping, Def, phase
<1>6. First(s) \in {"skip", "entry", "kind", "fix"} /\ (First(s) = "fix" => Looping(s))
  BY DEF First, AfterSkip, Leg
<1> QED
  BY <1>5, <1>6 DEF CopyAt

LEMMA EndsData ==
    ASSUME TypeOK, WorkInv, NEW o \in Ops, chain # <<>>, Ends(o), Well(saved'), UNCHANGED <<aborted, world>>
    PROVE  TypeOK' /\ WorkInv'
<1>1. /\ plan' = plan /\ plan \in Plans /\ Fits(saved)'
      /\ kind' \in [Ops -> Kinds \cup {"none"}] /\ req' \in [Ops -> (Sources \cup {"none"}) \X Nat]
      /\ at' \in [Ops -> Places \cup {"none", "queued", "over"}] /\ DOMAIN run' = Ops
  BY DEF TypeOK, Ends, Forget, NoReq, world, Well, Fits
<1>2. chain' \in Seq(Ops)
  BY HeadTailProperties DEF Ends, TypeOK
<1>3. \A p \in Ops : /\ p # o => at'[p] = at[p] /\ run'[p] = run[p]
                     /\ at'[o] \notin Places /\ run'[o] = NoRun
  BY DEF Ends, Forget, TypeOK, Places, Gates
<1>4. TypeOK'
  <2>1. \A p \in Ops : IF at'[p] \in Places THEN Fits(run[p])' ELSE run'[p] = NoRun
    BY <1>1, <1>3 DEF TypeOK, Fits
  <2> QED
    BY <1>1, <1>2, <2>1 DEF TypeOK, world
<1>5. WorkInv'
  <2>1. RunWork(saved)'
    BY <1>1 DEF Well, RunWork
  <2>2. ASSUME NEW p \in Ops, at'[p] \in Places
        PROVE  CopyAt(at'[p], run'[p])
    <3>1. p # o
      BY <1>3, <2>2
    <3>2. at'[p] = at[p] /\ run'[p] = run[p]
      BY <1>3, <3>1
    <3> QED
      BY <2>2, <3>2 DEF WorkInv
  <2>3. \A p \in Ops : CopyAt(at'[p], run'[p]) => CopyAt(at[p], run[p])'
    BY <1>1 DEF CopyAt, Running, Reported, Here, Well, Fits, RunWork, Cur, Looping, Def
  <2> QED
    BY <2>1, <2>2, <2>3 DEF WorkInv
<1> QED
  BY <1>4, <1>5

LEMMA PlaceData ==
    ASSUME TypeOK, WorkInv, NEW o \in Ops, NEW place \in Places, NEW s, CopyAt(place, s),
           at' = [at EXCEPT ![o] = place], run' = [run EXCEPT ![o] = s], Well(saved'),
           UNCHANGED <<kind, req, chain, aborted, world>>
    PROVE  TypeOK' /\ WorkInv'
<1>1. /\ plan' = plan /\ plan \in Plans /\ Fits(saved)' /\ Fits(s)
      /\ at' \in [Ops -> Places \cup {"none", "queued", "over"}] /\ DOMAIN run' = Ops
  BY DEF TypeOK, world, Well, Fits, CopyAt, Running, Here
<1>2. \A p \in Ops : /\ p # o => at'[p] = at[p] /\ run'[p] = run[p]
                     /\ at'[o] = place /\ run'[o] = s
  BY DEF TypeOK
<1>3. TypeOK'
  <2>1. \A p \in Ops : IF at'[p] \in Places THEN Fits(run[p])' ELSE run'[p] = NoRun
    BY <1>1, <1>2 DEF TypeOK, Fits
  <2> QED
    BY <1>1, <2>1 DEF TypeOK, world
<1>4. WorkInv'
  <2>1. RunWork(saved)'
    BY <1>1 DEF Well, RunWork
  <2>2. ASSUME NEW p \in Ops, at'[p] \in Places
        PROVE  CopyAt(at'[p], run'[p])
    BY <1>2, <2>2 DEF WorkInv
  <2>3. \A p \in Ops : CopyAt(at'[p], run'[p]) => CopyAt(at[p], run[p])'
    BY <1>1 DEF CopyAt, Running, Reported, Here, Well, Fits, RunWork, Cur, Looping, Def
  <2> QED
    BY <2>1, <2>2, <2>3 DEF WorkInv
<1> QED
  BY <1>3, <1>4

LEMMA GoesData ==
    ASSUME TypeOK, WorkInv, NEW o \in Ops, chain # <<>>, NEW s, Well(s), Goes(o, s), UNCHANGED <<aborted, world>>
    PROVE  TypeOK' /\ WorkInv'
<1>1. Well(saved')
  BY DEF Goes
<1>2. CASE Active(s)
  <2>1. CopyAt(First(s), Promoted(s)) /\ First(s) \in Places
    BY <1>2, Begins DEF TypeOK, Places, Gates
  <2> QED
    BY <1>1, <1>2, <2>1, PlaceData DEF Goes
<1>3. CASE ~Active(s)
  BY <1>1, <1>3, EndsData DEF Goes
<1> QED
  BY <1>2, <1>3

LEMMA StaysData ==
    ASSUME TypeOK, WorkInv, NEW o \in Ops, NEW place \in Places, NEW s, CopyAt(place, s), Stays(o, place, s),
           UNCHANGED <<aborted, world>>
    PROVE  TypeOK' /\ WorkInv'
<1>1. Well(saved')
  BY DEF Stays, TypeOK, WorkInv, Well
<1> QED
  BY <1>1, PlaceData DEF Stays

LEMMA AtWork ==
    ASSUME TypeOK, ChainInv, WorkInv, NEW o \in Ops, at[o] \in Places
    PROVE  /\ plan \in Plans /\ chain # <<>> /\ Active(saved)
           /\ CopyAt(at[o], run[o]) /\ Running(run[o]) /\ Here(run[o]) /\ Well(run[o])
           /\ Cur(run[o]) \in Phases
           /\ ~Looping(run[o]) => ~Cur(run[o]).open /\ ~Cur(run[o]).fixed
<1>1. plan \in Plans /\ chain # <<>> /\ Active(saved) /\ CopyAt(at[o], run[o])
  BY DEF TypeOK, ChainInv, WorkInv
<1>2. Running(run[o]) /\ Here(run[o]) /\ Well(run[o])
  BY <1>1 DEF CopyAt, Running, Here
<1> QED
  BY <1>1, <1>2, CurType DEF Suits

LEMMA SavedFacts ==
    ASSUME TypeOK, WorkInv, NEW o \in Ops, ChainInv, at[o] = "queued"
    PROVE  /\ plan \in Plans /\ chain # <<>> /\ Well(saved)
           /\ saved.status # "done" => Here(saved) /\ Cur(saved) \in Phases /\ Suits(saved, Cur(saved))
<1>1. plan \in Plans /\ Well(saved) /\ Len(plan) \in Nat
  BY PlanType DEF TypeOK, WorkInv, Well
<1>2. chain # <<>>
  BY DEF ChainInv
<1>3. saved.status # "done" => Here(saved)
  BY <1>1 DEF Here, Well, Fits
<1> QED
  BY <1>1, <1>2, <1>3, CurType

LEMMA StepsData ==
    ASSUME TypeOK, ChainInv, WorkInv, NEW o \in Ops, at[o] \in Places,
           NEW pass \in BOOLEAN, NEW how \in {"question", "error"}, NEW report \in {"bad", "blockers", "clean"},
           \/ Cancelled(o) \/ SkipProbe(o, pass) \/ EntryGate(o, pass) \/ ExitGate(o, pass)
           \/ FixGate(o, pass) \/ TurnFails(o, how) \/ PhaseEnds(o) \/ ReviewEnds(o, report)
           \/ FixEnds(o, pass)
    PROVE  TypeOK' /\ WorkInv'
<1> DEFINE s == run[o]
<1>0. /\ plan \in Plans /\ chain # <<>> /\ CopyAt(at[o], s) /\ Running(s) /\ Here(s) /\ Well(s)
      /\ Cur(s) \in Phases /\ (~Looping(s) => ~Cur(s).open /\ ~Cur(s).fixed)
  BY AtWork
<1>1. CASE Cancelled(o)
  <2>1. Well(saved')
    BY <1>1 DEF Cancelled, TypeOK, WorkInv, Well
  <2> QED
    BY <1>0, <1>1, <2>1, EndsData DEF Cancelled
<1>2. CASE SkipProbe(o, pass)
  <2>1. Well(Forward(s, [Cur(s) EXCEPT !.st = "skipped"]))
    BY <1>0, Verdicts
  <2>2. AfterSkip(s) \in Places /\ CopyAt(AfterSkip(s), s)
    BY <1>0 DEF AfterSkip, Leg, CopyAt, Places, Gates
  <2> QED
    BY <1>0, <1>2, <2>1, <2>2, GoesData, StaysData DEF SkipProbe
<1>3. CASE EntryGate(o, pass)
  <2>1. Well(applyFail(s, "entry"))
    BY <1>0, GateFails
  <2>2. Leg(s) \in Places /\ CopyAt(Leg(s), s)
    BY <1>0 DEF Leg, CopyAt, Places, Gates
  <2> QED
    BY <1>0, <1>3, <2>1, <2>2, GoesData, StaysData DEF EntryGate
<1>4. CASE ExitGate(o, pass)
  <2>1. Well(Boundary(s, pass))
    BY <1>0, <1>4, Bounds DEF ExitGate, CopyAt
  <2> QED
    BY <1>0, <1>4, <2>1, GoesData DEF ExitGate
<1>5. CASE FixGate(o, pass)
  <2>1. Well(Committed(s)) /\ Well(Repaired(s))
    BY <1>0, <1>5, Commits, Repairs DEF FixGate, CopyAt
  <2> QED
    BY <1>0, <1>5, <2>1, GoesData DEF FixGate
<1>6. CASE TurnFails(o, how)
  <2>1. Running(After(s, how)) /\ Here(After(s, how))
    BY <1>0, Rests DEF Running
  <2>2. /\ Cur(After(s, how)) \in Phases
        /\ ~Looping(After(s, how)) => ~Cur(After(s, how)).open /\ ~Cur(After(s, how)).fixed
    BY <1>0, <2>1, CurType DEF Suits
  <2>3. Well(Halted(After(s, how), Cur(After(s, how)), "input", FALSE))
    BY <1>0, <2>1, <2>2, Verdicts DEF Sources
  <2>4. Well(applyFail(After(s, how), "kind"))
    BY <1>0, <2>1, GateFails
  <2> QED
    BY <1>0, <1>6, <2>3, <2>4, GoesData DEF TurnFails, Asked
<1>7. ASSUME NEW t, Reported(t), ~Cur(t).fixed, ToBoundary(o, t), UNCHANGED <<aborted, world>>
      PROVE  TypeOK' /\ WorkInv'
  <2>1. Well(Boundary(t, TRUE))
    BY <1>0, <1>7, Bounds
  <2>2. CopyAt("exit", t) /\ "exit" \in Places
    BY <1>7 DEF CopyAt, Reported, Places, Gates
  <2> QED
    BY <1>0, <1>7, <2>1, <2>2, GoesData, StaysData DEF ToBoundary
<1>8. /\ Running(After(s, "output")) /\ Def(After(s, "output")) = Def(s) /\ Reported(After(s, "output"))
      /\ Cur(After(s, "output")).fixed = Cur(s).fixed
  BY <1>0, Rests
<1>9. CASE PhaseEnds(o)
  BY <1>0, <1>7, <1>8, <1>9 DEF PhaseEnds
<1>10. CASE ReviewEnds(o, report)
  <2> DEFINE t == After(s, "output")
             b == With(t, [Cur(t) EXCEPT !.rereview = FALSE])
             r == Reviewed(t, report = "blockers")
  <2>1. Reported(t) /\ Looping(t) /\ Cur(t) \in Phases
    BY <1>0, <1>8, <1>10, CurType DEF ReviewEnds, Looping, Running
  <2> HIDE DEF t
  <2>2. Reported(b)
    <3> DEFINE k == [Cur(t) EXCEPT !.rereview = FALSE]
    <3>1. k \in Phases /\ k.st = "running" /\ k.ended = "output" /\ k.saw = k.notes
      BY <2>1 DEF Phases, Reported, Running
    <3> HIDE DEF k
    <3>2. Running(With(t, k)) /\ Cur(With(t, k)) = k
      BY <1>0, <2>1, <3>1, RunningWith DEF Reported
    <3> QED
      BY <3>1, <3>2 DEF Reported, k
  <2>3. Reported(r) /\ ~Cur(r).fixed
    <3> DEFINE next == IF report = "blockers" /\ Cur(t).legs < Def(t).rounds THEN "fix" ELSE "review"
               k == [Cur(t) EXCEPT !.rereview = FALSE, !.retries = 0, !.open = (report = "blockers"),
                                   !.fixed = FALSE, !.next = next]
    <3>1. next \in {"review", "fix"}
      OBVIOUS
    <3>2. r = With(t, k)
      BY DEF Reviewed
    <3> HIDE DEF next
    <3>3. k \in Phases /\ k.st = "running" /\ k.ended = "output" /\ k.saw = k.notes /\ ~k.fixed
      BY <2>1, <3>1 DEF Phases, Reported, Running
    <3> HIDE DEF k, r
    <3>4. Running(With(t, k)) /\ Cur(With(t, k)) = k
      BY <1>0, <2>1, <3>3, RunningWith DEF Reported
    <3> QED
      BY <3>2, <3>3, <3>4 DEF Reported
  <2>4. Well(Repaired(b)) /\ Well(r)
    BY <1>0, <2>2, <2>3, Repairs DEF Reported, Running, Here
  <2>5. \/ Goes(o, Repaired(b)) \/ Goes(o, r) \/ ToBoundary(o, r)
    BY <1>10 DEF ReviewEnds, t
  <2>6. UNCHANGED <<aborted, world>>
    BY <1>10 DEF ReviewEnds
  <2> HIDE DEF b, r
  <2> QED
    BY <1>0, <1>7, <2>3, <2>4, <2>5, <2>6, GoesData
<1>11. CASE FixEnds(o, pass)
  <2> DEFINE t == After(s, "output")
  <2>1. Looping(t)
    BY <1>0, <1>8, <1>11 DEF FixEnds, CopyAt, Looping
  <2>2. Well(Repaired(t)) /\ Well(Committed(t))
    BY <1>0, <1>8, <2>1, Repairs, Commits
  <2>3. CopyAt("fixgate", t) /\ "fixgate" \in Places
    BY <1>8, <2>1 DEF CopyAt, Places, Gates
  <2> QED
    BY <1>0, <1>11, <2>2, <2>3, GoesData, StaysData DEF FixEnds
<1> QED
  BY <1>1, <1>2, <1>3, <1>4, <1>5, <1>6, <1>9, <1>10, <1>11

LEMMA CallsData ==
    ASSUME TypeOK, ChainInv, WorkInv, NEW o \in Ops, at[o] = "queued",
           Advance(o) \/ Approve(o) \/ Reject(o) \/ Revise(o) \/ Abort(o)
    PROVE  TypeOK' /\ WorkInv'
<1>0. /\ plan \in Plans /\ chain # <<>> /\ Well(saved)
      /\ saved.status # "done" => Here(saved) /\ Cur(saved) \in Phases /\ Suits(saved, Cur(saved))
  BY SavedFacts
<1>1. CASE Advance(o)
  BY <1>0, <1>1, GoesData DEF Advance
<1>2. ASSUME Ends(o), UNCHANGED <<saved, aborted, world>>
      PROVE  TypeOK' /\ WorkInv'
  <2>1. Well(saved')
    BY <1>0, <1>2
  <2> QED
    BY <1>0, <1>2, <2>1, EndsData
<1>3. CASE Approve(o)
  <2>1. CASE Waits(saved, req[o]) /\ Cur(saved).req # "input"
    <3> DEFINE k == [Cur(saved) EXCEPT !.st = "passed"]
    <3>1. Here(saved) /\ Cur(saved) \in Phases /\ Suits(saved, Cur(saved)) /\ Cur(saved).st = "halted"
      BY <1>0, <2>1 DEF Waits
    <3>2. /\ k \in Phases /\ k.st = "passed" /\ k.req = Cur(saved).req /\ k.ended = Cur(saved).ended
          /\ k.saw = Cur(saved).saw /\ k.notes = Cur(saved).notes
          /\ k.open = Cur(saved).open /\ k.fixed = Cur(saved).fixed
      BY <3>1 DEF Phases
    <3> HIDE DEF k
    <3>3. Suits(saved, k)
      BY <2>1, <3>1, <3>2 DEF Suits, PhaseWork, Sources
    <3>4. Well(Forward(saved, k))
      BY <1>0, <3>1, <3>3, Moved
    <3>5. Goes(o, Forward(saved, k)) /\ UNCHANGED <<aborted, world>>
      BY <1>3, <2>1 DEF Approve, k
    <3> QED
      BY <1>0, <3>4, <3>5, GoesData
  <2>2. CASE ~(Waits(saved, req[o]) /\ Cur(saved).req # "input")
    BY <1>2, <1>3, <2>2 DEF Approve
  <2> QED
    BY <2>1, <2>2
<1>4. CASE Reject(o)
  <2>1. CASE Waits(saved, req[o])
    <3>1. Here(saved) /\ Cur(saved) \in Phases /\ (~Looping(saved) => ~Cur(saved).open /\ ~Cur(saved).fixed)
      BY <1>0, <2>1 DEF Waits, Suits
    <3>2. Well(Failed(saved, Cur(saved)))
      BY <1>0, <3>1, Verdicts
    <3> QED
      BY <1>0, <1>4, <2>1, <3>2, GoesData DEF Reject
  <2>2. CASE ~Waits(saved, req[o])
    BY <1>2, <1>4, <2>2 DEF Reject
  <2> QED
    BY <2>1, <2>2
<1>5. CASE Revise(o)
  <2>1. CASE Waits(saved, req[o])
    <3> DEFINE k == [Cur(saved) EXCEPT !.st = "running", !.attempts = 0, !.notes = Cur(saved).notes + 1]
    <3>1. Here(saved) /\ Cur(saved) \in Phases /\ Suits(saved, Cur(saved))
      BY <1>0, <2>1 DEF Waits
    <3>2. Cur(saved).notes + 1 \in Nat
      BY <3>1 DEF Phases
    <3>3. k \in Phases /\ k.st = "running" /\ k.open = Cur(saved).open /\ k.fixed = Cur(saved).fixed
      BY <3>1, <3>2 DEF Phases
    <3> HIDE DEF k
    <3>4. Suits(saved, k)
      BY <3>1, <3>3 DEF Suits, PhaseWork
    <3>5. Well(Noted(saved))
      BY <1>0, <3>1, <3>4, Moved DEF Noted, Here, k
    <3> QED
      BY <1>0, <1>5, <2>1, <3>5, GoesData DEF Revise
  <2>2. CASE ~Waits(saved, req[o])
    BY <1>2, <1>5, <2>2 DEF Revise
  <2> QED
    BY <2>1, <2>2
<1>6. CASE Abort(o)
  <2>1. CASE saved.status \in Terminal
    BY <1>2, <1>6, <2>1 DEF Abort
  <2>2. CASE saved.status \notin Terminal
    <3> DEFINE k == [Cur(saved) EXCEPT !.st = "failed"]
    <3>1. Here(saved) /\ Cur(saved) \in Phases /\ Suits(saved, Cur(saved))
      BY <1>0, <2>2 DEF Terminal
    <3>2. k \in Phases /\ k.st = "failed" /\ k.open = Cur(saved).open /\ k.fixed = Cur(saved).fixed
      BY <3>1 DEF Phases
    <3> HIDE DEF k
    <3>3. Suits(saved, k)
      BY <3>1, <3>2 DEF Suits, PhaseWork
    <3>4. Well([With(saved, k) EXCEPT !.status = "abandoned"])
      BY <1>0, <3>1, <3>3, Moved DEF Terminal, Here
    <3>5. Well(saved')
      BY <1>6, <2>2, <3>4 DEF Abort, k
    <3> QED
      BY <1>0, <1>6, <3>5, EndsData DEF Abort
  <2> QED
    BY <2>1, <2>2
<1> QED
  BY <1>1, <1>3, <1>4, <1>5, <1>6

LEMMA SamePlaces ==
    ASSUME TypeOK, WorkInv, UNCHANGED <<plan, saved>>,
           at' \in [Ops -> Places \cup {"none", "queued", "over"}], DOMAIN run' = Ops,
           \A p \in Ops : \/ at'[p] = at[p] /\ run'[p] = run[p]
                          \/ at'[p] \notin Places /\ run'[p] = NoRun
    PROVE  /\ WorkInv'
           /\ \A p \in Ops : IF at'[p] \in Places THEN Fits(run[p])' ELSE run'[p] = NoRun
<1>1. RunWork(saved)'
  BY DEF WorkInv, RunWork
<1>2. ASSUME NEW p \in Ops, at'[p] \in Places
      PROVE  CopyAt(at'[p], run'[p])
  BY <1>2 DEF WorkInv
<1>3. \A p \in Ops : CopyAt(at'[p], run'[p]) => CopyAt(at[p], run[p])'
  BY DEF CopyAt, Running, Reported, Here, Well, Fits, RunWork, Cur, Looping, Def
<1>4. \A p \in Ops : IF at'[p] \in Places THEN Fits(run[p])' ELSE run'[p] = NoRun
  BY DEF TypeOK, Fits
<1> QED
  BY <1>1, <1>2, <1>3, <1>4 DEF WorkInv

LEMMA WorldData ==
    ASSUME TypeOK, ChainInv, WorkInv,
           \/ \E o \in Calls : \E k \in Kinds : Call(o, k)
           \/ Shutdown \/ Crash \/ Start
    PROVE  TypeOK' /\ WorkInv'
<1>0. Boot \in Ops /\ Calls \subseteq Ops /\ "queued" \notin Places /\ "none" \notin Places /\ "over" \notin Places
  BY DEF Ops, Places, Gates
<1>1. ASSUME NEW o \in Calls, NEW k \in Kinds, Call(o, k)
      PROVE  TypeOK' /\ WorkInv'
  <2>1. /\ at' \in [Ops -> Places \cup {"none", "queued", "over"}] /\ DOMAIN run' = Ops
        /\ kind' \in [Ops -> Kinds \cup {"none"}]
    BY <1>0, <1>1 DEF Call, TypeOK
  <2>2. \A p \in Ops : \/ at'[p] = at[p] /\ run'[p] = run[p]
                       \/ at'[p] \notin Places /\ run'[p] = NoRun
    BY <1>0, <1>1 DEF Call, TypeOK
  <2>3. k \notin {"advance", "abort"} => Request(saved) \in (Sources \cup {"none"}) \X Nat
    <3>1. k \notin {"advance", "abort"} => saved.status = "halted"
      BY <1>1 DEF Call, Kinds
    <3>2. plan \in Plans /\ Len(plan) \in Nat /\ Fits(saved) /\ RunWork(saved)
      BY PlanType DEF TypeOK, WorkInv
    <3>3. saved.status = "halted" => Here(saved)
      BY <3>2 DEF Here, Well, Fits
    <3>4. saved.status = "halted" => Cur(saved) \in Phases /\ saved.cursor \in Nat
      BY <3>2, <3>3, CurType DEF Fits, Runs
    <3> QED
      BY <3>1, <3>4 DEF Request, Phases
  <2>4. req' \in [Ops -> (Sources \cup {"none"}) \X Nat]
    <3>1. NoReq \in (Sources \cup {"none"}) \X Nat
      BY DEF NoReq
    <3> QED
      BY <1>0, <1>1, <2>3, <3>1 DEF Call, TypeOK
  <2>5. chain' \in Seq(Ops)
    BY <1>0, <1>1, AppendProperties DEF Call, TypeOK
  <2>6. UNCHANGED <<plan, saved>>
    BY <1>1 DEF Call, world
  <2>7. aborted' \in BOOLEAN /\ stopping' \in BOOLEAN /\ up' \in BOOLEAN /\ crashes' \in 0 .. MaxCrashes
    BY <1>1 DEF Call, TypeOK, world
  <2>8. plan \in Plans /\ Fits(saved)'
    BY <2>6 DEF TypeOK, Fits
  <2> QED
    BY <2>1, <2>2, <2>4, <2>5, <2>6, <2>7, <2>8, SamePlaces DEF TypeOK
<1>2. CASE Shutdown
  <2>1. /\ UNCHANGED <<plan, saved, at, run>> /\ plan \in Plans /\ Fits(saved)'
        /\ at' \in [Ops -> Places \cup {"none", "queued", "over"}] /\ DOMAIN run' = Ops
    BY <1>2 DEF Shutdown, TypeOK, Fits
  <2> QED
    BY <1>2, <2>1, SamePlaces DEF Shutdown, TypeOK
<1>3. CASE Crash
  <2>1. /\ UNCHANGED <<plan, saved>> /\ plan \in Plans /\ Fits(saved)'
        /\ at' \in [Ops -> Places \cup {"none", "queued", "over"}] /\ DOMAIN run' = Ops
        /\ \A p \in Ops : at'[p] \notin Places /\ run'[p] = NoRun
    BY <1>0, <1>3 DEF Crash, TypeOK, Fits
  <2>2. crashes' \in 0 .. MaxCrashes
    BY <1>3, ConstantsAssumption DEF Crash, TypeOK
  <2>3. kind' \in [Ops -> Kinds \cup {"none"}] /\ req' \in [Ops -> (Sources \cup {"none"}) \X Nat] /\ chain' \in Seq(Ops)
    BY <1>3 DEF Crash, NoReq
  <2> QED
    BY <1>3, <2>1, <2>2, <2>3, SamePlaces DEF Crash, TypeOK
<1>4. CASE Start
  <2>1. /\ UNCHANGED <<plan, saved>> /\ plan \in Plans /\ Fits(saved)'
        /\ at' \in [Ops -> Places \cup {"none", "queued", "over"}] /\ DOMAIN run' = Ops
        /\ kind' \in [Ops -> Kinds \cup {"none"}]
    BY <1>0, <1>4 DEF Start, TypeOK, Fits, Kinds
  <2>2. chain' \in Seq(Ops)
    <3>1. chain \in Seq(Ops) /\ (chain' = chain \/ chain' = Append(chain, Boot))
      BY <1>4 DEF Start, TypeOK
    <3> QED
      BY <1>0, <3>1, AppendProperties
  <2>3. \A p \in Ops : at[p] \notin Places /\ run[p] = NoRun
    BY <1>4 DEF Start, ChainInv, TypeOK
  <2>4. \A p \in Ops : at'[p] \notin Places /\ run'[p] = NoRun
    BY <1>0, <1>4, <2>3 DEF Start, TypeOK
  <2> QED
    BY <1>4, <2>1, <2>2, <2>4, SamePlaces DEF Start, TypeOK
<1> QED
  BY <1>1, <1>2, <1>3, <1>4

-----------------------------------------------------------------------------
(* The chain.                                                                  *)
LEMMA ChainHead ==
    ASSUME TypeOK, ChainInv, NEW o \in Ops, at[o] \in Places \/ MayStart(o)
    PROVE  /\ chain \in Seq(Ops) /\ chain # <<>> /\ Head(chain) = o /\ chain[1] = o
           /\ Tail(chain) \in Seq(Ops) /\ Len(Tail(chain)) = Len(chain) - 1 /\ Len(chain) \in Nat
           /\ \A i \in 1 .. Len(Tail(chain)) : Tail(chain)[i] = chain[i + 1]
           /\ up /\ "queued" \notin Places /\ "over" \notin Places
<1>1. chain \in Seq(Ops) /\ chain # <<>> /\ Head(chain) = o /\ up
  <2>1. CASE at[o] \in Places
    BY <2>1 DEF TypeOK, ChainInv
  <2>2. CASE MayStart(o)
    <3>1. \E i \in 1 .. Len(chain) : chain[i] = o
      BY <2>2 DEF ChainInv, MayStart
    <3>2. chain # <<>>
      BY <3>1
    <3> QED
      BY <2>2, <3>2 DEF ChainInv, MayStart, TypeOK
  <2> QED
    BY <2>1, <2>2
<1>2. chain[1] = Head(chain) /\ Len(chain) \in Nat
  BY <1>1
<1> QED
  BY <1>1, <1>2, HeadTailProperties DEF Places, Gates

(* A call that ends: nothing is left running that nobody drives, if the run is *)
(* no longer running or an abort waits.                                        *)
LEMMA EndsChain ==
    ASSUME TypeOK, ChainInv, NEW o \in Ops, at[o] \in Places \/ MayStart(o), Ends(o),
           UNCHANGED <<aborted, world>>,
           saved' = saved \/ saved'.status \in Terminal \cup {"halted"},
           saved.status \in Terminal => saved' = saved,
           aborted => \/ at[o] \in Places \/ kind[o] # "abort"
                      \/ saved'.status \in Terminal,
           up /\ ~stopping /\ ~aborted => saved'.status # "running"
    PROVE  ChainInv'
<1>0. /\ chain \in Seq(Ops) /\ chain # <<>> /\ Head(chain) = o /\ chain[1] = o
      /\ Tail(chain) \in Seq(Ops) /\ Len(Tail(chain)) = Len(chain) - 1 /\ Len(chain) \in Nat
      /\ \A i \in 1 .. Len(Tail(chain)) : Tail(chain)[i] = chain[i + 1]
      /\ up /\ "queued" \notin Places /\ "over" \notin Places
  BY ChainHead
<1>1. /\ chain' = Tail(chain) /\ at'[o] = "over"
      /\ \A p \in Ops : p # o => at'[p] = at[p] /\ kind'[p] = kind[p]
  BY DEF Ends, Forget, TypeOK
<1>2. \A p \in Ops : at'[p] \notin Places
  BY <1>0, <1>1 DEF ChainInv
<1>3. \A i \in 1 .. Len(chain) : chain[i] # o => i - 1 \in 1 .. Len(chain') /\ chain'[i - 1] = chain[i]
  BY <1>0, <1>1
<1>4. ASSUME NEW p \in Ops, at'[p] = "queued"
      PROVE  \E i \in 1 .. Len(chain') : chain'[i] = p
  <2>1. p # o /\ at[p] = "queued"
    BY <1>1, <1>4
  <2>2. PICK i \in 1 .. Len(chain) : chain[i] = p
    BY <2>1 DEF ChainInv
  <2> QED
    BY <1>3, <2>1, <2>2
<1>5. aborted' => \/ saved'.status \in Terminal
                  \/ \E i \in 1 .. Len(chain') : at'[chain'[i]] = "queued" /\ kind'[chain'[i]] = "abort"
  <2> SUFFICES ASSUME aborted, saved'.status \notin Terminal
               PROVE  \E i \in 1 .. Len(chain') : at'[chain'[i]] = "queued" /\ kind'[chain'[i]] = "abort"
    OBVIOUS
  <2>1. saved.status \notin Terminal
    OBVIOUS
  <2>2. PICK i \in 1 .. Len(chain) : at[chain[i]] = "queued" /\ kind[chain[i]] = "abort"
    BY <2>1 DEF ChainInv
  <2>3. chain[i] # o /\ chain[i] \in Ops
    BY <1>0, <2>2
  <2> QED
    BY <1>1, <1>3, <2>2, <2>3, ZenonT(60)
<1> QED
  BY <1>0, <1>2, <1>4, <1>5 DEF ChainInv, world

(* A call that goes on with the run, or starts to.                             *)
LEMMA PlaceChain ==
    ASSUME TypeOK, ChainInv, NEW o \in Ops, at[o] \in Places \/ (MayStart(o) /\ kind[o] # "abort"),
           NEW place \in Places, at' = [at EXCEPT ![o] = place], UNCHANGED <<kind, chain, aborted, world>>,
           Active(saved'), Active(saved) \/ saved.status = "halted"
    PROVE  ChainInv'
<1>0. /\ chain \in Seq(Ops) /\ chain # <<>> /\ Head(chain) = o /\ up /\ "queued" \notin Places
  BY ChainHead
<1>1. at'[o] = place /\ \A p \in Ops : p # o => at'[p] = at[p]
  BY DEF TypeOK
<1>2. \A p \in Ops : at'[p] \in Places => p = o
  BY <1>0, <1>1 DEF ChainInv
<1>3. \A p \in Ops : at'[p] = "queued" => at[p] = "queued"
  BY <1>0, <1>1
<1>4. aborted' => \E i \in 1 .. Len(chain) : at'[chain[i]] = "queued" /\ kind[chain[i]] = "abort"
  <2>1. saved.status \notin Terminal
    BY DEF Active, Terminal
  <2>2. ASSUME aborted, NEW i \in 1 .. Len(chain), at[chain[i]] = "queued", kind[chain[i]] = "abort"
        PROVE  at'[chain[i]] = "queued"
    BY <1>0, <1>1, <2>2 DEF MayStart
  <2> QED
    BY <2>1, <2>2 DEF ChainInv
<1> QED
  BY <1>0, <1>1, <1>2, <1>3, <1>4 DEF ChainInv, world

LEMMA GoesChain ==
    ASSUME TypeOK, ChainInv, NEW o \in Ops, at[o] \in Places \/ (MayStart(o) /\ kind[o] # "abort"),
           NEW s, Well(s), Goes(o, s), UNCHANGED <<aborted, world>>,
           Active(saved) \/ saved.status = "halted" \/ s = saved
    PROVE  ChainInv' /\ (saved.status \in Terminal => saved' = saved)
<1>1. CASE Active(s)
  <2>1. First(s) \in Places
    BY <1>1, Begins DEF TypeOK, Places, Gates
  <2> QED
    BY <1>1, <2>1, PlaceChain DEF Goes, Active, Terminal
<1>2. CASE ~Active(s)
  <2>1. s.status \in Terminal \cup {"halted"}
    BY <1>2 DEF Well, Fits, Runs, Active
  <2> QED
    BY <1>2, <2>1, EndsChain DEF Goes, Active, Terminal
<1> QED
  BY <1>1, <1>2

LEMMA StepsChain ==
    ASSUME TypeOK, ChainInv, WorkInv, NEW o \in Ops, at[o] \in Places,
           \/ Cancelled(o)
           \/ UNCHANGED <<aborted, world>> /\ \E s : Well(s) /\ Goes(o, s)
           \/ UNCHANGED <<aborted, world>> /\ \E place \in Places : \E s : Stays(o, place, s)
    PROVE  ChainInv' /\ (saved.status \in Terminal => saved' = saved)
<1>0. Active(saved) /\ saved.status \notin Terminal
  BY DEF ChainInv, Active, Terminal
<1>1. CASE Cancelled(o)
  BY <1>0, <1>1, EndsChain DEF Cancelled
<1>2. CASE UNCHANGED <<aborted, world>> /\ \E s : Well(s) /\ Goes(o, s)
  BY <1>0, <1>2, GoesChain
<1>3. CASE UNCHANGED <<aborted, world>> /\ \E place \in Places : \E s : Stays(o, place, s)
  BY <1>0, <1>3, PlaceChain DEF Stays
<1> QED
  BY <1>1, <1>2, <1>3

LEMMA CallsChain ==
    ASSUME TypeOK, ChainInv, WorkInv, NEW o \in Ops,
           Advance(o) \/ Approve(o) \/ Reject(o) \/ Revise(o) \/ Abort(o)
    PROVE  ChainInv' /\ (saved.status \in Terminal => saved' = saved)
<1>0. MayStart(o) /\ at[o] = "queued" /\ "queued" \notin Places /\ Well(saved) /\ chain # <<>> /\ Head(chain) = o
  BY ChainHead DEF Advance, Approve, Reject, Revise, Abort, MayStart, Places, Gates, Well, TypeOK, WorkInv
<1>1. CASE Advance(o)
  BY <1>0, <1>1, GoesChain DEF Advance
<1>2. ASSUME Ends(o), UNCHANGED <<saved, aborted, world>>, kind[o] \in {"approve", "reject", "revise"}
      PROVE  ChainInv' /\ (saved.status \in Terminal => saved' = saved)
  <2>1. up /\ ~stopping /\ ~aborted => saved.status # "running"
    BY <1>0, <1>2 DEF ChainInv
  <2> QED
    BY <1>0, <1>2, <2>1, EndsChain
<1>3. ASSUME NEW s, saved.status = "halted", Goes(o, s), Well(s), UNCHANGED <<aborted, world>>,
             kind[o] \in {"approve", "reject", "revise"}
      PROVE  ChainInv' /\ (saved.status \in Terminal => saved' = saved)
  BY <1>0, <1>3, GoesChain
<1>4. Well(saved')
  BY <1>0, CallsData DEF Well, TypeOK, WorkInv, Fits, RunWork, world,
     Advance, Approve, Reject, Revise, Abort
<1>5. CASE Approve(o) \/ Reject(o) \/ Revise(o)
  <2>1. \/ saved.status = "halted" /\ Goes(o, saved')
        \/ Ends(o) /\ UNCHANGED saved
    BY <1>5 DEF Approve, Reject, Revise, Waits, Goes
  <2>2. kind[o] \in {"approve", "reject", "revise"} /\ UNCHANGED <<aborted, world>>
    BY <1>5 DEF Approve, Reject, Revise
  <2>3. CASE Ends(o) /\ UNCHANGED saved
    BY <1>2, <2>2, <2>3
  <2>4. CASE saved.status = "halted" /\ Goes(o, saved')
    <3>1. PICK s : s = saved'
      OBVIOUS
    <3> QED
      BY <1>3, <1>4, <2>2, <2>4, <3>1
  <2> QED
    BY <2>1, <2>3, <2>4
<1>6. CASE Abort(o)
  <2>1. saved'.status \in Terminal /\ (saved.status \in Terminal => saved' = saved)
    <3>1. saved.status \notin Terminal => Here(saved)
      <4>1. Len(plan) \in Nat
        BY PlanType DEF TypeOK
      <4> QED
        BY <1>0, <4>1 DEF Here, Well, Fits, Terminal
    <3> DEFINE k == [Cur(saved) EXCEPT !.st = "failed"]
    <3>2. saved.status \notin Terminal => Cur(saved) \in Phases /\ Suits(saved, Cur(saved))
      BY <3>1, CurType DEF TypeOK
    <3>3. saved.status \notin Terminal => Suits(saved, k)
      <4>1. Cur(saved) \in Phases =>
              k \in Phases /\ k.st = "failed" /\ k.open = Cur(saved).open /\ k.fixed = Cur(saved).fixed
        BY DEF Phases
      <4> HIDE DEF k
      <4> QED
        BY <3>2, <4>1 DEF Suits, PhaseWork
    <3> HIDE DEF k
    <3>4. saved.status \notin Terminal => [With(saved, k) EXCEPT !.status = "abandoned"].status = "abandoned"
      BY <3>1, <3>3, Moved DEF Terminal, TypeOK
    <3> QED
      BY <1>6, <3>4 DEF Abort, Terminal, k
  <2> QED
    BY <1>0, <1>6, <2>1, EndsChain DEF Abort, Terminal
<1> QED
  BY <1>1, <1>5, <1>6

LEMMA WorldChain ==
    ASSUME TypeOK, ChainInv,
           \/ \E o \in Calls : \E k \in Kinds : Call(o, k)
           \/ Shutdown \/ Crash \/ Start
    PROVE  ChainInv' /\ saved' = saved
<1>0. /\ Boot \in Ops /\ Calls \subseteq Ops /\ Boot \notin Calls
      /\ "queued" \notin Places /\ "none" \notin Places /\ "over" \notin Places /\ chain \in Seq(Ops)
  BY DEF Ops, Places, Gates, Boot, Calls, TypeOK
<1>1. ASSUME NEW o \in Calls, NEW k \in Kinds, Call(o, k)
      PROVE  ChainInv' /\ saved' = saved
  <2>1. /\ at'[o] = "queued" /\ kind'[o] = k /\ at[o] = "none" /\ o \in Ops
        /\ \A p \in Ops : p # o => at'[p] = at[p] /\ kind'[p] = kind[p]
    BY <1>0, <1>1 DEF Call, TypeOK
  <2>2. /\ chain' = Append(chain, o) /\ saved' = saved /\ up /\ up' = up /\ stopping' = stopping
        /\ aborted' = (aborted \/ k = "abort")
    BY <1>1 DEF Call, world
  <2>3. /\ chain' # <<>> /\ Len(chain') = Len(chain) + 1 /\ chain'[Len(chain) + 1] = o /\ Len(chain) \in Nat
        /\ \A i \in 1 .. Len(chain) : chain'[i] = chain[i] /\ chain[i] \in Ops
        /\ chain # <<>> => Head(chain') = Head(chain) /\ Head(chain) \in Ops
    BY <1>0, <2>1, <2>2, AppendProperties, HeadTailAppend, HeadTailProperties
  <2>4. \A p \in Ops : at'[p] \in Places => chain' # <<>> /\ Head(chain') = p /\ Active(saved')
    BY <1>0, <2>1, <2>2, <2>3 DEF ChainInv
  <2>5. ASSUME NEW p \in Ops, at'[p] = "queued"
        PROVE  \E i \in 1 .. Len(chain') : chain'[i] = p
    <3>1. CASE p = o
      BY <2>3, <3>1
    <3>2. CASE p # o
      <4>1. PICK i \in 1 .. Len(chain) : chain[i] = p
        BY <2>1, <2>5, <3>2 DEF ChainInv
      <4> QED
        BY <2>3, <4>1
    <3> QED
      BY <3>1, <3>2
  <2>6. aborted' => \/ saved'.status \in Terminal
                    \/ \E i \in 1 .. Len(chain') : at'[chain'[i]] = "queued" /\ kind'[chain'[i]] = "abort"
    <3>1. CASE k = "abort"
      BY <2>1, <2>3, <3>1
    <3>2. ASSUME aborted, saved.status \notin Terminal
          PROVE  \E i \in 1 .. Len(chain') : at'[chain'[i]] = "queued" /\ kind'[chain'[i]] = "abort"
      <4>1. PICK i \in 1 .. Len(chain) : at[chain[i]] = "queued" /\ kind[chain[i]] = "abort"
        BY <3>2 DEF ChainInv
      <4> QED
        BY <2>1, <2>3, <4>1
    <3> QED
      BY <2>2, <3>1, <3>2
  <2>7. up' /\ ~stopping' /\ ~aborted' /\ saved'.status = "running" =>
          /\ chain' # <<>>
          /\ at'[Head(chain')] \notin Places => Head(chain') = Boot /\ kind'[Boot] = "advance"
    <3> SUFFICES ASSUME up, ~stopping, ~aborted, saved.status = "running"
                 PROVE  at'[Head(chain')] \notin Places => Head(chain') = Boot /\ kind'[Boot] = "advance"
      BY <2>2, <2>3
    <3>1. /\ chain # <<>> /\ Head(chain') = Head(chain) /\ Head(chain) \in Ops
          /\ at[Head(chain)] \notin Places => Head(chain) = Boot /\ kind[Boot] = "advance"
      BY <2>3 DEF ChainInv
    <3>2. CASE at[Head(chain)] \in Places
      <4>1. Head(chain) # o
        BY <1>0, <2>1, <3>2
      <4> QED
        BY <2>1, <3>1, <3>2, <4>1
    <3>3. CASE at[Head(chain)] \notin Places
      BY <1>0, <2>1, <3>1, <3>3
    <3> QED
      BY <3>2, <3>3
  <2> QED
    BY <2>2, <2>4, <2>5, <2>6, <2>7 DEF ChainInv
<1>2. CASE Shutdown
  BY <1>2 DEF Shutdown, ChainInv, Active
<1>3. CASE Crash
  BY <1>0, <1>3 DEF Crash, ChainInv
<1>4. CASE Start
  <2>1. chain = <<>> /\ ~aborted /\ aborted' = aborted /\ saved' = saved /\ up'
    BY <1>4 DEF Start, ChainInv
  <2>2. \A p \in Ops : at[p] \notin Places /\ at[p] # "queued"
    <3>1. Len(chain) = 0
      BY <2>1
    <3> QED
      BY <2>1, <3>1 DEF ChainInv
  <2>3. CASE Active(saved)
    <3>1. /\ chain' = <<Boot>> /\ at'[Boot] = "queued" /\ kind'[Boot] = "advance"
          /\ \A p \in Ops : p # Boot => at'[p] = at[p]
      BY <1>0, <1>4, <2>1, <2>3 DEF Start, Redriven, TypeOK
    <3>2. Len(chain') = 1 /\ chain'[1] = Boot /\ Head(chain') = Boot /\ chain' # <<>>
      BY <3>1
    <3> QED
      BY <1>0, <2>1, <2>2, <3>1, <3>2 DEF ChainInv
  <2>4. CASE ~Active(saved)
    BY <1>4, <2>1, <2>2, <2>4 DEF Start, Redriven, ChainInv, Active
  <2> QED
    BY <2>3, <2>4
<1> QED
  BY <1>1, <1>2, <1>3, <1>4

-----------------------------------------------------------------------------
(* The theorems.                                                               *)
IInv == TypeOK /\ ChainInv /\ WorkInv

LEMMA InitHolds == Init => IInv
<1> SUFFICES ASSUME Init PROVE IInv
  OBVIOUS
<1>1. plan \in Plans /\ Len(plan) \in Nat \ {0}
  BY PlanType DEF Init
<1>2. Pending \in Phases /\ PhaseWork(Pending) /\ ~Pending.open /\ ~Pending.fixed
  BY DEF Pending, Phases, PhaseWork, Sources
<1> DEFINE ph == [i \in 1 .. Len(plan) |-> Pending]
<1>3. ph \in Seq(Phases) /\ Len(ph) = Len(plan) /\ \A i \in 1 .. Len(plan) : ph[i] = Pending
  BY <1>1, <1>2
<1>4. saved = [status |-> "draft", cursor |-> 1, ph |-> ph]
  BY DEF Init
<1> HIDE DEF ph
<1>5. Fits(saved) /\ RunWork(saved)
  BY <1>1, <1>2, <1>3, <1>4 DEF Fits, Runs, RunWork
<1>6. "none" \notin Places /\ "none" # "queued"
  BY DEF Places, Gates
<1>7. NoReq \in (Sources \cup {"none"}) \X Nat
  BY DEF NoReq
<1>8. TypeOK
  <2>1. crashes \in 0 .. MaxCrashes
    BY ConstantsAssumption DEF Init
  <2>2. kind \in [Ops -> Kinds \cup {"none"}] /\ req \in [Ops -> (Sources \cup {"none"}) \X Nat]
    BY <1>7 DEF Init
  <2>3. at \in [Ops -> Places \cup {"none", "queued", "over"}] /\ chain \in Seq(Ops)
    BY DEF Init
  <2>4. DOMAIN run = Ops /\ \A o \in Ops : at[o] \notin Places /\ run[o] = NoRun
    BY <1>6 DEF Init
  <2> QED
    BY <1>1, <1>5, <2>1, <2>2, <2>3, <2>4 DEF Init, TypeOK
<1>9. ChainInv /\ WorkInv
  BY <1>5, <1>6 DEF Init, ChainInv, WorkInv
<1> QED
  BY <1>8, <1>9 DEF IInv

LEMMA CallsEnter ==
    ASSUME TypeOK, ChainInv, WorkInv, NEW o \in Ops, Works(o), at[o] \in Places
    PROVE  /\ TypeOK' /\ WorkInv'
           /\ ChainInv' /\ (saved.status \in Terminal => saved' = saved)
<1>1. at[o] # "queued"
  BY DEF Places, Gates
<1>2. PICK pass \in BOOLEAN, how \in {"question", "error"}, report \in {"bad", "blockers", "clean"} :
         \/ Cancelled(o) \/ SkipProbe(o, pass) \/ EntryGate(o, pass) \/ ExitGate(o, pass)
         \/ FixGate(o, pass) \/ TurnFails(o, how) \/ PhaseEnds(o) \/ ReviewEnds(o, report)
         \/ FixEnds(o, pass)
  BY <1>1 DEF Works, Advance, Approve, Reject, Revise, Abort, MayStart
<1>3. TypeOK' /\ WorkInv'
  BY <1>2, StepsData
<1>4. Well(saved')
  <2>1. plan' = plan
    BY <1>2 DEF Cancelled, SkipProbe, EntryGate, ExitGate, FixGate, TurnFails, PhaseEnds, ReviewEnds, FixEnds, world
  <2> QED
    BY <1>3, <2>1 DEF Well, TypeOK, WorkInv, Fits, RunWork
<1>5. \/ Cancelled(o)
      \/ UNCHANGED <<aborted, world>> /\ Goes(o, saved')
      \/ UNCHANGED <<aborted, world>> /\ \E place \in Places : \E s : Stays(o, place, s)
  <2>1. \A t : ToBoundary(o, t) => Goes(o, saved') \/ \E place \in Places : \E s : Stays(o, place, s)
    BY DEF ToBoundary, Goes, Places, Gates
  <2>2. \A s : Goes(o, s) => Goes(o, saved')
    BY DEF Goes
  <2>3. \A s : Leg(s) \in Places /\ AfterSkip(s) \in Places
    BY DEF Leg, AfterSkip, Places, Gates
  <2>4. "fixgate" \in Places
    BY DEF Places, Gates
  <2> QED
    BY <1>2, <2>1, <2>2, <2>3, <2>4
       DEF SkipProbe, EntryGate, ExitGate, FixGate, TurnFails, PhaseEnds, ReviewEnds, FixEnds
<1>6. ChainInv' /\ (saved.status \in Terminal => saved' = saved)
  <2>1. PICK s : s = saved'
    OBVIOUS
  <2>2. \/ Cancelled(o)
        \/ UNCHANGED <<aborted, world>> /\ \E t : Well(t) /\ Goes(o, t)
        \/ UNCHANGED <<aborted, world>> /\ \E place \in Places : \E t : Stays(o, place, t)
    BY <1>4, <1>5, <2>1
  <2> QED
    BY <2>2, StepsChain
<1> QED
  BY <1>3, <1>6

LEMMA StepHolds ==
    ASSUME IInv, [Next]_vars
    PROVE  IInv' /\ (saved.status \in Terminal => saved' = saved)
<1>0. TypeOK /\ ChainInv /\ WorkInv
  BY DEF IInv
<1>1. ASSUME NEW o \in Ops, Works(o)
      PROVE  IInv' /\ (saved.status \in Terminal => saved' = saved)
  <2>1. CASE at[o] \in Places
    BY <1>0, <1>1, <2>1, CallsEnter DEF IInv
  <2>2. CASE at[o] \notin Places
    <3>1. at[o] = "queued" /\ (Advance(o) \/ Approve(o) \/ Reject(o) \/ Revise(o) \/ Abort(o))
      BY <1>1, <2>2 DEF Works, Cancelled, SkipProbe, EntryGate, ExitGate, FixGate, TurnFails, PhaseEnds,
         ReviewEnds, FixEnds, Advance, Approve, Reject, Revise, Abort, MayStart, Places, Gates
    <3> QED
      BY <1>0, <3>1, CallsData, CallsChain DEF IInv
  <2> QED
    BY <2>1, <2>2
<1>2. CASE (\E o \in Calls : \E k \in Kinds : Call(o, k)) \/ Shutdown \/ Crash \/ Start
  BY <1>0, <1>2, WorldData, WorldChain DEF IInv
<1>3. CASE UNCHANGED vars
  <2>1. TypeOK'
    BY <1>0, <1>3 DEF TypeOK, Fits, vars
  <2>2. ChainInv'
    BY <1>0, <1>3 DEF ChainInv, Active, vars
  <2>3. WorkInv'
    BY <1>0, <1>3 DEF WorkInv, RunWork, CopyAt, Running, Reported, Here, Well, Fits, Cur, Looping, Def, vars
  <2> QED
    BY <1>3, <2>1, <2>2, <2>3 DEF IInv, vars
<1> QED
  BY <1>1, <1>2, <1>3 DEF Next

(* The three parts together are an invariant of every behaviour.               *)
THEOREM Holds == Spec => []IInv
<1> QED
  BY InitHolds, StepHolds, PTL DEF Spec

(* Every run fits its plan: the cursor stays on a phase until the run is done, *)
(* in the row and in every copy a call works on (engine.ts:91 is never taken). *)
THEOREM TypeCorrect == Spec => []TypeOK
<1>1. IInv => TypeOK
  BY DEF IInv
<1> QED
  BY <1>1, Holds, PTL

(* A run that is over stays so: no step, late call, abort or restart rewrites  *)
(* the row of a pipeline that is done, failed or abandoned.                    *)
THEOREM Finality == Spec => OverStaysOver
<1>1. IInv /\ [Next]_vars => [saved.status \in Terminal => saved' = saved]_vars
  BY StepHolds
<1> QED
  BY <1>1, Holds, PTL DEF Spec, OverStaysOver

(* A run saved as running is driven: whatever call ended last, and through any *)
(* cancelled gate, abort or restart, a call is in the chain to move it.        *)
THEOREM Driven == Spec => []RunningIsDriven
<1>1. IInv => RunningIsDriven
  <2> SUFFICES ASSUME IInv, up, ~stopping, saved.status = "running", chain = <<>>
               PROVE  FALSE
    BY DEF RunningIsDriven
  <2>1. Len(chain) = 0 /\ saved.status \notin Terminal
    BY DEF Terminal
  <2> QED
    BY <2>1 DEF IInv, ChainInv
<1> QED
  BY <1>1, Holds, PTL

(* What a person approves is the work of a leg that brought a report and had   *)
(* all their notes, and "review and approve" hides no open blocker and no fix  *)
(* nobody reviewed, for any plan, policy and budget.                           *)
THEOREM Boundaries == Spec => []BoundaryIsWork
<1>1. IInv => BoundaryIsWork
  <2> SUFFICES ASSUME IInv, NEW i \in DOMAIN saved.ph
               PROVE  PhaseWork(saved.ph[i])
    BY DEF BoundaryIsWork, PhaseWork
  <2>1. saved.ph \in Seq(Phases) /\ Len(saved.ph) = Len(plan)
    BY DEF IInv, TypeOK, Fits, Runs
  <2>2. i \in 1 .. Len(plan)
    BY <2>1
  <2> QED
    BY <2>2 DEF IInv, WorkInv, RunWork
<1> QED
  BY <1>1, Holds, PTL

=============================================================================
