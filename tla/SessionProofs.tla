---------------------------- MODULE SessionProofs ----------------------------
(* What Session promises about its status, its approvals and the ends of turn  *)
(* it waits for, for every number of messages, calls, turns and backends. Two  *)
(* facts make the types inductive: one send is under way at a time, the head   *)
(* of the chain, and what is derived at a boundary stays in the sets it came   *)
(* from. A turn's status needs that a new turn takes a number never used; the  *)
(* approvals need nothing else; the ends need that the slot holds the newest   *)
(* process and that the turn being read is the one the provider opened last.   *)
EXTENDS Session, FiniteSetTheorems, SequenceTheorems, TLAPS

-----------------------------------------------------------------------------
(* Types: each variable's, and what the operators of the handlers return.      *)

SesT == [status : Status, run : Runs \cup {None}, midTurn : Nat, stopGen : Nat, bg : BOOLEAN]
GateT == [pend : SUBSET Calls, early : [Calls -> {"none", "yes", "no"}],
          card : SUBSET Calls, tools : SUBSET Calls, back : SUBSET Calls]
ReaderT == [Runs -> {"none", "reading", "ending", "stalled", "gone"}]
QueueT == [Runs -> Seq(Events)]
ProvT == [cur : Runs \cup {None}, closed : SUBSET Runs, slot : Gens \cup {None},
          open : BOOLEAN, gen : Gens \cup {None}, tearing : SUBSET Gens]
Process == [state : {"none", "live", "dying", "dead"}, owed : Nat,
            busy : BOOLEAN, cut : BOOLEAN, task : BOOLEAN]
CliT == [Gens -> Process]
Request == [pc : {"none", "asked", "parked", "decided", "allowed", "denied", "over"},
            yes : BOOLEAN, gen : Gens \cup {None}, aborted : BOOLEAN]
CallT == [Calls -> Request]
SendT == [Sends -> [pc : {"new", "queued", "recovering", "preparing", "over"},
                    gen : Nat, fate : Fates]]
StopT == [pc : {"none", "turn", "acked", "tasks"}, run : Runs \cup {None}]
RoomT == [sends : SUBSET Sends, calls : SUBSET Calls, stops : Nat,
          kills : Nat, crashes : Nat, runs : 0..MaxRuns]

\* TypeOK, one variable at a time, so that a proof may keep the sets of records closed.
LEMMA Types ==
    TypeOK <=> /\ ses \in SesT /\ gate \in GateT /\ reader \in ReaderT /\ queue \in QueueT
               /\ prov \in ProvT /\ cli \in CliT /\ call \in CallT /\ send \in SendT
               /\ chain \in Seq(Sends) /\ stop \in StopT /\ kill \in {"none", "snapshot"}
               /\ room \in RoomT
  BY DEF TypeOK, SesT, GateT, ReaderT, QueueT, ProvT, CliT, Process, CallT, Request, SendT, StopT, RoomT

LEMMA TypesNext ==
    TypeOK' <=> /\ ses' \in SesT /\ gate' \in GateT /\ reader' \in ReaderT /\ queue' \in QueueT
                /\ prov' \in ProvT /\ cli' \in CliT /\ call' \in CallT /\ send' \in SendT
                /\ chain' \in Seq(Sends) /\ stop' \in StopT /\ kill' \in {"none", "snapshot"}
                /\ room' \in RoomT
  BY DEF TypeOK, SesT, GateT, ReaderT, QueueT, ProvT, CliT, Process, CallT, Request, SendT, StopT, RoomT

\* What the proofs use of the constants.
LEMMA Constants == MaxRuns \in Nat \ {0} /\ MaxGen \in Nat \ {0} /\ Background \subseteq Calls
  BY SessionAssumption

\* Turns and backends are numbered from 1; 0 is neither.
LEMMA RunsAre == None \notin Runs /\ None \notin Gens /\ Runs \subseteq Nat /\ Gens \subseteq Nat /\ None = 0
  BY Constants DEF Runs, Gens, None

\* A sweep of the gate keeps it a gate, and only its denials leave the approvals.
LEMMA GateOf ==
    ASSUME NEW g \in GateT, NEW keep \in BOOLEAN
    PROVE  /\ Reconciled(g, keep) \in GateT /\ Reconciled(g, keep).pend = g.pend
           /\ Reconciled(g, keep).early = g.early
           /\ Unpended(g, keep) \in GateT /\ Unpended(g, keep).pend = g.pend \ Denied(g, keep)
           /\ Denied(g, keep) \subseteq g.pend
  BY DEF GateT, Reconciled, Unpended, Denied, Swept, Outlives

\* Showing a call or its card keeps a gate a gate.
LEMMA ShownOf ==
    ASSUME NEW g \in GateT, NEW c \in Calls, NEW turn \in BOOLEAN
    PROVE  /\ Shown(g, c, turn) \in GateT /\ Shown(g, c, turn).pend = g.pend
           /\ Finished(g, c) \in GateT /\ Finished(g, c).pend = g.pend
  <1>1. Shown(g, c, turn) \in GateT /\ Shown(g, c, turn).pend = g.pend
    BY DEF GateT, Shown
  <1>2. Finished(g, c) \in GateT /\ Finished(g, c).pend = g.pend
    BY DEF GateT, Finished
  <1> QED BY <1>1, <1>2

\* Answering settles exactly the calls answered; cancelling settles none.
LEMMA AnsweredOf ==
    ASSUME call \in CallT, NEW D, NEW yes \in BOOLEAN
    PROVE  /\ Answered(D, yes) \in CallT
           /\ \A c \in Calls : Answered(D, yes)[c].pc = IF c \in D THEN "decided" ELSE call[c].pc
  BY DEF CallT, Request, Answered

LEMMA CancelledOf ==
    ASSUME NEW cs \in CallT, NEW g
    PROVE  /\ Cancelled(cs, g) \in CallT
           /\ \A c \in Calls : Cancelled(cs, g)[c].pc = cs[c].pc
  BY DEF CallT, Request, Cancelled

\* Closing a turn's queue, or ending it, leaves the slot and its process alone.
LEMMA ProvOf ==
    ASSUME NEW p \in ProvT, NEW r
    PROVE  /\ Ended(p, r) \in ProvT /\ Shut(p) \in ProvT /\ Teardown(p) \in ProvT
           /\ Ended(p, r).slot = p.slot /\ Ended(p, r).gen = p.gen /\ Ended(p, r).open = p.open
           /\ Shut(p).slot = p.slot /\ Shut(p).gen = p.gen /\ Shut(p).open = p.open
           /\ Teardown(p).slot = p.slot /\ Teardown(p).gen = p.gen /\ ~Teardown(p).open
  <1>1. Ended(p, r) \in ProvT /\ Ended(p, r).slot = p.slot /\ Ended(p, r).gen = p.gen /\ Ended(p, r).open = p.open
    BY DEF ProvT, Ended, None
  <1>2. \A q \in ProvT : Shut(q) \in ProvT /\ Shut(q).slot = q.slot /\ Shut(q).gen = q.gen /\ Shut(q).open = q.open
    BY DEF ProvT, Shut, None
  <1>3. Teardown(p) \in ProvT /\ Teardown(p).slot = p.slot /\ Teardown(p).gen = p.gen /\ ~Teardown(p).open
    <2>1. CASE p.slot = None
      <3>1. PICK q : q = [p EXCEPT !.open = FALSE]
        OBVIOUS
      <3>2. q \in ProvT /\ q.slot = p.slot /\ q.gen = p.gen /\ ~q.open
        BY <3>1 DEF ProvT
      <3> QED BY <1>2, <3>1, <3>2, <2>1 DEF Teardown
    <2>2. CASE p.slot # None
      BY <2>2 DEF Teardown, ProvT
    <2> QED BY <2>1, <2>2
  <1> QED BY <1>1, <1>2, <1>3

LEMMA AbortedOf ==
    ASSUME NEW k \in CliT, NEW g \in Gens \cup {None}
    PROVE  Aborted(k, g) \in CliT
  BY RunsAre DEF CliT, Process, Aborted

(* Sends are under way one at a time: the head of the chain, and no other.     *)
UnderWay == {"recovering", "preparing"}
ChainInv == \A s \in Sends : send[s].pc \in UnderWay => chain # <<>> /\ s = Head(chain)

-----------------------------------------------------------------------------
(* Every step keeps the types.                                                 *)

\* The frame of the steps that touch the turn, the gate and the process (#hardStop).
LEMMA HardStopType ==
    ASSUME TypeOK, HardStop
    PROVE  ses' \in SesT /\ gate' \in GateT /\ call' \in CallT /\ prov' \in ProvT /\ cli' \in CliT
  <1>1. gate \in GateT /\ ses \in SesT /\ prov \in ProvT /\ cli \in CliT /\ call \in CallT
    BY Types
  <1>2. PICK g : g = Reconciled(gate, FALSE)
    OBVIOUS
  <1>3. g \in GateT
    BY <1>1, <1>2, GateOf
  <1>4. gate' = Unpended(g, FALSE) /\ gate' \in GateT
    BY <1>2, <1>3, GateOf DEF HardStop
  <1>5. call' \in CallT
    BY <1>1, <1>2, AnsweredOf, CancelledOf DEF HardStop
  <1>6. ses' \in SesT
    BY <1>1 DEF HardStop, SesT, Status
  <1>7. prov' \in ProvT
    BY <1>1, ProvOf DEF HardStop
  <1>8. cli' \in CliT
    BY <1>1, AbortedOf DEF HardStop, ProvT
  <1> QED BY <1>4, <1>5, <1>6, <1>7, <1>8

LEMMA SwipeType ==
    ASSUME TypeOK, NEW keep \in BOOLEAN, Swipe(keep)
    PROVE  gate' \in GateT /\ call' \in CallT
  <1>1. gate \in GateT /\ call \in CallT
    BY Types
  <1>2. PICK g : g = Reconciled(gate, keep)
    OBVIOUS
  <1>3. g \in GateT
    BY <1>1, <1>2, GateOf
  <1>4. gate' = Unpended(g, keep)
    BY <1>2 DEF Swipe
  <1>5. call' \in CallT
    BY <1>1, AnsweredOf DEF Swipe
  <1> QED BY <1>3, <1>4, <1>5, GateOf

LEMMA SettleType ==
    ASSUME TypeOK, NEW s \in Sends, NEW fate \in Fates, Settle(s, fate), chain # <<>>
    PROVE  send' \in SendT /\ chain' \in Seq(Sends)
  BY Types DEF Settle, SendT

\* What an event does between the provider and the session, with a queue open or not.
LEMMA AdoptType ==
    ASSUME TypeOK, NEW events \in Seq(Events), Adopt(events)
    PROVE  ses' \in SesT /\ gate' \in GateT /\ reader' \in ReaderT /\ queue' \in QueueT
           /\ prov' \in ProvT /\ room' \in RoomT
  <1>1. PICK r : r = room.runs + 1
    OBVIOUS
  <1>2. room \in RoomT /\ ses \in SesT /\ prov \in ProvT
    BY Types
  <1>3. room.runs < MaxRuns /\ room.runs \in 0..MaxRuns
    BY <1>2 DEF Adopt, RoomT
  <1>4. r \in Runs
    BY <1>1, <1>3, Constants DEF Runs
  <1>5. room' = [room EXCEPT !.runs = r] /\ room' \in RoomT
    BY <1>1, <1>2, <1>4 DEF Adopt, Runs, RoomT
  <1>6. ses' \in SesT /\ prov' \in ProvT
    <2>1. CASE ses.run = None
      <3>1. ses' = [ses EXCEPT !.run = r, !.status = "thinking"] /\ prov' = [prov EXCEPT !.cur = r]
        BY <1>1, <2>1 DEF Adopt
      <3> QED BY <1>2, <1>4, <3>1 DEF SesT, ProvT, Status
    <2>2. CASE ses.run # None
      BY <1>2, <2>2 DEF Adopt
    <2> QED BY <2>1, <2>2
  <1>7. reader' \in ReaderT /\ queue' \in QueueT
    BY <1>1, <1>4, Types DEF Adopt, ReaderT, QueueT
  <1>8. gate' \in GateT
    BY Types DEF Adopt
  <1> QED BY <1>5, <1>6, <1>7, <1>8

LEMMA BetweenType ==
    ASSUME TypeOK, NEW e \in Events, Between(e)
    PROVE  gate' \in GateT /\ gate'.pend = gate.pend
  <1>1. gate \in GateT /\ (e.kind \in {"tool", "tooldone"} => e.call \in Calls)
    BY Types DEF Events
  <1>2. CASE e.kind = "tool"
    BY <1>1, <1>2, ShownOf DEF Between
  <1>3. CASE e.kind = "tooldone"
    BY <1>1, <1>3, ShownOf DEF Between
  <1>4. CASE e.kind \notin {"tool", "tooldone"}
    BY <1>1, <1>4 DEF Between
  <1> QED BY <1>2, <1>3, <1>4

LEMMA EmitType ==
    ASSUME TypeOK, NEW e \in Events, Emit(e)
    PROVE  ses' \in SesT /\ gate' \in GateT /\ reader' \in ReaderT /\ queue' \in QueueT
           /\ prov' \in ProvT /\ room' \in RoomT
  <1>1. CASE prov.cur # None
    <2>1. prov.cur \in Runs /\ queue \in QueueT
      BY <1>1, Types DEF ProvT
    <2>2. queue' = [queue EXCEPT ![prov.cur] = Append(@, e)] /\ UNCHANGED <<ses, gate, reader, prov, room>>
      BY <1>1 DEF Emit, Queue
    <2>3. queue' \in QueueT
      BY <2>1, <2>2 DEF QueueT
    <2> QED BY <2>2, <2>3, Types
  <1>2. CASE prov.cur = None /\ e.kind = "tool" /\ e.call \notin Background
    <2>1. <<e>> \in Seq(Events)
      OBVIOUS
    <2> QED BY <1>2, <2>1, AdoptType DEF Emit
  <1>3. CASE prov.cur = None /\ ~(e.kind = "tool" /\ e.call \notin Background)
    <2>1. Between(e)
      BY <1>3 DEF Emit
    <2> QED BY <2>1, BetweenType, Types DEF Between
  <1> QED BY <1>1, <1>2, <1>3

\* Every event a process emits is one of the queue's.
LEMMA EventsAre ==
    /\ \A c \in Calls : [kind |-> "tool", call |-> c] \in Events /\ [kind |-> "tooldone", call |-> c] \in Events
    /\ [kind |-> "done"] \in Events /\ [kind |-> "error"] \in Events
  BY DEF Events

LEMMA DrainedType ==
    ASSUME TypeOK, Drained
    PROVE  ses' \in SesT /\ gate' \in GateT /\ call' \in CallT
  <1>1. CASE ses.bg /\ ses.run = None
    BY <1>1, SwipeType, Types DEF Drained, SesT, Status
  <1>2. CASE ~(ses.bg /\ ses.run = None)
    BY <1>2, Types DEF Drained, SesT
  <1> QED BY <1>1, <1>2

\* A push that queries adds an end to absorb and, if it lands, a prompt that owes one.
LEMMA PushType ==
    ASSUME TypeOK, NEW s \in Sends, chain # <<>>, NEW status \in Status, NEW fate \in Fates,
           PushNow(s, status, fate)
    PROVE  TypeOK'
  <1>0. ses \in SesT /\ cli \in CliT /\ prov \in ProvT
    BY Types
  <1>1. ses' \in SesT
    <2>1. PICK m : m = ses.midTurn + 1
      OBVIOUS
    <2>2. m \in Nat
      BY <1>0, <2>1 DEF SesT
    <2>3. ses' = [ses EXCEPT !.midTurn = m, !.status = status]
      BY <2>1 DEF PushNow, ExtraEnds
    <2> QED BY <1>0, <2>2, <2>3 DEF SesT
  <1>2. cli' \in CliT
    <2>1. CASE PushLands
      <3>1. prov.slot \in Gens
        BY <1>0, <2>1 DEF ProvT, PushLands
      <3>2. cli' = [cli EXCEPT ![prov.slot].owed = @ + 1]
        BY <2>1 DEF PushNow, Pushed
      <3> QED BY <1>0, <3>1, <3>2 DEF CliT, Process
    <2>2. CASE ~PushLands
      BY <1>0, <2>2 DEF PushNow, Pushed
    <2> QED BY <2>1, <2>2
  <1>3. send' \in SendT /\ chain' \in Seq(Sends)
    <2>1. \E f \in Fates : Settle(s, f)
      BY DEF PushNow, Fates
    <2> QED BY <2>1, SettleType
  <1>4. gate' \in GateT /\ reader' \in ReaderT /\ queue' \in QueueT /\ prov' \in ProvT /\ call' \in CallT
        /\ stop' \in StopT /\ kill' \in {"none", "snapshot"} /\ room' \in RoomT
    BY Types DEF PushNow
  <1> QED BY <1>1, <1>2, <1>3, <1>4, TypesNext

LEMMA MergeType ==
    ASSUME TypeOK, NEW s \in Sends, chain # <<>>, Merge(s)
    PROVE  TypeOK'
  <1>1. ses \in SesT /\ PushStatus \in Status
    BY Types DEF PushStatus, SesT, Status
  <1>2. ses' \in SesT
    <2>1. PICK m : m = ses.midTurn + 0
      OBVIOUS
    <2>2. m \in Nat
      BY <1>1, <2>1 DEF SesT
    <2>3. ses' = [ses EXCEPT !.midTurn = m, !.status = PushStatus]
      BY <2>1 DEF Merge, ExtraEnds
    <2> QED BY <1>1, <2>2, <2>3 DEF SesT
  <1>3. send' \in SendT /\ chain' \in Seq(Sends)
    <2>1. \E f \in Fates : Settle(s, f)
      BY DEF Merge, Fates
    <2> QED BY <2>1, SettleType
  <1> QED BY <1>2, <1>3, Types, TypesNext DEF Merge

LEMMA PrepareType ==
    ASSUME TypeOK, NEW s \in Sends, Prepare(s)
    PROVE  TypeOK'
  <1>1. send' \in SendT
    BY Types DEF Prepare, SendT
  <1> QED BY <1>1, Types, TypesNext DEF Prepare

LEMMA StartType ==
    ASSUME TypeOK, NEW s \in Sends, chain # <<>>, Start(s)
    PROVE  TypeOK'
  <1>0. ses \in SesT /\ prov \in ProvT /\ cli \in CliT /\ room \in RoomT
    BY Types
  <1>1. PICK r : r = room.runs + 1
    OBVIOUS
  <1>2. PICK reuse : reuse = (prov.slot # None /\ prov.open)
    OBVIOUS
  <1>3. PICK g : g = IF reuse THEN prov.slot ELSE prov.gen + 1
    OBVIOUS
  <1>4. PICK p : p = Shut(prov)
    OBVIOUS
  <1>5. r \in Runs
    <2>1. room.runs \in Nat /\ room.runs < MaxRuns
      BY <1>0, Constants DEF Start, RoomT
    <2> QED BY <1>1, <2>1, Constants DEF Runs
  <1>6. g <= MaxGen /\ prov' = [p EXCEPT !.cur = r, !.slot = g, !.open = TRUE, !.gen = IF reuse THEN @ ELSE g]
    BY <1>1, <1>2, <1>3, <1>4 DEF Start
  <1>7. g \in Gens
    <2>1. prov.slot \in Gens \cup {None} /\ prov.gen \in Gens \cup {None}
      BY <1>0 DEF ProvT
    <2>2. CASE reuse
      BY <1>2, <1>3, <2>1, <2>2
    <2>3. CASE ~reuse
      BY <1>3, <1>6, <2>1, <2>3, Constants DEF Gens, None
    <2> QED BY <2>2, <2>3
  <1>8. p \in ProvT
    BY <1>0, <1>4, ProvOf
  <1>9. prov' \in ProvT
    BY <1>5, <1>6, <1>7, <1>8, <1>2 DEF ProvT
  <1>10. cli' \in CliT
    <2>1. cli' = [cli EXCEPT ![g].state = IF reuse THEN @ ELSE "live", ![g].owed = @ + 1]
      BY <1>1, <1>2, <1>3 DEF Start
    <2> QED BY <1>0, <1>7, <2>1 DEF CliT, Process
  <1>11. ses' \in SesT /\ reader' \in ReaderT /\ room' \in RoomT
    <2>1. ses' = [ses EXCEPT !.run = r, !.status = "thinking"]
      BY <1>1 DEF Start
    <2>2. ses' \in SesT
      BY <1>0, <1>5, <2>1 DEF SesT, Status
    <2>3. reader' = [reader EXCEPT ![r] = "reading"] /\ room' = [room EXCEPT !.runs = r]
      BY <1>1 DEF Start
    <2>4. reader' \in ReaderT
      BY <1>5, <2>3, Types DEF ReaderT
    <2>5. room' \in RoomT
      BY <1>0, <1>5, <2>3, Constants DEF RoomT, Runs
    <2> QED BY <2>2, <2>4, <2>5
  <1>12. send' \in SendT /\ chain' \in Seq(Sends)
    BY SettleType DEF Start, Fates
  <1>13. gate' \in GateT /\ queue' \in QueueT /\ call' \in CallT /\ stop' \in StopT /\ kill' \in {"none", "snapshot"}
    BY Types DEF Start
  <1> QED BY <1>9, <1>10, <1>11, <1>12, <1>13, TypesNext

\* The types and the chain are kept by the send, step by step.
LEMMA SendTypes ==
    ASSUME TypeOK, ChainInv, NEW s \in Sends,
           Submit(s) \/ Begin(s) \/ BeginOnStalled(s) \/ Recovered(s) \/ Refuse(s)
           \/ Join(s) \/ Start(s) \/ SendFails(s)
    PROVE  TypeOK'
  <1>0. ses \in SesT /\ PushStatus \in Status /\ ses.status \in Status /\ send \in SendT
    BY Types DEF PushStatus, SesT, Status
  <1>a. send[s].pc \in UnderWay => chain # <<>>
    BY DEF ChainInv
  <1>1. CASE Submit(s)
    <2>1. send' \in SendT
      BY <1>0, <1>1 DEF Submit, SendT, SesT
    <2>2. chain' \in Seq(Sends)
      BY <1>1, Types DEF Submit
    <2> QED BY <1>1, <2>1, <2>2, Types, TypesNext DEF Submit
  <1>2. CASE Begin(s)
    BY <1>0, <1>2, PushType, MergeType, PrepareType DEF Begin, Fates
  <1>3. CASE BeginOnStalled(s)
    <2>1. send' \in SendT
      BY <1>0, <1>3 DEF BeginOnStalled, SendT
    <2> QED BY <1>3, <2>1, HardStopType, Types, TypesNext DEF BeginOnStalled
  <1>4. CASE Recovered(s)
    BY <1>0, <1>a, <1>4, PushType, MergeType, PrepareType DEF Recovered, Fates, UnderWay
  <1>5. CASE Refuse(s)
    <2>1. send' \in SendT /\ chain' \in Seq(Sends)
      BY <1>a, <1>5, SettleType DEF Refuse, Fates, UnderWay
    <2> QED BY <1>5, <2>1, Types, TypesNext DEF Refuse
  <1>6. CASE Join(s)
    BY <1>0, <1>a, <1>6, PushType DEF Join, Fates, UnderWay
  <1>7. CASE Start(s)
    BY <1>a, <1>7, StartType DEF Start, UnderWay
  <1>8. CASE SendFails(s)
    <2>1. send' \in SendT /\ chain' \in Seq(Sends)
      BY <1>a, <1>8, SettleType DEF SendFails, Fates, UnderWay
    <2>2. ses' \in SesT
      BY <1>0, <1>8 DEF SendFails, SesT, Status
    <2>3. room' \in RoomT
      BY <1>8, Types DEF SendFails, RoomT
    <2> QED BY <1>8, <2>1, <2>2, <2>3, Types, TypesNext DEF SendFails
  <1> QED BY <1>1, <1>2, <1>3, <1>4, <1>5, <1>6, <1>7, <1>8

\* The types are kept by what a process does.
LEMMA CliTypes ==
    ASSUME TypeOK, NEW g \in Gens,
           CliBegin(g) \/ CliSpeak(g) \/ CliDone(g) \/ CliPreempt(g)
           \/ CliTask(g) \/ CliSettle(g) \/ CliCrash(g)
           \/ \E c \in Calls : CliTool(g, c) \/ CliToolDone(g, c)
    PROVE  TypeOK'
  <1>0. ses \in SesT /\ cli \in CliT /\ call \in CallT /\ queue \in QueueT /\ room \in RoomT
    BY Types
  <1>1. CASE CliBegin(g)
    <2>1. cli' \in CliT
      <3>1. PICK m : m = cli[g].owed - 1
        OBVIOUS
      <3>2. m \in Nat
        BY <1>0, <1>1, <3>1 DEF CliBegin, CliT, Process
      <3> QED BY <1>0, <1>1, <3>1, <3>2 DEF CliBegin, CliT, Process
    <2> QED BY <1>1, <2>1, Types, TypesNext DEF CliBegin
  <1>2. CASE CliSpeak(g)
    <2>1. <<>> \in Seq(Events)
      OBVIOUS
    <2> QED BY <1>2, <2>1, AdoptType, Types, TypesNext DEF CliSpeak
  <1>3. CASE CliDone(g)
    <2>1. cli' \in CliT
      BY <1>0, <1>3 DEF CliDone, CliT, Process
    <2>2. CASE Heard(g)
      <3>1. Emit([kind |-> "done"])
        BY <1>3, <2>2 DEF CliDone
      <3> QED BY <1>3, <2>1, <3>1, EventsAre, EmitType, Types, TypesNext DEF CliDone
    <2>3. CASE ~Heard(g)
      BY <1>3, <2>1, <2>3, Types, TypesNext DEF CliDone
    <2> QED BY <2>2, <2>3
  <1>4. CASE CliPreempt(g)
    <2>1. cli' \in CliT
      BY <1>0, <1>4 DEF CliPreempt, CliT, Process
    <2>2. call' \in CallT
      BY <1>0, <1>4 DEF CliPreempt, CallT, Request
    <2> QED BY <1>4, <2>1, <2>2, Types, TypesNext DEF CliPreempt
  <1>5. CASE CliTask(g)
    <2>1. cli' \in CliT
      BY <1>0, <1>5 DEF CliTask, CliT, Process
    <2>2. ses' \in SesT
      BY <1>0, <1>5 DEF CliTask, SesT
    <2> QED BY <1>5, <2>1, <2>2, Types, TypesNext DEF CliTask
  <1>6. CASE CliSettle(g)
    <2>1. PICK m : m = IF cli[g].busy THEN cli[g].owed ELSE cli[g].owed + 1
      OBVIOUS
    <2>2. m \in Nat
      BY <1>0, <2>1 DEF CliT, Process
    <2>3. cli' = [cli EXCEPT ![g].task = FALSE, ![g].owed = m]
      BY <1>0, <1>6, <2>1 DEF CliSettle, CliT, Process
    <2>4. cli' \in CliT
      BY <1>0, <2>2, <2>3 DEF CliT, Process
    <2>5. Drained
      BY <1>6 DEF CliSettle
    <2> QED BY <1>6, <2>4, <2>5, DrainedType, Types, TypesNext DEF CliSettle
  <1>7. CASE CliCrash(g)
    <2>1. cli' \in CliT
      BY <1>0, <1>7 DEF CliCrash, CliT, Process
    <2>2. call' \in CallT
      BY <1>0, <1>7, CancelledOf DEF CliCrash
    <2>3. queue' \in QueueT
      <3>1. CASE prov.cur # None
        <4>1. prov.cur \in Runs
          BY <3>1, Types DEF ProvT
        <4>2. queue' = [queue EXCEPT ![prov.cur] = Append(@, [kind |-> "error"])]
          BY <1>7, <3>1 DEF CliCrash
        <4> QED BY <1>0, <4>1, <4>2, EventsAre DEF QueueT
      <3>2. CASE prov.cur = None
        BY <1>0, <1>7, <3>2 DEF CliCrash
      <3> QED BY <3>1, <3>2
    <2>4. room' \in RoomT
      <3>1. PICK m : m = room.crashes - 1
        OBVIOUS
      <3>2. m \in Nat /\ room' = [room EXCEPT !.crashes = m]
        BY <1>0, <1>7, <3>1 DEF CliCrash, RoomT
      <3> QED BY <1>0, <3>2 DEF RoomT
    <2> QED BY <1>7, <2>1, <2>2, <2>3, <2>4, Types, TypesNext DEF CliCrash
  <1>8. ASSUME NEW c \in Calls, CliTool(g, c) PROVE TypeOK'
    <2>1. call' \in CallT
      BY <1>0, <1>8 DEF CliTool, CallT, Request
    <2>2. Emit([kind |-> "tool", call |-> c])
      BY <1>8 DEF CliTool
    <2> QED BY <1>8, <2>1, <2>2, EventsAre, EmitType, Types, TypesNext DEF CliTool
  <1>9. ASSUME NEW c \in Calls, CliToolDone(g, c) PROVE TypeOK'
    <2>1. call' \in CallT
      <3>1. PICK x : x = [call[c] EXCEPT !.pc = "over", !.yes = FALSE, !.aborted = FALSE]
        OBVIOUS
      <3>2. x \in Request
        BY <1>0, <3>1 DEF CallT, Request
      <3>3. call' = [call EXCEPT ![c] = x]
        BY <1>9, <3>1 DEF CliToolDone
      <3> QED BY <1>0, <3>2, <3>3 DEF CallT
    <2>2. CASE Heard(g)
      <3>1. Emit([kind |-> "tooldone", call |-> c])
        BY <1>9, <2>2 DEF CliToolDone
      <3> QED BY <1>9, <2>1, <3>1, EventsAre, EmitType, Types, TypesNext DEF CliToolDone
    <2>3. CASE ~Heard(g)
      BY <1>9, <2>1, <2>3, Types, TypesNext DEF CliToolDone
    <2> QED BY <2>2, <2>3
  <1> QED BY <1>1, <1>2, <1>3, <1>4, <1>5, <1>6, <1>7, <1>8, <1>9

\* The types are kept by the end and the tear-down of a loop.
LEMMA LoopTypes ==
    ASSUME TypeOK, NEW g \in Gens, LoopEnds(g) \/ TornDown(g)
    PROVE  TypeOK'
  <1>0. prov \in ProvT /\ cli \in CliT
    BY Types
  <1>1. CASE LoopEnds(g)
    <2>1. cli' \in CliT
      BY <1>0, <1>1 DEF LoopEnds, CliT, Process
    <2>2. PICK p : p = IF Heard(g) THEN Shut(prov) ELSE prov
      OBVIOUS
    <2>3. p \in ProvT
      BY <1>0, <2>2, ProvOf
    <2>4. prov' = IF p.slot = g THEN [p EXCEPT !.slot = None, !.open = FALSE] ELSE p
      BY <1>1, <2>2 DEF LoopEnds
    <2>5. prov' \in ProvT
      BY <2>3, <2>4 DEF ProvT
    <2>6. ses' \in SesT /\ gate' \in GateT /\ call' \in CallT
      BY <1>1, DrainedType, Types DEF LoopEnds
    <2> QED BY <1>1, <2>1, <2>5, <2>6, Types, TypesNext DEF LoopEnds
  <1>2. CASE TornDown(g)
    <2>1. PICK p : p = Shut(prov)
      OBVIOUS
    <2>2. p \in ProvT
      BY <1>0, <2>1, ProvOf
    <2>3. prov' = [p EXCEPT !.tearing = @ \ {g}, !.slot = None, !.open = FALSE]
      BY <1>2, <2>1 DEF TornDown
    <2>4. prov' \in ProvT
      BY <2>2, <2>3 DEF ProvT
    <2> QED BY <1>2, <2>4, Types, TypesNext DEF TornDown
  <1> QED BY <1>1, <1>2

\* The types are kept by the reader of a turn and its watchdog.
LEMMA ReaderTypes ==
    ASSUME TypeOK, NEW r \in Runs,
           ReadTool(r) \/ Absorb(r) \/ ReadEnd(r) \/ Break(r) \/ Exit(r) \/ Watchdog(r)
    PROVE  TypeOK'
  <1>0. /\ ses \in SesT /\ reader \in ReaderT /\ queue \in QueueT /\ gate \in GateT /\ prov \in ProvT
        /\ ses.bg \in BOOLEAN /\ ses.status \in Status
    BY Types DEF SesT
  <1>a. queue[r] # <<>> => Head(queue[r]) \in Events /\ Tail(queue[r]) \in Seq(Events)
    BY <1>0 DEF QueueT
  <1>b. queue' = [queue EXCEPT ![r] = Tail(@)] /\ queue[r] # <<>> => queue' \in QueueT
    BY <1>0, <1>a DEF QueueT
  <1>1. CASE ReadTool(r)
    <2>1. PICK e : e = Head(queue[r])
      OBVIOUS
    <2>2. e.kind \in {"tool", "tooldone"} /\ e.call \in Calls
      BY <1>1, <1>a, <2>1 DEF ReadTool, Events
    <2>3. gate' = (IF e.kind = "tool" THEN Shown(gate, e.call, TRUE) ELSE Finished(gate, e.call)) /\ gate' \in GateT
      BY <1>0, <1>1, <2>1, <2>2, ShownOf DEF ReadTool
    <2>4. ses' = IF e.kind = "tool" THEN ses ELSE [ses EXCEPT !.status = AfterFinish(@, gate')]
      BY <1>1, <2>1 DEF ReadTool
    <2>5. ses' \in SesT
      BY <1>0, <2>4 DEF AfterFinish, SesT, Status
    <2> QED BY <1>1, <1>b, <2>3, <2>5, Types, TypesNext DEF ReadTool
  <1>2. CASE Absorb(r)
    <2>1. PICK m : m = ses.midTurn - 1
      OBVIOUS
    <2>2. m \in Nat
      BY <1>0, <1>2, <2>1 DEF Absorb, EndsForPush, SesT
    <2>3. ses' = [ses EXCEPT !.midTurn = m, !.status = IF @ = "error" THEN @ ELSE "thinking"]
      BY <1>2, <2>1 DEF Absorb
    <2>4. ses' \in SesT
      BY <1>0, <2>2, <2>3 DEF SesT, Status
    <2>5. gate' \in GateT /\ call' \in CallT
      BY <1>0, <1>2, SwipeType DEF Absorb
    <2> QED BY <1>2, <1>b, <2>4, <2>5, Types, TypesNext DEF Absorb
  <1>3. CASE ReadEnd(r)
    <2>1. \E st \in Status : ses' = [ses EXCEPT !.status = st]
      BY <1>0, <1>3 DEF ReadEnd, Status
    <2>2. ses' \in SesT
      BY <1>0, <2>1 DEF SesT
    <2>3. reader' \in ReaderT
      BY <1>0, <1>3 DEF ReadEnd, ReaderT
    <2> QED BY <1>3, <1>b, <2>2, <2>3, Types, TypesNext DEF ReadEnd
  <1>4. CASE Break(r)
    <2>1. reader' \in ReaderT
      BY <1>0, <1>4 DEF Break, ReaderT
    <2> QED BY <1>4, <2>1, Types, TypesNext DEF Break
  <1>5. CASE Exit(r)
    <2>1. reader' \in ReaderT /\ queue' \in QueueT
      BY <1>0, <1>5 DEF Exit, ReaderT, QueueT
    <2>2. gate' \in GateT /\ call' \in CallT
      BY <1>0, <1>5, SwipeType DEF Exit
    <2>3. prov' \in ProvT
      <3>1. PICK p : p = Ended(prov, r)
        OBVIOUS
      <3>2. p \in ProvT /\ prov' = [p EXCEPT !.closed = @ \ {r}]
        BY <1>0, <1>5, <3>1, ProvOf DEF Exit
      <3> QED BY <3>2 DEF ProvT
    <2>4. ses' \in SesT
      BY <1>0, <1>5 DEF Exit, SesT, Status, Rest
    <2> QED BY <1>5, <2>1, <2>2, <2>3, <2>4, Types, TypesNext DEF Exit
  <1>6. CASE Watchdog(r)
    <2>1. reader' \in ReaderT
      BY <1>0, <1>6 DEF Watchdog, ReaderT
    <2>2. ses' \in SesT /\ gate' \in GateT /\ call' \in CallT /\ prov' \in ProvT /\ cli' \in CliT
      BY <1>6, HardStopType, Types DEF Watchdog
    <2> QED BY <1>6, <2>1, <2>2, Types, TypesNext DEF Watchdog
  <1> QED BY <1>1, <1>2, <1>3, <1>4, <1>5, <1>6

\* The types are kept by the approvals.
LEMMA GateTypes ==
    ASSUME TypeOK, NEW c \in Calls,
           GateAllows(c) \/ GateParks(c) \/ GateReturn(c) \/ Withdraw(c) \/ Approve(c)
    PROVE  TypeOK'
  <1>0. ses \in SesT /\ gate \in GateT /\ call \in CallT
    BY Types
  <1>1. CASE GateAllows(c)
    <2>1. ses' \in SesT
      BY <1>0, <1>1 DEF GateAllows, SesT, Status
    <2>2. gate' \in GateT /\ call' \in CallT
      BY <1>0, <1>1 DEF GateAllows, GateT, CallT, Request
    <2> QED BY <1>1, <2>1, <2>2, Types, TypesNext DEF GateAllows
  <1>2. CASE GateParks(c)
    <2>1. ses' \in SesT
      BY <1>0, <1>2 DEF GateParks, SesT, Status
    <2>2. gate' \in GateT
      BY <1>0, <1>2 DEF GateParks, GateT
    <2>3. call' \in CallT
      <3>1. CASE gate.early[c] # "none"
        <4>1. PICK yes \in BOOLEAN : yes = (gate.early[c] = "yes")
          OBVIOUS
        <4>2. call' = Answered({c}, yes)
          BY <1>2, <3>1, <4>1 DEF GateParks
        <4> QED BY <1>0, <4>2, AnsweredOf
      <3>2. CASE gate.early[c] = "none"
        <4>1. call' = [call EXCEPT ![c].pc = "parked"]
          BY <1>2, <3>2 DEF GateParks
        <4> QED BY <1>0, <4>1 DEF CallT, Request
      <3> QED BY <3>1, <3>2
    <2> QED BY <1>2, <2>1, <2>2, <2>3, Types, TypesNext DEF GateParks
  <1>3. CASE GateReturn(c)
    <2>1. ses' \in SesT
      BY <1>0, <1>3 DEF GateReturn, AfterAnswer, SesT, Status
    <2>2. gate' \in GateT /\ call' \in CallT
      BY <1>0, <1>3 DEF GateReturn, GateT, CallT, Request
    <2> QED BY <1>3, <2>1, <2>2, Types, TypesNext DEF GateReturn
  <1>4. CASE Withdraw(c)
    <2>1. gate' \in GateT /\ call' \in CallT
      BY <1>0, <1>4, AnsweredOf DEF Withdraw, GateT
    <2> QED BY <1>4, <2>1, Types, TypesNext DEF Withdraw
  <1>5. CASE Approve(c)
    <2>1. gate' \in GateT /\ call' \in CallT
      BY <1>0, <1>5, AnsweredOf DEF Approve, GateT
    <2> QED BY <1>5, <2>1, Types, TypesNext DEF Approve
  <1> QED BY <1>1, <1>2, <1>3, <1>4, <1>5

\* The types are kept by a Stop and a termination.
LEMMA StopTypes ==
    ASSUME TypeOK,
           Stop \/ StopTaken \/ StopAborts \/ StopDone \/ StopTasks \/ Terminate \/ Terminated
    PROVE  TypeOK'
  <1>0. /\ ses \in SesT /\ gate \in GateT /\ call \in CallT /\ cli \in CliT /\ prov \in ProvT
        /\ room \in RoomT /\ stop \in StopT
    BY Types
  <1>a. /\ ses.bg \in BOOLEAN /\ ses.run \in Runs \cup {None} /\ ses.status \in Status
        /\ ses.stopGen + 1 \in Nat
    BY <1>0 DEF SesT
  <1>b. NoEarly \in [Calls -> {"none", "yes", "no"}]
    BY DEF NoEarly
  <1>c. \A pend : Rest(pend) \in Status
    BY DEF Rest, Status
  <1>1. CASE Stop
    <2>1. room' \in RoomT
      <3>1. PICK m : m = room.stops - 1
        OBVIOUS
      <3>2. m \in Nat /\ room' = [room EXCEPT !.stops = m]
        BY <1>0, <1>1, <3>1 DEF Stop, RoomT
      <3> QED BY <1>0, <3>2 DEF RoomT
    <2>2. CASE ses.run = None /\ ses.bg
      <3>1. PICK n : n = ses.stopGen + 1
        OBVIOUS
      <3>2. ses' = [ses EXCEPT !.stopGen = n, !.midTurn = 0] /\ stop' = [pc |-> "tasks", run |-> None]
            /\ UNCHANGED <<gate, call>>
        BY <1>1, <2>2, <3>1 DEF Stop
      <3>3. ses' \in SesT /\ stop' \in StopT
        BY <1>0, <1>a, <3>1, <3>2 DEF SesT, StopT
      <3> QED BY <1>1, <2>1, <3>2, <3>3, Types, TypesNext DEF Stop
    <2>3. CASE ~(ses.run = None /\ ses.bg)
      <3>1. PICK g : g = IF ses.run = None THEN Reconciled(gate, ses.bg) ELSE gate
        OBVIOUS
      <3>2. PICK D : D = Denied(gate, ses.bg)
        OBVIOUS
      <3>3. PICK u : u = Unpended(g, ses.bg)
        OBVIOUS
      <3>4. g \in GateT /\ u \in GateT
        BY <1>0, <1>a, <3>1, <3>3, GateOf
      <3>5. gate' = [u EXCEPT !.pend = gate.pend \ D, !.early = NoEarly] /\ call' = Answered(D, FALSE)
        BY <1>1, <2>3, <3>1, <3>2, <3>3 DEF Stop
      <3>6. gate' \in GateT /\ call' \in CallT
        BY <1>0, <1>b, <3>4, <3>5, AnsweredOf DEF GateT
      <3>7. stop' \in StopT
        <4>1. stop' = [pc |-> IF ses.run = None THEN "none" ELSE "turn", run |-> ses.run]
          BY <1>1, <2>3 DEF Stop
        <4> QED BY <1>a, <4>1 DEF StopT
      <3>8. PICK st : st = IF ses.run # None \/ ses.status = "error" THEN ses.status ELSE Rest(gate'.pend)
        OBVIOUS
      <3>a. PICK n : n = ses.stopGen + 1
        OBVIOUS
      <3>b. ses' = [ses EXCEPT !.stopGen = n, !.midTurn = 0, !.status = st]
        BY <1>1, <2>3, <3>8, <3>a DEF Stop
      <3>c. st \in Status /\ n \in Nat
        BY <1>a, <1>c, <3>8, <3>a
      <3>9. ses' \in SesT
        BY <1>0, <3>b, <3>c DEF SesT
      <3> QED BY <1>1, <2>1, <3>6, <3>7, <3>9, Types, TypesNext DEF Stop
    <2> QED BY <2>2, <2>3
  <1>2. CASE StopTaken
    <2>1. stop' \in StopT
      BY <1>0, <1>2 DEF StopTaken, StopT
    <2>2. cli' \in CliT /\ call' \in CallT
      <3>1. CASE cli[prov.slot].busy
        <4>1. prov.slot \in Gens /\ cli' = [cli EXCEPT ![prov.slot].cut = TRUE]
          BY <1>0, <1>2, <3>1 DEF StopTaken, ProvT
        <4>2. cli' \in CliT
          BY <1>0, <4>1 DEF CliT, Process
        <4>3. call' = [c \in Calls |-> IF c \in MainCalls(prov.slot)
                                       THEN [call[c] EXCEPT !.aborted = TRUE] ELSE call[c]]
          BY <1>2, <3>1 DEF StopTaken
        <4>4. call' \in CallT
          BY <1>0, <4>3 DEF CallT, Request
        <4> QED BY <4>2, <4>4
      <3>2. CASE ~cli[prov.slot].busy
        BY <1>0, <1>2, <3>2 DEF StopTaken
      <3> QED BY <3>1, <3>2
    <2> QED BY <1>2, <2>1, <2>2, Types, TypesNext DEF StopTaken
  <1>3. CASE StopAborts
    <2>1. stop' \in StopT /\ prov' \in ProvT
      BY <1>0, <1>3 DEF StopAborts, StopT, ProvT
    <2>2. cli' \in CliT
      BY <1>0, <1>3, AbortedOf DEF StopAborts, ProvT
    <2>3. PICK cs : cs = Cancelled(call, prov.slot)
      OBVIOUS
    <2>4. cs \in CallT
      BY <1>0, <2>3, CancelledOf
    <2>5. PICK g : g = Reconciled(gate, FALSE)
      OBVIOUS
    <2>6. g \in GateT
      BY <1>0, <2>5, GateOf
    <2>7. CASE ses.bg /\ ses.run = None
      <3>1. gate' = Unpended(g, FALSE) /\ gate' \in GateT
        BY <1>3, <2>5, <2>6, <2>7, GateOf DEF StopAborts
      <3>2. call' = [c \in Calls |-> IF c \in Denied(g, FALSE)
                                     THEN [cs[c] EXCEPT !.pc = "decided", !.yes = FALSE] ELSE cs[c]]
        BY <1>3, <2>3, <2>5, <2>7 DEF StopAborts
      <3>3. call' \in CallT
        BY <2>4, <3>2 DEF CallT, Request
      <3>4. ses' \in SesT
        BY <1>0, <1>3, <2>7 DEF StopAborts, SesT, Status
      <3> QED BY <1>3, <2>1, <2>2, <3>1, <3>3, <3>4, Types, TypesNext DEF StopAborts
    <2>8. CASE ~(ses.bg /\ ses.run = None)
      <3>1. ses' \in SesT
        BY <1>0, <1>3, <2>8 DEF StopAborts, SesT
      <3>2. call' = cs /\ UNCHANGED gate
        BY <1>3, <2>3, <2>8 DEF StopAborts
      <3> QED BY <1>3, <2>1, <2>2, <2>4, <3>1, <3>2, Types, TypesNext DEF StopAborts
    <2> QED BY <2>7, <2>8
  <1>4. CASE StopDone
    <2>1. stop' \in StopT
      BY <1>4 DEF StopDone, StopT
    <2>2. CASE ses.run # stop.run
      BY <1>4, <2>1, <2>2, Types, TypesNext DEF StopDone
    <2>3. CASE ses.run = stop.run
      <3>1. PICK D : D = IF ses.bg THEN {} ELSE gate.pend
        OBVIOUS
      <3>2. call' = Answered(D, FALSE) /\ gate' = [gate EXCEPT !.pend = @ \ D]
            /\ ses' = [ses EXCEPT !.status = IF @ = "error" THEN @ ELSE Rest(gate'.pend)]
        BY <1>4, <2>3, <3>1 DEF StopDone
      <3>3. call' \in CallT /\ gate' \in GateT
        BY <1>0, <3>2, AnsweredOf DEF GateT
      <3>4. ses' \in SesT
        BY <1>0, <1>a, <1>c, <3>2 DEF SesT
      <3> QED BY <1>4, <2>1, <3>3, <3>4, Types, TypesNext DEF StopDone
    <2> QED BY <2>2, <2>3
  <1>5. CASE StopTasks
    <2>1. stop' \in StopT
      BY <1>5 DEF StopTasks, StopT
    <2>2. cli' \in CliT
      BY <1>0, <1>5 DEF StopTasks, CliT, Process
    <2>3. PICK g : g = Reconciled(gate, FALSE)
      OBVIOUS
    <2>4. g \in GateT
      BY <1>0, <2>3, GateOf
    <2>5. CASE ses.run # None
      <3>1. ses' \in SesT /\ UNCHANGED <<gate, call>>
        BY <1>0, <1>5, <2>5 DEF StopTasks, SesT
      <3> QED BY <1>5, <2>1, <2>2, <3>1, Types, TypesNext DEF StopTasks
    <2>6. CASE ses.run = None
      <3>1. gate' = [g EXCEPT !.pend = {}, !.early = NoEarly] /\ call' = Answered(gate.pend, FALSE)
        BY <1>5, <2>3, <2>6 DEF StopTasks
      <3>2. gate' \in GateT /\ call' \in CallT
        BY <1>0, <1>b, <2>4, <3>1, AnsweredOf DEF GateT
      <3>3. ses' \in SesT
        BY <1>0, <1>5, <2>6 DEF StopTasks, SesT, Status
      <3> QED BY <1>5, <2>1, <2>2, <3>2, <3>3, Types, TypesNext DEF StopTasks
    <2> QED BY <2>5, <2>6
  <1>6. CASE Terminate
    <2>1. room' \in RoomT
      <3>1. PICK m : m = room.kills - 1
        OBVIOUS
      <3>2. m \in Nat /\ room' = [room EXCEPT !.kills = m]
        BY <1>0, <1>6, <3>1 DEF Terminate, RoomT
      <3> QED BY <1>0, <3>2 DEF RoomT
    <2>2. ses' \in SesT
      <3>1. PICK n : n = ses.stopGen + 1
        OBVIOUS
      <3>2. ses' = [ses EXCEPT !.stopGen = n]
        BY <1>6, <3>1 DEF Terminate
      <3> QED BY <1>0, <1>a, <3>1, <3>2 DEF SesT
    <2>3. gate' \in GateT
      BY <1>0, <1>6, <1>b DEF Terminate, GateT
    <2> QED BY <1>6, <2>1, <2>2, <2>3, Types, TypesNext DEF Terminate
  <1>7. CASE Terminated
    BY <1>7, HardStopType, Types, TypesNext DEF Terminated
  <1> QED BY <1>1, <1>2, <1>3, <1>4, <1>5, <1>6, <1>7

\* A send joins the chain at its end and is under way only at its head.
LEMMA ChainStep ==
    ASSUME TypeOK, ChainInv, [Next]_vars
    PROVE  ChainInv'
  <1>0. chain \in Seq(Sends) /\ send \in SendT
    BY Types
  <1>1. ASSUME send' = send, chain' = chain PROVE ChainInv'
    BY <1>1 DEF ChainInv
  <1>2. ASSUME NEW s \in Sends, NEW fate, Settle(s, fate), chain # <<>>, s = Head(chain) PROVE ChainInv'
    <2>1. ASSUME NEW t \in Sends, send'[t].pc \in UnderWay PROVE FALSE
      <3>1. t # s
        BY <1>0, <1>2, <2>1 DEF Settle, SendT, UnderWay
      <3>2. send[t].pc \in UnderWay
        BY <1>0, <1>2, <2>1, <3>1 DEF Settle, SendT
      <3> QED BY <1>2, <3>1, <3>2 DEF ChainInv
    <2> QED BY <2>1 DEF ChainInv
  <1>3. ASSUME NEW s \in Sends, NEW pc, send' = [send EXCEPT ![s].pc = pc], chain' = chain,
               chain # <<>>, s = Head(chain)
        PROVE  ChainInv'
    BY <1>0, <1>3 DEF ChainInv, SendT
  <1>4. CASE \E s \in Sends : Submit(s) \/ SendFails(s)
    <2>1. ASSUME NEW s \in Sends, Submit(s) PROVE ChainInv'
      <3>1. \A t \in Sends : send'[t].pc \in UnderWay => send[t].pc \in UnderWay
        BY <1>0, <2>1 DEF Submit, SendT, UnderWay
      <3>2. chain # <<>> => chain' # <<>> /\ Head(chain') = Head(chain)
        BY <1>0, <2>1 DEF Submit
      <3> QED BY <3>1, <3>2 DEF ChainInv
    <2>2. ASSUME NEW s \in Sends, SendFails(s) PROVE ChainInv'
      BY <1>2, <2>2 DEF SendFails, ChainInv, UnderWay
    <2> QED BY <1>4, <2>1, <2>2
  <1>5. CASE SendStep
    <2> SUFFICES ASSUME NEW s \in Sends,
                        Begin(s) \/ BeginOnStalled(s) \/ Recovered(s) \/ Refuse(s) \/ Join(s) \/ Start(s)
                 PROVE  ChainInv'
      BY <1>5 DEF SendStep
    <2>1. chain # <<>> /\ s = Head(chain)
      BY DEF ChainInv, UnderWay, Begin, BeginOnStalled, Recovered, Refuse, Join, Start
    <2>2. \/ \E fate \in Fates : Settle(s, fate)
          \/ \E pc \in UnderWay : send' = [send EXCEPT ![s].pc = pc] /\ chain' = chain
      BY DEF Begin, BeginOnStalled, Recovered, Refuse, Join, Start, PushNow, Merge, Prepare, UnderWay, Fates
    <2> QED BY <1>2, <1>3, <2>1, <2>2
  <1>6. CASE ReaderStep \/ GateStep \/ ProviderStep \/ (\E r \in Runs : Watchdog(r)) \/ (\E c \in Calls : Approve(c))
    BY <1>1, <1>6 DEF ReaderStep, GateStep, ProviderStep, ReadTool, Absorb, ReadEnd, Break, Exit, Watchdog,
       GateAllows, GateParks, GateReturn, Withdraw, Approve, LoopEnds, TornDown
  <1>7. CASE StopStep \/ Stop \/ Terminate
    BY <1>1, <1>7 DEF StopStep, StopTaken, StopAborts, StopDone, StopTasks, Terminated, Stop, Terminate
  <1>8. CASE CliStep
    BY <1>1, <1>8 DEF CliStep, CliBegin, CliSpeak, CliDone, CliPreempt, CliTask, CliSettle, CliCrash,
       CliTool, CliToolDone
  <1>9. CASE UNCHANGED vars
    BY <1>1, <1>9 DEF vars
  <1> QED BY <1>4, <1>5, <1>6, <1>7, <1>8, <1>9 DEF Next

\* Every step keeps the types and the chain.
LEMMA TypeStep ==
    ASSUME TypeOK, ChainInv, [Next]_vars
    PROVE  TypeOK'
  <1>1. CASE SendStep \/ \E s \in Sends : Submit(s) \/ SendFails(s)
    BY <1>1, SendTypes DEF SendStep
  <1>2. CASE ReaderStep \/ \E r \in Runs : Watchdog(r)
    BY <1>2, ReaderTypes DEF ReaderStep
  <1>3. CASE GateStep \/ \E c \in Calls : Approve(c)
    BY <1>3, GateTypes DEF GateStep
  <1>4. CASE ProviderStep
    BY <1>4, LoopTypes DEF ProviderStep
  <1>5. CASE StopStep \/ Stop \/ Terminate
    BY <1>5, StopTypes DEF StopStep
  <1>6. CASE CliStep
    BY <1>6, CliTypes DEF CliStep
  <1>7. CASE UNCHANGED vars
    BY <1>7, Types, TypesNext DEF vars
  <1> QED BY <1>1, <1>2, <1>3, <1>4, <1>5, <1>6, <1>7 DEF Next

LEMMA TypeInit == Init => TypeOK /\ ChainInv
  <1> SUFFICES ASSUME Init PROVE TypeOK /\ ChainInv
    OBVIOUS
  <1>1. room \in RoomT
    BY SessionAssumption, Constants DEF Init, RoomT
  <1>2. ses \in SesT /\ gate \in GateT /\ prov \in ProvT /\ stop \in StopT
    BY DEF Init, SesT, GateT, ProvT, StopT, Status
  <1>3. reader \in ReaderT /\ queue \in QueueT /\ cli \in CliT /\ call \in CallT /\ send \in SendT
    BY DEF Init, ReaderT, QueueT, CliT, Process, CallT, Request, SendT, Fates
  <1>4. ChainInv
    BY DEF Init, ChainInv, UnderWay
  <1> QED BY <1>1, <1>2, <1>3, <1>4, Types DEF Init

(* The state always has its type, and the sends that have begun are at most one, the  *)
(* head of the chain: #enqueueSend runs each after the one before it has settled,    *)
(* whatever that one did (session.ts).                                               *)
THEOREM Typed == Spec => [](TypeOK /\ ChainInv)
  <1>1. (TypeOK /\ ChainInv) /\ [Next]_vars => (TypeOK /\ ChainInv)'
    BY TypeStep, ChainStep
  <1> QED BY <1>1, TypeInit, PTL DEF Spec

-----------------------------------------------------------------------------
(* The approvals that wait and the calls that wait for one.                    *)

\* Approvals that leave together with their calls, and no call that parks alone.
LEMMA Unparked ==
    ASSUME PendingIsParked, NEW D, gate'.pend = gate.pend \ D,
           \A c \in Calls : call'[c].pc = "parked" <=> call[c].pc = "parked" /\ c \notin D
    PROVE  PendingIsParked'
  BY DEF PendingIsParked

LEMMA AnsweredParks ==
    ASSUME call \in CallT, NEW D, NEW yes \in BOOLEAN
    PROVE  \A c \in Calls : Answered(D, yes)[c].pc = "parked" <=> call[c].pc = "parked" /\ c \notin D
  BY AnsweredOf

LEMMA SwipeParks ==
    ASSUME TypeOK, PendingIsParked, NEW keep \in BOOLEAN, Swipe(keep)
    PROVE  PendingIsParked'
  <1>1. PICK g : g = Reconciled(gate, keep)
    OBVIOUS
  <1>2. g \in GateT /\ g.pend = gate.pend
    BY <1>1, GateOf, Types
  <1>3. PICK D : D = Denied(g, keep)
    OBVIOUS
  <1>4. gate' = Unpended(g, keep) /\ call' = Answered(D, FALSE)
    BY <1>1, <1>3 DEF Swipe
  <1>5. gate'.pend = gate.pend \ D
    BY <1>2, <1>3, <1>4, GateOf
  <1>6. \A c \in Calls : call'[c].pc = IF c \in D THEN "decided" ELSE call[c].pc
    BY <1>4, Types DEF Answered, CallT, Request
  <1> QED BY <1>5, <1>6, Unparked

LEMMA HardStopParks ==
    ASSUME TypeOK, PendingIsParked, HardStop
    PROVE  PendingIsParked'
  <1>1. PICK g : g = Reconciled(gate, FALSE)
    OBVIOUS
  <1>2. g \in GateT /\ g.pend = gate.pend
    BY <1>1, GateOf, Types
  <1>3. PICK D : D = Denied(g, FALSE)
    OBVIOUS
  <1>4. PICK cs : cs = Answered(D, FALSE)
    OBVIOUS
  <1>5. gate' = Unpended(g, FALSE) /\ call' = Cancelled(cs, prov.slot)
    BY <1>1, <1>3, <1>4 DEF HardStop
  <1>6. gate'.pend = gate.pend \ D
    BY <1>2, <1>3, <1>5, GateOf
  <1>7. cs \in CallT
    BY <1>4, AnsweredOf, Types
  <1>a. \A c \in Calls : cs[c].pc = "parked" <=> call[c].pc = "parked" /\ c \notin D
    BY <1>4, Types DEF Answered, CallT, Request
  <1>b. \A c \in Calls : call'[c].pc = cs[c].pc
    BY <1>5, <1>7, CancelledOf
  <1>8. \A c \in Calls : call'[c].pc = "parked" <=> call[c].pc = "parked" /\ c \notin D
    BY <1>a, <1>b
  <1> QED BY <1>6, <1>8, Unparked

LEMMA DrainedParks ==
    ASSUME TypeOK, PendingIsParked, Drained
    PROVE  PendingIsParked'
  <1>1. CASE ses.bg /\ ses.run = None
    BY <1>1, SwipeParks DEF Drained
  <1>2. CASE ~(ses.bg /\ ses.run = None)
    BY <1>2 DEF Drained, PendingIsParked
  <1> QED BY <1>1, <1>2

LEMMA EmitParks ==
    ASSUME TypeOK, NEW e \in Events, Emit(e)
    PROVE  gate'.pend = gate.pend
  <1>1. CASE prov.cur # None
    BY <1>1 DEF Emit, Queue
  <1>2. CASE prov.cur = None /\ e.kind = "tool" /\ e.call \notin Background
    BY <1>2 DEF Emit, Adopt
  <1>3. CASE prov.cur = None /\ ~(e.kind = "tool" /\ e.call \notin Background)
    <2>1. Between(e)
      BY <1>3 DEF Emit
    <2> QED BY <2>1, BetweenType
  <1> QED BY <1>1, <1>2, <1>3

LEMMA CliParks ==
    ASSUME TypeOK, PendingIsParked, CliStep
    PROVE  PendingIsParked'
  <1> SUFFICES ASSUME NEW g \in Gens,
                      \/ CliBegin(g) \/ CliSpeak(g) \/ CliDone(g) \/ CliPreempt(g)
                      \/ CliTask(g) \/ CliSettle(g) \/ CliCrash(g)
                      \/ \E c \in Calls : CliTool(g, c) \/ CliToolDone(g, c)
               PROVE  PendingIsParked'
    BY DEF CliStep
  <1>0. call \in CallT /\ gate \in GateT
    BY Types
  <1>1. CASE CliBegin(g) \/ CliSpeak(g) \/ CliTask(g)
    BY <1>1 DEF CliBegin, CliSpeak, CliTask, Adopt, PendingIsParked
  <1>2. CASE CliDone(g)
    <2>1. gate'.pend = gate.pend /\ call' = call
      BY <1>2, EventsAre, EmitParks DEF CliDone
    <2> QED BY <2>1 DEF PendingIsParked
  <1>3. CASE CliPreempt(g)
    <2>1. \A c \in Calls : call'[c].pc = call[c].pc
      BY <1>0, <1>3 DEF CliPreempt, CallT, Request
    <2> QED BY <1>3, <2>1 DEF CliPreempt, PendingIsParked
  <1>4. CASE CliSettle(g)
    BY <1>4, DrainedParks DEF CliSettle
  <1>5. CASE CliCrash(g)
    <2>1. \A c \in Calls : call'[c].pc = call[c].pc
      BY <1>0, <1>5, CancelledOf DEF CliCrash
    <2> QED BY <1>5, <2>1 DEF CliCrash, PendingIsParked
  <1>6. ASSUME NEW c \in Calls, CliTool(g, c) \/ CliToolDone(g, c) PROVE PendingIsParked'
    <2>1. gate'.pend = gate.pend
      BY <1>6, EventsAre, EmitParks DEF CliTool, CliToolDone
    <2>2. call[c].pc # "parked" /\ call'[c].pc # "parked"
      <3>1. CASE CliTool(g, c)
        BY <1>0, <3>1 DEF CliTool, CallT, Request
      <3>2. CASE CliToolDone(g, c)
        <4>1. PICK x : x = [call[c] EXCEPT !.pc = "over", !.yes = FALSE, !.aborted = FALSE]
          OBVIOUS
        <4>2. call' = [call EXCEPT ![c] = x] /\ x.pc = "over" /\ call[c].pc \in {"allowed", "denied"}
          BY <1>0, <3>2, <4>1 DEF CliToolDone, CallT, Request
        <4> QED BY <1>0, <4>2 DEF CallT
      <3> QED BY <1>6, <3>1, <3>2
    <2>3. \A d \in Calls \ {c} : call'[d] = call[d]
      BY <1>0, <1>6 DEF CliTool, CliToolDone, CallT
    <2> QED BY <2>1, <2>2, <2>3 DEF PendingIsParked
  <1> QED BY <1>1, <1>2, <1>3, <1>4, <1>5, <1>6

LEMMA GateParksStep ==
    ASSUME TypeOK, PendingIsParked, NEW c \in Calls,
           GateAllows(c) \/ GateParks(c) \/ GateReturn(c) \/ Withdraw(c) \/ Approve(c)
    PROVE  PendingIsParked'
  <1>0. call \in CallT /\ gate \in GateT
    BY Types
  <1>1. CASE GateAllows(c) \/ GateReturn(c)
    <2>1. gate'.pend = gate.pend /\ \A d \in Calls : call'[d].pc = "parked" <=> call[d].pc = "parked"
      BY <1>0, <1>1 DEF GateAllows, GateReturn, GateT, CallT, Request
    <2> QED BY <2>1 DEF PendingIsParked
  <1>2. CASE GateParks(c)
    <2>1. CASE gate.early[c] # "none"
      <3>1. PICK yes \in BOOLEAN : yes = (gate.early[c] = "yes")
        OBVIOUS
      <3>2. call' = Answered({c}, yes) /\ call[c].pc # "parked" /\ gate'.pend = gate.pend
        BY <1>0, <1>2, <2>1, <3>1 DEF GateParks, GateT
      <3> QED BY <1>0, <3>2, AnsweredParks DEF PendingIsParked
    <2>2. CASE gate.early[c] = "none"
      <3>1. call' = [call EXCEPT ![c].pc = "parked"] /\ gate'.pend = gate.pend \cup {c}
        BY <1>0, <1>2, <2>2 DEF GateParks, GateT
      <3>2. call'[c].pc = "parked" /\ \A d \in Calls \ {c} : call'[d] = call[d]
        BY <1>0, <3>1 DEF CallT, Request
      <3> QED BY <3>1, <3>2 DEF PendingIsParked
    <2> QED BY <2>1, <2>2
  <1>3. ASSUME NEW yes \in BOOLEAN, call' = Answered({c}, yes), gate' = [gate EXCEPT !.pend = @ \ {c}]
        PROVE  PendingIsParked'
    <2>1. gate'.pend = gate.pend \ {c}
      BY <1>0, <1>3 DEF GateT
    <2> QED BY <1>0, <1>3, <2>1, AnsweredParks, Unparked
  <1>4. CASE Withdraw(c)
    BY <1>3, <1>4 DEF Withdraw
  <1>5. CASE Approve(c)
    <2>1. CASE c \in gate.pend
      BY <1>3, <1>5, <2>1 DEF Approve
    <2>2. CASE c \notin gate.pend
      <3>1. gate'.pend = gate.pend /\ call' = call
        BY <1>0, <1>5, <2>2 DEF Approve, GateT
      <3> QED BY <3>1 DEF PendingIsParked
    <2> QED BY <2>1, <2>2
  <1> QED BY <1>1, <1>2, <1>4, <1>5

LEMMA StopParks ==
    ASSUME TypeOK, PendingIsParked,
           Stop \/ StopTaken \/ StopAborts \/ StopDone \/ StopTasks \/ Terminate \/ Terminated
    PROVE  PendingIsParked'
  <1>0. /\ call \in CallT /\ gate \in GateT /\ ses.bg \in BOOLEAN
        /\ \A keep \in BOOLEAN : Reconciled(gate, keep) \in GateT /\ Reconciled(gate, keep).pend = gate.pend
    BY GateOf, Types DEF SesT
  <1>1. CASE Stop
    <2>1. CASE ses.run = None /\ ses.bg
      BY <1>1, <2>1 DEF Stop, PendingIsParked
    <2>2. CASE ~(ses.run = None /\ ses.bg)
      <3>1. PICK D : D = Denied(gate, ses.bg)
        OBVIOUS
      <3>2. PICK u : u = Unpended(IF ses.run = None THEN Reconciled(gate, ses.bg) ELSE gate, ses.bg)
        OBVIOUS
      <3>3. u \in GateT
        BY <1>0, <3>2, GateOf
      <3>4. gate' = [u EXCEPT !.pend = gate.pend \ D, !.early = NoEarly] /\ call' = Answered(D, FALSE)
        BY <1>1, <2>2, <3>1, <3>2 DEF Stop
      <3>5. gate'.pend = gate.pend \ D
        BY <3>3, <3>4 DEF GateT
      <3>6. \A c \in Calls : call'[c].pc = IF c \in D THEN "decided" ELSE call[c].pc
        BY <1>0, <3>4 DEF Answered, CallT, Request
      <3> QED BY <3>5, <3>6, Unparked
    <2> QED BY <2>1, <2>2
  <1>2. CASE StopTaken
    <2>1. \A c \in Calls : call'[c].pc = call[c].pc
      BY <1>0, <1>2 DEF StopTaken, CallT, Request
    <2> QED BY <1>2, <2>1 DEF StopTaken, PendingIsParked
  <1>3. CASE StopAborts
    <2>1. PICK cs : cs = Cancelled(call, prov.slot)
      OBVIOUS
    <2>2. cs \in CallT /\ \A c \in Calls : cs[c].pc = call[c].pc
      BY <1>0, <2>1, CancelledOf
    <2>3. CASE ses.bg /\ ses.run = None
      <3>1. PICK g : g = Reconciled(gate, FALSE)
        OBVIOUS
      <3>2. PICK D : D = Denied(g, FALSE)
        OBVIOUS
      <3>3. gate' = Unpended(g, FALSE)
            /\ call' = [c \in Calls |-> IF c \in D THEN [cs[c] EXCEPT !.pc = "decided", !.yes = FALSE] ELSE cs[c]]
        BY <1>3, <2>1, <2>3, <3>1, <3>2 DEF StopAborts
      <3>4. gate'.pend = gate.pend \ D
        BY <1>0, <3>1, <3>2, <3>3, GateOf
      <3>5. \A c \in Calls : call'[c].pc = IF c \in D THEN "decided" ELSE cs[c].pc
        BY <2>2, <3>3 DEF CallT, Request
      <3> QED BY <2>2, <3>4, <3>5, Unparked
    <2>4. CASE ~(ses.bg /\ ses.run = None)
      <3>1. call' = cs /\ gate' = gate
        BY <1>3, <2>1, <2>4 DEF StopAborts
      <3> QED BY <2>2, <3>1 DEF PendingIsParked
    <2> QED BY <2>3, <2>4
  <1>4. CASE StopDone
    <2>1. CASE ses.run # stop.run
      BY <1>4, <2>1 DEF StopDone, PendingIsParked
    <2>2. CASE ses.run = stop.run
      <3>1. PICK D : D = IF ses.bg THEN {} ELSE gate.pend
        OBVIOUS
      <3>2. call' = Answered(D, FALSE) /\ gate' = [gate EXCEPT !.pend = @ \ D]
        BY <1>4, <2>2, <3>1 DEF StopDone
      <3>3. gate'.pend = gate.pend \ D
        BY <1>0, <3>2 DEF GateT
      <3>4. \A c \in Calls : call'[c].pc = IF c \in D THEN "decided" ELSE call[c].pc
        BY <1>0, <3>2 DEF Answered, CallT, Request
      <3> QED BY <3>3, <3>4, Unparked
    <2> QED BY <2>1, <2>2
  <1>5. CASE StopTasks
    <2>1. CASE ses.run # None
      BY <1>5, <2>1 DEF StopTasks, PendingIsParked
    <2>2. CASE ses.run = None
      <3>1. PICK g : g = Reconciled(gate, FALSE)
        OBVIOUS
      <3>2. gate' = [g EXCEPT !.pend = {}, !.early = NoEarly] /\ call' = Answered(gate.pend, FALSE)
        BY <1>5, <2>2, <3>1 DEF StopTasks
      <3>3. gate'.pend = gate.pend \ gate.pend
        BY <1>0, <3>1, <3>2 DEF GateT
      <3>4. \A c \in Calls : call'[c].pc = IF c \in gate.pend THEN "decided" ELSE call[c].pc
        BY <1>0, <3>2 DEF Answered, CallT, Request
      <3> QED BY <3>3, <3>4, Unparked
    <2> QED BY <2>1, <2>2
  <1>6. CASE Terminate
    <2>1. gate'.pend = gate.pend /\ call' = call
      BY <1>0, <1>6 DEF Terminate, GateT
    <2> QED BY <2>1 DEF PendingIsParked
  <1>7. CASE Terminated
    BY <1>7, HardStopParks DEF Terminated
  <1> QED BY <1>1, <1>2, <1>3, <1>4, <1>5, <1>6, <1>7

\* Every step keeps the approvals and the waiting calls the same set.
LEMMA ParkStep ==
    ASSUME TypeOK, PendingIsParked, [Next]_vars
    PROVE  PendingIsParked'
  <1>0. ses.bg \in BOOLEAN
    BY Types DEF SesT
  <1>1. ASSUME UNCHANGED <<gate, call>> PROVE PendingIsParked'
    BY <1>1 DEF PendingIsParked
  <1>2. CASE SendStep \/ \E s \in Sends : Submit(s) \/ SendFails(s)
    BY <1>1, <1>2, HardStopParks DEF SendStep, Submit, SendFails, Begin, BeginOnStalled, Recovered, Refuse,
       Join, Start, PushNow, Merge, Prepare
  <1>3. CASE ReaderStep
    <2> SUFFICES ASSUME NEW r \in Runs, ReadTool(r) \/ Absorb(r) \/ ReadEnd(r) \/ Break(r) \/ Exit(r)
                 PROVE  PendingIsParked'
      BY <1>3 DEF ReaderStep
    <2>1. CASE ReadTool(r)
      <3>1. queue[r] \in Seq(Events) /\ gate \in GateT
        BY Types DEF QueueT
      <3>2. PICK e : e = Head(queue[r])
        OBVIOUS
      <3>3. e.call \in Calls
        BY <2>1, <3>1, <3>2 DEF ReadTool, Events
      <3>4. gate' = IF e.kind = "tool" THEN Shown(gate, e.call, TRUE) ELSE Finished(gate, e.call)
        BY <2>1, <3>2 DEF ReadTool
      <3>5. gate'.pend = gate.pend
        BY <3>1, <3>3, <3>4, ShownOf
      <3> QED BY <2>1, <3>5 DEF ReadTool, PendingIsParked
    <2>2. CASE Absorb(r) \/ Exit(r)
      BY <1>0, <2>2, SwipeParks DEF Absorb, Exit
    <2>3. CASE ReadEnd(r) \/ Break(r)
      BY <1>1, <2>3 DEF ReadEnd, Break
    <2> QED BY <2>1, <2>2, <2>3
  <1>4. CASE \E r \in Runs : Watchdog(r)
    BY <1>1, <1>4, HardStopParks DEF Watchdog
  <1>5. CASE GateStep \/ \E c \in Calls : Approve(c)
    BY <1>5, GateParksStep DEF GateStep
  <1>6. CASE ProviderStep
    BY <1>1, <1>6, DrainedParks DEF ProviderStep, LoopEnds, TornDown
  <1>7. CASE StopStep \/ Stop \/ Terminate
    BY <1>7, StopParks DEF StopStep
  <1>8. CASE CliStep
    BY <1>8, CliParks
  <1>9. CASE UNCHANGED vars
    BY <1>1, <1>9 DEF vars
  <1> QED BY <1>2, <1>3, <1>4, <1>5, <1>6, <1>7, <1>8, <1>9 DEF Next

(* Every approval shown as pending has a call waiting on it and every waiting call is *)
(* shown: approve, the abort of a call, the denials of a Stop, of a termination, of a *)
(* dead backend and the sweep at each boundary settle both or neither (session.ts).   *)
THEOREM PendingAlwaysParked == Spec => []PendingIsParked
  <1>1. Init => PendingIsParked
    BY DEF Init, PendingIsParked
  <1>2. TypeOK /\ PendingIsParked /\ [Next]_vars => PendingIsParked'
    BY ParkStep
  <1> QED BY <1>1, <1>2, Typed, PTL DEF Spec

-----------------------------------------------------------------------------
(* A turn's status, its run and its reader.                                    *)

\* Runs are numbered as they begin, so a run that begins is not the one that is active.
RunInv == WorkingHasReader /\ ses.run <= room.runs

\* A step that leaves the run, its reader and their number alone, and starts no turn status.
LEMMA RunKept ==
    ASSUME TypeOK, TypeOK', RunInv, ses'.run = ses.run, room'.runs = room.runs,
           ses.run # None => reader'[ses.run] \in {"reading", "ending"},
           ses'.status \in Turn => ses.status \in Turn \/ ses.run # None
    PROVE  RunInv'
  BY DEF RunInv, WorkingHasReader

LEMMA RunDropped ==
    ASSUME TypeOK, TypeOK', ses'.run = None, ses'.status \notin Turn
    PROVE  RunInv'
  <1>1. room'.runs \in 0..MaxRuns
    BY TypesNext DEF RoomT
  <1> QED BY <1>1, Constants DEF RunInv, WorkingHasReader, None

LEMMA RunBegun ==
    ASSUME TypeOK, TypeOK', NEW r \in Runs, ses'.run = r, reader' = [reader EXCEPT ![r] = "reading"],
           room'.runs = r
    PROVE  RunInv'
  <1>1. reader'[r] = "reading"
    BY Types DEF ReaderT
  <1> QED BY <1>1, RunsAre DEF RunInv, WorkingHasReader

LEMMA HardStopRun ==
    ASSUME TypeOK, TypeOK', HardStop
    PROVE  RunInv'
  <1>1. ses'.run = None /\ ses'.status = "idle"
    BY Types DEF HardStop, SesT
  <1> QED BY <1>1, RunDropped DEF Turn

LEMMA AdoptRun ==
    ASSUME TypeOK, TypeOK', RunInv, NEW events, Adopt(events)
    PROVE  RunInv'
  <1>1. PICK r : r = room.runs + 1
    OBVIOUS
  <1>2. room.runs \in 0..MaxRuns /\ room.runs < MaxRuns /\ room' = [room EXCEPT !.runs = r] /\ ses.run \in Runs \cup {None}
    BY <1>1, Types DEF Adopt, RoomT, SesT
  <1>3. r \in Runs /\ room'.runs = r
    BY <1>1, <1>2, Constants, Types DEF Runs, RoomT
  <1>4. CASE ses.run = None
    <2>1. ses' = [ses EXCEPT !.run = r, !.status = "thinking"] /\ reader' = [reader EXCEPT ![r] = "reading"]
      BY <1>1, <1>4 DEF Adopt
    <2>2. ses'.run = r
      BY <2>1, Types DEF SesT
    <2> QED BY <1>3, <2>1, <2>2, RunBegun
  <1>5. CASE ses.run # None
    <2>1. ses' = ses /\ reader' = [reader EXCEPT ![r] = "gone"]
      BY <1>1, <1>5 DEF Adopt
    <2>2. ses.run <= room.runs /\ ses.run \in Runs
      BY <1>2, <1>5 DEF RunInv
    <2>3. ses.run # r /\ ses.run <= r
      BY <1>1, <1>2, <2>2, Constants DEF Runs
    <2>4. reader'[ses.run] = reader[ses.run]
      BY <2>1, <2>2, <2>3, Types DEF ReaderT
    <2> QED BY <1>3, <2>1, <2>3, <2>4 DEF RunInv, WorkingHasReader
  <1> QED BY <1>4, <1>5

LEMMA EmitRun ==
    ASSUME TypeOK, TypeOK', RunInv, NEW e \in Events, Emit(e)
    PROVE  RunInv'
  <1>1. CASE prov.cur # None
    BY <1>1, RunKept DEF Emit, Queue, RunInv, WorkingHasReader
  <1>2. CASE prov.cur = None /\ e.kind = "tool" /\ e.call \notin Background
    BY <1>2, AdoptRun DEF Emit
  <1>3. CASE prov.cur = None /\ ~(e.kind = "tool" /\ e.call \notin Background)
    BY <1>3, RunKept DEF Emit, Between, RunInv, WorkingHasReader
  <1> QED BY <1>1, <1>2, <1>3

LEMMA RunStill ==
    ASSUME RunInv, UNCHANGED <<ses, reader>>, room'.runs = room.runs
    PROVE  RunInv'
  BY DEF RunInv, WorkingHasReader

LEMMA DrainedRun ==
    ASSUME TypeOK, TypeOK', RunInv, Drained, UNCHANGED <<reader, room>>
    PROVE  RunInv'
  <1>1. ses'.run = ses.run /\ (ses'.status = ses.status \/ ses'.status = "idle")
    BY Types DEF Drained, SesT
  <1>2. ses.run # None => reader'[ses.run] \in {"reading", "ending"}
    BY DEF RunInv, WorkingHasReader
  <1> QED BY <1>1, <1>2, RunKept DEF Turn

LEMMA SendRun ==
    ASSUME TypeOK, TypeOK', RunInv, NEW s \in Sends,
           Submit(s) \/ SendFails(s) \/ Begin(s) \/ BeginOnStalled(s) \/ Recovered(s)
           \/ Refuse(s) \/ Join(s) \/ Start(s)
    PROVE  RunInv'
  <1>0. ses \in SesT /\ (ses.run # None => reader[ses.run] \in {"reading", "ending"})
    BY Types DEF RunInv, WorkingHasReader
  <1>1. ASSUME NEW status, NEW fate, PushNow(s, status, fate), ses.run # None PROVE RunInv'
    <2>1. ses'.run = ses.run /\ UNCHANGED <<reader, room>>
      BY <1>0, <1>1 DEF PushNow, SesT
    <2> QED BY <1>0, <1>1, <2>1, RunKept
  <1>2. ASSUME Merge(s), ses.run # None PROVE RunInv'
    <2>1. ses'.run = ses.run /\ UNCHANGED <<reader, room>>
      BY <1>0, <1>2 DEF Merge, SesT
    <2> QED BY <1>0, <1>2, <2>1, RunKept
  <1>3. CASE Prepare(s) \/ Submit(s) \/ Refuse(s)
    BY <1>3, RunStill DEF Prepare, Submit, Refuse
  <1>4. CASE SendFails(s)
    <2>1. ses'.run = ses.run /\ (ses'.status = "error" \/ ses'.status = "idle")
      BY <1>0, <1>4 DEF SendFails, SesT
    <2>2. room'.runs = room.runs /\ reader' = reader
      BY <1>4, Types DEF SendFails, RoomT
    <2> QED BY <1>0, <2>1, <2>2, RunKept DEF Turn
  <1>5. CASE Begin(s)
    BY <1>1, <1>2, <1>3, <1>5 DEF Begin
  <1>6. CASE BeginOnStalled(s)
    BY <1>6, HardStopRun DEF BeginOnStalled
  <1>7. CASE Recovered(s)
    BY <1>1, <1>2, <1>3, <1>7 DEF Recovered
  <1>8. CASE Join(s)
    BY <1>1, <1>8 DEF Join
  <1>9. CASE Start(s)
    <2>1. PICK r : r = room.runs + 1
      OBVIOUS
    <2>2. room.runs \in 0..MaxRuns /\ room.runs < MaxRuns
      BY <1>9, Types DEF Start, RoomT
    <2>3. r \in Runs
      BY <2>1, <2>2, Constants DEF Runs
    <2>4. ses' = [ses EXCEPT !.run = r, !.status = "thinking"] /\ reader' = [reader EXCEPT ![r] = "reading"]
          /\ room' = [room EXCEPT !.runs = r]
      BY <1>9, <2>1 DEF Start
    <2>5. ses'.run = r /\ room'.runs = r
      BY <1>0, <2>4, Types DEF SesT, RoomT
    <2> QED BY <2>3, <2>4, <2>5, RunBegun
  <1> QED BY <1>3, <1>4, <1>5, <1>6, <1>7, <1>8, <1>9

LEMMA ReaderRun ==
    ASSUME TypeOK, TypeOK', RunInv, NEW r \in Runs,
           ReadTool(r) \/ Absorb(r) \/ ReadEnd(r) \/ Break(r) \/ Exit(r) \/ Watchdog(r)
    PROVE  RunInv'
  <1>0. /\ ses \in SesT /\ reader \in ReaderT
        /\ ses.run \in Runs \cup {None} /\ (ses.run # None => reader[ses.run] \in {"reading", "ending"})
    BY Types DEF SesT, RunInv, WorkingHasReader
  <1>1. CASE ReadTool(r) \/ Absorb(r)
    <2>1. ses'.run = ses.run /\ UNCHANGED <<reader, room>> /\ ses.run # None
      BY <1>0, <1>1, RunsAre DEF ReadTool, Absorb, SesT
    <2> QED BY <1>0, <2>1, RunKept
  <1>2. CASE ReadEnd(r) \/ Break(r)
    <2>1. ses'.run = ses.run /\ room' = room /\ reader' = [reader EXCEPT ![r] = "ending"]
      BY <1>0, <1>2 DEF ReadEnd, Break, SesT
    <2>2. ses'.status \in Turn => ses.status \in Turn \/ ses.run # None
      BY <1>0, <1>2, RunsAre DEF ReadEnd, Break
    <2>3. ses.run # None => reader'[ses.run] \in {"reading", "ending"}
      BY <1>0, <2>1 DEF ReaderT
    <2> QED BY <2>1, <2>2, <2>3, RunKept
  <1>3. CASE Exit(r)
    <2>1. CASE ses.run = r
      <3>1. ses'.run = None /\ ses'.status \notin Turn
        BY <1>0, <1>3, <2>1 DEF Exit, SesT, Rest, Turn
      <3> QED BY <3>1, RunDropped
    <2>2. CASE ses.run # r
      <3>1. ses'.run = ses.run /\ ses'.status = ses.status /\ room' = room
        BY <1>0, <1>3, <2>2 DEF Exit, SesT
      <3>2. ses.run # None => reader'[ses.run] \in {"reading", "ending"}
        BY <1>0, <1>3, <2>2 DEF Exit, ReaderT
      <3> QED BY <3>1, <3>2, RunKept
    <2> QED BY <2>1, <2>2
  <1>4. CASE Watchdog(r)
    <2>1. CASE ses.run = r
      BY <1>4, <2>1, HardStopRun DEF Watchdog
    <2>2. CASE ses.run # r
      <3>1. ses' = ses /\ room' = room /\ reader' = [reader EXCEPT ![r] = "ending"]
        BY <1>4, <2>2 DEF Watchdog
      <3>2. ses.run # None => reader'[ses.run] \in {"reading", "ending"}
        BY <1>0, <2>2, <3>1 DEF ReaderT
      <3> QED BY <3>1, <3>2, RunKept
    <2> QED BY <2>1, <2>2
  <1> QED BY <1>1, <1>2, <1>3, <1>4

LEMMA StopRun ==
    ASSUME TypeOK, TypeOK', RunInv,
           Stop \/ StopTaken \/ StopAborts \/ StopDone \/ StopTasks \/ Terminate \/ Terminated
    PROVE  RunInv'
  <1>0. ses \in SesT /\ (ses.run # None => reader[ses.run] \in {"reading", "ending"})
    BY Types DEF RunInv, WorkingHasReader
  <1>1. ASSUME ses'.run = ses.run, UNCHANGED reader, room'.runs = room.runs,
               ses'.status \in Turn => ses.status \in Turn \/ ses.run # None
        PROVE  RunInv'
    BY <1>0, <1>1, RunKept
  <1>a. \A pend : Rest(pend) \notin Turn
    BY DEF Rest, Turn
  <1>2. CASE Stop
    <2>1. ses'.run = ses.run /\ (ses'.status = ses.status \/ \E pend : ses'.status = Rest(pend))
      <3>1. CASE ses.run = None /\ ses.bg
        BY <1>0, <1>2, <3>1 DEF Stop, SesT
      <3>2. CASE ~(ses.run = None /\ ses.bg)
        <4>1. ses' = [ses EXCEPT !.stopGen = @ + 1, !.midTurn = 0,
                      !.status = IF ses.run # None \/ @ = "error" THEN @ ELSE Rest(gate'.pend)]
          BY <1>2, <3>2 DEF Stop
        <4> QED BY <1>0, <4>1 DEF SesT
      <3> QED BY <3>1, <3>2
    <2>2. UNCHANGED reader /\ room'.runs = room.runs
      BY <1>2, Types DEF Stop, RoomT
    <2> QED BY <1>1, <1>a, <2>1, <2>2
  <1>3. CASE StopTaken
    BY <1>3, RunStill DEF StopTaken
  <1>4. CASE StopAborts
    <2>1. ses'.run = ses.run /\ (ses'.status = ses.status \/ ses'.status = "idle")
      BY <1>0, <1>4 DEF StopAborts, SesT
    <2> QED BY <1>1, <1>4, <2>1 DEF StopAborts, Turn
  <1>5. CASE StopDone
    <2>1. ses'.run = ses.run /\ (ses'.status = ses.status \/ \E pend : ses'.status = Rest(pend))
      BY <1>0, <1>5 DEF StopDone, SesT
    <2> QED BY <1>1, <1>5, <1>a, <2>1 DEF StopDone
  <1>6. CASE StopTasks
    <2>1. ses'.run = ses.run /\ (ses'.status = ses.status \/ ses'.status = "idle")
      BY <1>0, <1>6 DEF StopTasks, SesT
    <2> QED BY <1>1, <1>6, <2>1 DEF StopTasks, Turn
  <1>7. CASE Terminate
    <2>1. ses'.run = ses.run /\ ses'.status = ses.status /\ room'.runs = room.runs
      BY <1>0, <1>7, Types DEF Terminate, SesT, RoomT
    <2> QED BY <1>1, <1>7, <2>1 DEF Terminate
  <1>8. CASE Terminated
    BY <1>8, HardStopRun DEF Terminated
  <1> QED BY <1>2, <1>3, <1>4, <1>5, <1>6, <1>7, <1>8

\* Every step keeps the turn, its reader and its number.
LEMMA RunStep ==
    ASSUME TypeOK, TypeOK', RunInv, [Next]_vars
    PROVE  RunInv'
  <1>0. ses \in SesT /\ (ses.run # None => reader[ses.run] \in {"reading", "ending"})
    BY Types DEF RunInv, WorkingHasReader
  <1>1. CASE SendStep \/ \E s \in Sends : Submit(s) \/ SendFails(s)
    BY <1>1, SendRun DEF SendStep
  <1>2. CASE ReaderStep \/ \E r \in Runs : Watchdog(r)
    BY <1>2, ReaderRun DEF ReaderStep
  <1>3. CASE GateStep \/ \E c \in Calls : Approve(c)
    <2> SUFFICES ASSUME NEW c \in Calls,
                        GateAllows(c) \/ GateParks(c) \/ GateReturn(c) \/ Withdraw(c) \/ Approve(c)
                 PROVE  RunInv'
      BY <1>3 DEF GateStep
    <2>1. UNCHANGED <<reader, room>>
      BY DEF GateAllows, GateParks, GateReturn, Withdraw, Approve
    <2>2. ses'.run = ses.run /\ (ses'.status \in Turn => ses.status \in Turn \/ ses.run # None)
      <3>1. CASE GateAllows(c) \/ GateParks(c)
        BY <1>0, <3>1 DEF GateAllows, GateParks, SesT, Turn
      <3>2. CASE GateReturn(c)
        BY <1>0, <3>2 DEF GateReturn, AfterAnswer, SesT, Turn
      <3>3. CASE Withdraw(c) \/ Approve(c)
        BY <3>3 DEF Withdraw, Approve
      <3> QED BY <3>1, <3>2, <3>3
    <2> QED BY <1>0, <2>1, <2>2, RunKept
  <1>4. CASE ProviderStep
    BY <1>4, RunStill, DrainedRun DEF ProviderStep, LoopEnds, TornDown
  <1>5. CASE StopStep \/ Stop \/ Terminate
    BY <1>5, StopRun DEF StopStep
  <1>6. CASE CliStep
    <2> SUFFICES ASSUME NEW g \in Gens,
                        \/ CliBegin(g) \/ CliSpeak(g) \/ CliDone(g) \/ CliPreempt(g)
                        \/ CliTask(g) \/ CliSettle(g) \/ CliCrash(g)
                        \/ \E c \in Calls : CliTool(g, c) \/ CliToolDone(g, c)
                 PROVE  RunInv'
      BY <1>6 DEF CliStep
    <2>1. CASE CliBegin(g) \/ CliPreempt(g)
      BY <2>1, RunStill DEF CliBegin, CliPreempt
    <2>2. CASE CliSpeak(g)
      BY <2>2, AdoptRun DEF CliSpeak
    <2>3. CASE CliTask(g)
      <3>1. ses'.run = ses.run /\ ses'.status = ses.status /\ UNCHANGED <<reader, room>>
        BY <1>0, <2>3 DEF CliTask, SesT
      <3> QED BY <1>0, <3>1, RunKept
    <2>4. CASE CliSettle(g)
      BY <2>4, DrainedRun DEF CliSettle
    <2>5. CASE CliCrash(g)
      BY <2>5, RunStill, Types DEF CliCrash, RoomT
    <2>6. CASE CliDone(g)
      BY <2>6, EventsAre, EmitRun, RunStill DEF CliDone
    <2>7. ASSUME NEW c \in Calls, CliTool(g, c) \/ CliToolDone(g, c) PROVE RunInv'
      BY <2>7, EventsAre, EmitRun, RunStill DEF CliTool, CliToolDone
    <2> QED BY <2>1, <2>2, <2>3, <2>4, <2>5, <2>6, <2>7
  <1>7. CASE UNCHANGED vars
    BY <1>7, RunStill DEF vars
  <1> QED BY <1>1, <1>2, <1>3, <1>4, <1>5, <1>6, <1>7 DEF Next

(* A session that shows a turn's status has a turn, and that turn a reader that is    *)
(* reading it or on its way out: no order of a Stop, a backend's death, a termination, *)
(* a turn of the backend's own and the watchdog leaves "thinking" with nobody to end   *)
(* it (runTurn, #adoptTurn, #consumeEvents and its finally, session.ts).               *)
THEOREM WorkingAlwaysRead == Spec => []WorkingHasReader
  <1>1. Init => RunInv
    BY Constants DEF Init, RunInv, WorkingHasReader, Turn, None
  <1>2. TypeOK /\ TypeOK' /\ RunInv /\ [Next]_vars => RunInv'
    BY RunStep
  <1>3. RunInv => WorkingHasReader
    BY DEF RunInv
  <1> QED BY <1>1, <1>2, <1>3, Typed, PTL DEF Spec

-----------------------------------------------------------------------------
(* What the backend still owes the turn.                                       *)

\* The unread ends of a queue, and with them what a process has begun or not yet begun.
EndSet(q) == {i \in 1 .. Len(q) : q[i].kind \in {"done", "error"}}
Ends(q) == Cardinality(EndSet(q))
Backlog(q, k) == Ends(q) + k.owed + (IF k.busy THEN 1 ELSE 0)

\* Owed, with the queue and the process as arguments.
LEMMA OwedIs == \A r \in Runs : Owed(r) = Backlog(queue[r], cli[prov.slot])
  BY DEF Owed, Backlog, Ends, EndSet

\* The ends of a queue can be counted.
LEMMA EndsNat ==
    ASSUME NEW q \in Seq(Events)
    PROVE  Ends(q) \in Nat /\ IsFiniteSet(EndSet(q))
  <1>1. IsFiniteSet(1 .. Len(q)) /\ EndSet(q) \subseteq 1 .. Len(q)
    BY FS_Interval DEF EndSet
  <1>2. IsFiniteSet(EndSet(q))
    BY <1>1, FS_Subset
  <1> QED BY <1>2, FS_CardinalityType DEF Ends

\* An event queued never lowers the count, and an end raises it.
LEMMA EndsAppend ==
    ASSUME NEW q \in Seq(Events), NEW e \in Events
    PROVE  /\ Ends(Append(q, e)) >= Ends(q)
           /\ e.kind \in {"done", "error"} => Ends(Append(q, e)) = Ends(q) + 1
  <1>1. PICK n : n = Len(q) + 1
    OBVIOUS
  <1>2. n \in Nat /\ n \notin EndSet(q) /\ 1 .. n = (1 .. Len(q)) \cup {n}
    BY <1>1 DEF EndSet
  <1>3. /\ Append(q, e) \in Seq(Events) /\ Len(Append(q, e)) = n /\ Append(q, e)[n] = e
        /\ \A i \in 1 .. Len(q) : Append(q, e)[i] = q[i]
    BY <1>1
  <1>4. CASE e.kind \in {"done", "error"}
    <2>1. EndSet(Append(q, e)) = EndSet(q) \cup {n}
      BY <1>2, <1>3, <1>4 DEF EndSet
    <2>2. Cardinality(EndSet(q) \cup {n}) = Cardinality(EndSet(q)) + 1
      BY <1>2, EndsNat, FS_AddElement
    <2>3. Ends(Append(q, e)) = Ends(q) + 1
      BY <2>1, <2>2 DEF Ends
    <2> QED BY <2>3, EndsNat
  <1>5. CASE e.kind \notin {"done", "error"}
    <2>1. EndSet(Append(q, e)) = EndSet(q)
      BY <1>2, <1>3, <1>5 DEF EndSet
    <2> QED BY <1>5, <2>1, EndsNat DEF Ends
  <1> QED BY <1>4, <1>5

\* An event read lowers the count only when it is an end.
LEMMA EndsTail ==
    ASSUME NEW q \in Seq(Events), q # <<>>
    PROVE  Ends(Tail(q)) = Ends(q) - (IF Head(q).kind \in {"done", "error"} THEN 1 ELSE 0)
  <1>1. PICK t : t = Tail(q)
    OBVIOUS
  <1>2. /\ t \in Seq(Events) /\ Len(q) \in Nat \ {0} /\ Len(t) = Len(q) - 1 /\ Head(q) = q[1]
        /\ \A i \in 1 .. Len(t) : t[i] = q[i + 1]
    BY <1>1
  <1>3. PICK f : f = [i \in EndSet(t) |-> i + 1]
    OBVIOUS
  <1>4. EndSet(q) \ {1} = {i + 1 : i \in EndSet(t)}
    <2>1. ASSUME NEW i \in EndSet(q) \ {1} PROVE \E j \in EndSet(t) : i = j + 1
      <3>1. i \in 1 .. Len(q) /\ i # 1 /\ q[i].kind \in {"done", "error"}
        BY <2>1 DEF EndSet
      <3>2. i - 1 \in 1 .. Len(t) /\ t[i - 1] = q[i]
        BY <1>2, <3>1
      <3>3. i - 1 \in EndSet(t) /\ i = (i - 1) + 1
        BY <3>1, <3>2 DEF EndSet
      <3> QED BY <3>3
    <2>2. ASSUME NEW j \in EndSet(t) PROVE j + 1 \in EndSet(q) \ {1}
      BY <1>2, <2>2 DEF EndSet
    <2> QED BY <2>1, <2>2
  <1>5. f \in Bijection(EndSet(t), EndSet(q) \ {1})
    <2>1. EndSet(t) \subseteq Nat
      BY DEF EndSet
    <2>2. f \in [EndSet(t) -> EndSet(q) \ {1}]
      BY <1>3, <1>4
    <2>3. \A i, j \in EndSet(t) : f[i] = f[j] => i = j
      BY <1>3, <2>1
    <2>4. \A k \in EndSet(q) \ {1} : \E i \in EndSet(t) : f[i] = k
      BY <1>3, <1>4
    <2> QED BY <2>2, <2>3, <2>4 DEF Bijection, Injection, Surjection, IsInjective
  <1>6. IsFiniteSet(EndSet(q) \ {1}) /\ Cardinality(EndSet(q) \ {1}) = Ends(t)
    <2>1. IsFiniteSet(EndSet(t)) /\ ExistsBijection(EndSet(t), EndSet(q) \ {1})
      BY <1>2, <1>5, EndsNat DEF ExistsBijection
    <2> QED BY <2>1, FS_Bijection DEF Ends
  <1>7. CASE Head(q).kind \in {"done", "error"}
    <2>1. 1 \in EndSet(q)
      BY <1>2, <1>7 DEF EndSet
    <2>2. Cardinality(EndSet(q) \ {1}) = Cardinality(EndSet(q)) - 1
      BY <2>1, EndsNat, FS_RemoveElement
    <2> QED BY <1>1, <1>6, <1>7, <2>2 DEF Ends
  <1>8. CASE Head(q).kind \notin {"done", "error"}
    <2>1. 1 \notin EndSet(q)
      BY <1>2, <1>8 DEF EndSet
    <2>2. EndSet(q) \ {1} = EndSet(q)
      BY <2>1
    <2>3. Ends(t) = Ends(q) /\ Ends(q) \in Nat
      BY <1>6, <2>2, EndsNat DEF Ends
    <2> QED BY <1>1, <1>8, <2>3
  <1> QED BY <1>7, <1>8

(* The one step the count does not survive: between turns, a process the provider has *)
(* let go of, whose loop is still alive, asks for a tool. canUseTool emits without the *)
(* check of the generation that the consumer of the loop makes, so the call opens a    *)
(* turn to which the process in the slot owes no end; the watchdog ends it.            *)
OrphanTurn ==
    /\ prov.cur = None /\ ses.run = None
    /\ \E g \in Gens, c \in Calls \ Background : ~Heard(g) /\ CliTool(g, c)

\* Between turns no end is waited for; the slot holds the newest process; an open turn is the provider's.
Reading(r) == ses.run = r /\ reader[r] = "reading" /\ r \notin prov.closed
SlotInv ==
    /\ ses.run = None => ses.midTurn = 0
    /\ prov.slot # None => prov.slot = prov.gen
    /\ \A r \in Runs : Reading(r) => prov.cur = r

\* The provider's side of a step that opens no turn and ends the provider's own turn at most.
LEMMA SlotKept ==
    ASSUME TypeOK, TypeOK', SlotInv,
           ses'.run = None => ses'.midTurn = 0,
           ses'.run # None => ses'.run = ses.run,
           prov'.slot # None => prov'.slot = prov.slot /\ prov'.gen = prov.gen,
           \A r \in Runs : Reading(r)' => Reading(r) /\ (prov'.cur = prov.cur \/ r # prov.cur)
    PROVE  SlotInv'
  BY DEF SlotInv

\* A step that leaves the provider and the readers alone.
LEMMA SlotStill ==
    ASSUME SlotInv, UNCHANGED <<reader, prov>>, ses'.run = ses.run, ses'.run = None => ses'.midTurn = 0
    PROVE  SlotInv'
  BY DEF SlotInv, Reading

LEMMA ShutOf ==
    ASSUME NEW p \in ProvT
    PROVE  /\ Shut(p).cur = None
           /\ \A r \in Runs : r \notin Shut(p).closed => r \notin p.closed /\ r # p.cur
           /\ \A r : Ended(p, r).cur \in {p.cur, None} /\ (Ended(p, r).cur # p.cur => p.cur = r)
           /\ \A r : p.closed \subseteq Ended(p, r).closed
  <1>1. Shut(p).cur = None /\ \A r \in Runs : r \notin Shut(p).closed => r \notin p.closed /\ r # p.cur
    BY RunsAre DEF ProvT, Shut
  <1>2. ASSUME NEW r
        PROVE  Ended(p, r).cur \in {p.cur, None} /\ (Ended(p, r).cur # p.cur => p.cur = r)
               /\ p.closed \subseteq Ended(p, r).closed
    <2>1. CASE r # None /\ p.cur = r
      <3>1. PICK e : e = [p EXCEPT !.cur = None, !.closed = @ \cup {r}]
        OBVIOUS
      <3>2. e.cur = None /\ e.closed = p.closed \cup {r}
        BY <3>1 DEF ProvT
      <3> QED BY <2>1, <3>1, <3>2 DEF Ended
    <2>2. CASE ~(r # None /\ p.cur = r)
      BY <2>2 DEF Ended
    <2> QED BY <2>1, <2>2
  <1> QED BY <1>1, <1>2

LEMMA HardStopSlot ==
    ASSUME TypeOK, TypeOK', SlotInv, HardStop
    PROVE  SlotInv'
  <1>1. ses'.run = None /\ ses'.midTurn = 0
    BY Types DEF HardStop, SesT
  <1>2. prov'.slot = prov.slot /\ prov'.gen = prov.gen
    <2>1. PICK p : p = Ended(prov, ses.run)
      OBVIOUS
    <2>2. p \in ProvT /\ p.slot = prov.slot /\ p.gen = prov.gen
      BY <2>1, ProvOf, Types
    <2>3. prov' = Teardown(p)
      BY <2>1 DEF HardStop
    <2> QED BY <2>2, <2>3, ProvOf
  <1> QED BY <1>1, <1>2, RunsAre DEF SlotInv, Reading

LEMMA AdoptSlot ==
    ASSUME TypeOK, TypeOK', RunInv, SlotInv, NEW events, Adopt(events), prov.cur = None
    PROVE  SlotInv'
  <1>1. PICK r : r = room.runs + 1
    OBVIOUS
  <1>2. room.runs \in 0..MaxRuns /\ room.runs < MaxRuns /\ ses.run \in Runs \cup {None}
    BY Types DEF Adopt, RoomT, SesT
  <1>3. r \in Runs /\ r # ses.run
    BY <1>1, <1>2, Constants DEF Runs, RunInv, None
  <1>4. CASE ses.run = None
    <2>1. ses' = [ses EXCEPT !.run = r, !.status = "thinking"] /\ prov' = [prov EXCEPT !.cur = r]
      BY <1>1, <1>4 DEF Adopt
    <2>2. ses'.run = r /\ prov'.cur = r /\ prov'.slot = prov.slot /\ prov'.gen = prov.gen
      BY <2>1, Types DEF SesT, ProvT
    <2> QED BY <1>3, <2>2, RunsAre DEF SlotInv, Reading
  <1>5. CASE ses.run # None
    <2>1. ses' = ses /\ prov' = prov /\ reader' = [reader EXCEPT ![r] = "gone"]
      BY <1>1, <1>5 DEF Adopt
    <2>2. \A s \in Runs : Reading(s)' => Reading(s)
      BY <1>3, <2>1, Types DEF Reading, ReaderT
    <2> QED BY <1>5, <2>1, <2>2 DEF SlotInv
  <1> QED BY <1>4, <1>5

LEMMA EmitSlot ==
    ASSUME TypeOK, TypeOK', RunInv, SlotInv, NEW e \in Events, Emit(e)
    PROVE  SlotInv'
  <1>1. CASE prov.cur # None
    BY <1>1, SlotStill DEF Emit, Queue, SlotInv
  <1>2. CASE prov.cur = None /\ e.kind = "tool" /\ e.call \notin Background
    BY <1>2, AdoptSlot DEF Emit
  <1>3. CASE prov.cur = None /\ ~(e.kind = "tool" /\ e.call \notin Background)
    BY <1>3, SlotStill DEF Emit, Between, SlotInv
  <1> QED BY <1>1, <1>2, <1>3

LEMMA DrainedTurn ==
    ASSUME TypeOK, Drained
    PROVE  ses'.run = ses.run /\ ses'.midTurn = ses.midTurn
  BY Types DEF Drained, SesT

LEMMA SendSlot ==
    ASSUME TypeOK, TypeOK', SlotInv, NEW s \in Sends,
           Submit(s) \/ SendFails(s) \/ Begin(s) \/ BeginOnStalled(s) \/ Recovered(s)
           \/ Refuse(s) \/ Join(s) \/ Start(s)
    PROVE  SlotInv'
  <1>0. ses \in SesT /\ prov \in ProvT
    BY Types
  <1>1. ASSUME NEW status, NEW fate, PushNow(s, status, fate), ses.run # None PROVE SlotInv'
    <2>1. ses'.run = ses.run /\ UNCHANGED <<reader, prov>>
      BY <1>0, <1>1 DEF PushNow, SesT
    <2> QED BY <1>1, <2>1, SlotStill
  <1>2. ASSUME Merge(s), ses.run # None PROVE SlotInv'
    <2>1. ses'.run = ses.run /\ UNCHANGED <<reader, prov>>
      BY <1>0, <1>2 DEF Merge, SesT
    <2> QED BY <1>2, <2>1, SlotStill
  <1>3. CASE Prepare(s) \/ Submit(s) \/ Refuse(s)
    BY <1>3, SlotStill DEF Prepare, Submit, Refuse, SlotInv
  <1>4. CASE SendFails(s)
    <2>1. ses'.run = ses.run /\ ses'.midTurn = ses.midTurn /\ UNCHANGED <<reader, prov>>
      BY <1>0, <1>4 DEF SendFails, SesT
    <2> QED BY <2>1, SlotStill DEF SlotInv
  <1>5. CASE Begin(s)
    BY <1>1, <1>2, <1>3, <1>5 DEF Begin
  <1>6. CASE BeginOnStalled(s)
    BY <1>6, HardStopSlot DEF BeginOnStalled
  <1>7. CASE Recovered(s)
    BY <1>1, <1>2, <1>3, <1>7 DEF Recovered
  <1>8. CASE Join(s)
    BY <1>1, <1>8 DEF Join
  <1>9. CASE Start(s)
    <2>1. PICK r : r = room.runs + 1
      OBVIOUS
    <2>2. PICK reuse : reuse = (prov.slot # None /\ prov.open)
      OBVIOUS
    <2>3. PICK g : g = IF reuse THEN prov.slot ELSE prov.gen + 1
      OBVIOUS
    <2>4. PICK p : p = Shut(prov)
      OBVIOUS
    <2>5. p \in ProvT /\ p.slot = prov.slot /\ p.gen = prov.gen
      BY <1>0, <2>4, ProvOf
    <2>6. prov' = [p EXCEPT !.cur = r, !.slot = g, !.open = TRUE, !.gen = IF reuse THEN @ ELSE g]
          /\ ses' = [ses EXCEPT !.run = r, !.status = "thinking"]
      BY <1>9, <2>1, <2>2, <2>3, <2>4 DEF Start
    <2>7. ses'.run = r /\ prov'.cur = r /\ prov'.slot = g /\ prov'.gen = IF reuse THEN prov.gen ELSE g
      BY <1>0, <2>5, <2>6 DEF SesT, ProvT
    <2>8. prov'.slot = prov'.gen
      BY <2>2, <2>3, <2>7 DEF SlotInv
    <2>9. r # None
      BY <2>1, Types DEF RoomT, None
    <2> QED BY <2>7, <2>8, <2>9 DEF SlotInv, Reading
  <1> QED BY <1>3, <1>4, <1>5, <1>6, <1>7, <1>8, <1>9

LEMMA ReaderSlot ==
    ASSUME TypeOK, TypeOK', SlotInv, NEW r \in Runs,
           ReadTool(r) \/ Absorb(r) \/ ReadEnd(r) \/ Break(r) \/ Exit(r) \/ Watchdog(r)
    PROVE  SlotInv'
  <1>0. ses \in SesT /\ reader \in ReaderT /\ prov \in ProvT /\ r # None
    BY Types, RunsAre
  <1>1. CASE ReadTool(r) \/ Absorb(r)
    <2>1. ses'.run = r /\ ses.run = r /\ UNCHANGED <<reader, prov>>
      BY <1>0, <1>1 DEF ReadTool, Absorb, SesT
    <2> QED BY <1>0, <2>1, SlotStill
  <1>2. ASSUME ses'.run = ses.run, ses'.midTurn = ses.midTurn, prov' = prov,
               reader' = [reader EXCEPT ![r] = "ending"]
        PROVE  SlotInv'
    <2>1. \A q \in Runs : Reading(q)' => Reading(q)
      BY <1>0, <1>2 DEF Reading, ReaderT
    <2> QED BY <1>2, <2>1 DEF SlotInv
  <1>3. CASE ReadEnd(r) \/ Break(r)
    BY <1>0, <1>2, <1>3 DEF ReadEnd, Break, SesT
  <1>4. CASE Exit(r)
    <2>1. ses'.midTurn = 0 /\ ses'.run \in {ses.run, None}
      BY <1>0, <1>4 DEF Exit, SesT
    <2>2. PICK p : p = Ended(prov, r)
      OBVIOUS
    <2>3. p \in ProvT /\ p.slot = prov.slot /\ p.gen = prov.gen /\ prov.closed \subseteq p.closed
          /\ p.cur \in {prov.cur, None} /\ (p.cur # prov.cur => prov.cur = r)
      BY <1>0, <2>2, ProvOf, ShutOf
    <2>4. prov' = [p EXCEPT !.closed = @ \ {r}]
      BY <1>4, <2>2 DEF Exit
    <2>5. prov'.slot = prov.slot /\ prov'.gen = prov.gen /\ prov'.cur = p.cur /\ prov'.closed = p.closed \ {r}
      BY <2>3, <2>4 DEF ProvT
    <2>6. \A q \in Runs : Reading(q)' => q # r /\ Reading(q)
      <3>1. ASSUME NEW q \in Runs, Reading(q)' PROVE q # r /\ Reading(q)
        <4>1. q # r /\ reader'[q] = reader[q]
          BY <1>0, <1>4, <3>1 DEF Exit, Reading, ReaderT
        <4> QED BY <2>1, <2>3, <2>5, <3>1, <4>1, RunsAre DEF Reading
      <3> QED BY <3>1
    <2> QED BY <2>1, <2>3, <2>5, <2>6, SlotKept
  <1>5. CASE Watchdog(r)
    BY <1>2, <1>5, HardStopSlot DEF Watchdog
  <1> QED BY <1>1, <1>3, <1>4, <1>5

LEMMA StopSlot ==
    ASSUME TypeOK, TypeOK', SlotInv,
           Stop \/ StopTaken \/ StopAborts \/ StopDone \/ StopTasks \/ Terminate \/ Terminated
    PROVE  SlotInv'
  <1>0. ses \in SesT /\ prov \in ProvT
    BY Types
  <1>1. CASE Stop
    <2>1. ses'.run = ses.run /\ ses'.midTurn = 0
      <3>1. CASE ses.run = None /\ ses.bg
        BY <1>0, <1>1, <3>1 DEF Stop, SesT
      <3>2. CASE ~(ses.run = None /\ ses.bg)
        <4>1. ses' = [ses EXCEPT !.stopGen = @ + 1, !.midTurn = 0,
                      !.status = IF ses.run # None \/ @ = "error" THEN @ ELSE Rest(gate'.pend)]
          BY <1>1, <3>2 DEF Stop
        <4> QED BY <1>0, <4>1 DEF SesT
      <3> QED BY <3>1, <3>2
    <2>2. UNCHANGED <<reader, prov>>
      BY <1>1 DEF Stop
    <2> QED BY <2>1, <2>2, SlotStill
  <1>2. CASE StopTaken
    BY <1>2, SlotStill DEF StopTaken, SlotInv
  <1>3. CASE StopAborts
    <2>1. ses'.run = ses.run /\ ses'.midTurn = ses.midTurn /\ reader' = reader
      BY <1>0, <1>3 DEF StopAborts, SesT
    <2>2. prov'.slot = prov.slot /\ prov'.gen = prov.gen /\ prov'.cur = prov.cur /\ prov'.closed = prov.closed
      BY <1>0, <1>3 DEF StopAborts, ProvT
    <2> QED BY <2>1, <2>2 DEF SlotInv, Reading
  <1>4. CASE StopDone \/ StopTasks \/ Terminate
    <2>1. ses'.run = ses.run /\ ses'.midTurn = ses.midTurn
      BY <1>0, <1>4 DEF StopDone, StopTasks, Terminate, SesT
    <2>2. UNCHANGED <<reader, prov>>
      BY <1>4 DEF StopDone, StopTasks, Terminate
    <2> QED BY <2>1, <2>2, SlotStill DEF SlotInv
  <1>5. CASE Terminated
    BY <1>5, HardStopSlot DEF Terminated
  <1> QED BY <1>1, <1>2, <1>3, <1>4, <1>5

LEMMA LoopSlot ==
    ASSUME TypeOK, TypeOK', SlotInv, NEW g \in Gens, LoopEnds(g) \/ TornDown(g)
    PROVE  SlotInv'
  <1>0. ses \in SesT /\ prov \in ProvT
    BY Types
  <1>1. PICK p : p = IF TornDown(g) \/ Heard(g) THEN Shut(prov) ELSE prov
    OBVIOUS
  <1>2. p \in ProvT /\ p.slot = prov.slot /\ p.gen = prov.gen
    BY <1>0, <1>1, ProvOf
  <1>3. \A r \in Runs : r \notin p.closed => r \notin prov.closed /\ (p.cur = prov.cur \/ r # prov.cur)
    BY <1>0, <1>1, ShutOf
  <1>4. CASE LoopEnds(g) /\ ~TornDown(g)
    <2>1. prov' = IF p.slot = g THEN [p EXCEPT !.slot = None, !.open = FALSE] ELSE p
      BY <1>1, <1>4 DEF LoopEnds
    <2>2. prov'.cur = p.cur /\ prov'.closed = p.closed /\ prov'.gen = p.gen /\ prov'.slot \in {p.slot, None}
      BY <1>2, <2>1 DEF ProvT
    <2>3. ses'.run = ses.run /\ ses'.midTurn = ses.midTurn /\ reader' = reader
      BY <1>4, DrainedTurn DEF LoopEnds
    <2> QED BY <1>2, <1>3, <2>2, <2>3 DEF SlotInv, Reading
  <1>5. CASE TornDown(g)
    <2>1. prov' = [p EXCEPT !.tearing = @ \ {g}, !.slot = None, !.open = FALSE]
      BY <1>1, <1>5 DEF TornDown
    <2>2. prov'.cur = p.cur /\ prov'.closed = p.closed /\ prov'.slot = None
      BY <1>2, <2>1 DEF ProvT
    <2>3. UNCHANGED <<ses, reader>>
      BY <1>5 DEF TornDown
    <2> QED BY <1>3, <2>2, <2>3 DEF SlotInv, Reading
  <1> QED BY <1>4, <1>5

\* Every step keeps the slot with the newest process and the read turn with the provider.
LEMMA SlotStep ==
    ASSUME TypeOK, TypeOK', RunInv, SlotInv, [Next]_vars
    PROVE  SlotInv'
  <1>0. ses \in SesT
    BY Types
  <1>1. CASE SendStep \/ \E s \in Sends : Submit(s) \/ SendFails(s)
    BY <1>1, SendSlot DEF SendStep
  <1>2. CASE ReaderStep \/ \E r \in Runs : Watchdog(r)
    BY <1>2, ReaderSlot DEF ReaderStep
  <1>3. CASE GateStep \/ \E c \in Calls : Approve(c)
    <2> SUFFICES ASSUME NEW c \in Calls,
                        GateAllows(c) \/ GateParks(c) \/ GateReturn(c) \/ Withdraw(c) \/ Approve(c)
                 PROVE  SlotInv'
      BY <1>3 DEF GateStep
    <2>1. UNCHANGED <<reader, prov>>
      BY DEF GateAllows, GateParks, GateReturn, Withdraw, Approve
    <2>2. ses'.run = ses.run /\ ses'.midTurn = ses.midTurn
      BY <1>0 DEF GateAllows, GateParks, GateReturn, Withdraw, Approve, AfterAnswer, SesT
    <2> QED BY <2>1, <2>2, SlotStill DEF SlotInv
  <1>4. CASE ProviderStep
    BY <1>4, LoopSlot DEF ProviderStep
  <1>5. CASE StopStep \/ Stop \/ Terminate
    BY <1>5, StopSlot DEF StopStep
  <1>6. CASE CliStep
    <2> SUFFICES ASSUME NEW g \in Gens,
                        \/ CliBegin(g) \/ CliSpeak(g) \/ CliDone(g) \/ CliPreempt(g)
                        \/ CliTask(g) \/ CliSettle(g) \/ CliCrash(g)
                        \/ \E c \in Calls : CliTool(g, c) \/ CliToolDone(g, c)
                 PROVE  SlotInv'
      BY <1>6 DEF CliStep
    <2>1. CASE CliBegin(g) \/ CliPreempt(g) \/ CliCrash(g)
      BY <2>1, SlotStill DEF CliBegin, CliPreempt, CliCrash, SlotInv
    <2>2. CASE CliSpeak(g)
      BY <2>2, AdoptSlot DEF CliSpeak
    <2>3. CASE CliTask(g)
      <3>1. ses'.run = ses.run /\ ses'.midTurn = ses.midTurn /\ UNCHANGED <<reader, prov>>
        BY <1>0, <2>3 DEF CliTask, SesT
      <3> QED BY <3>1, SlotStill DEF SlotInv
    <2>4. CASE CliSettle(g)
      BY <2>4, DrainedTurn, SlotStill DEF CliSettle, SlotInv
    <2>5. CASE CliDone(g)
      BY <2>5, EventsAre, EmitSlot, SlotStill DEF CliDone, SlotInv
    <2>6. ASSUME NEW c \in Calls, CliTool(g, c) \/ CliToolDone(g, c) PROVE SlotInv'
      BY <2>6, EventsAre, EmitSlot, SlotStill DEF CliTool, CliToolDone, SlotInv
    <2> QED BY <2>1, <2>2, <2>3, <2>4, <2>5, <2>6
  <1>7. CASE UNCHANGED vars
    BY <1>7, SlotStill DEF vars, SlotInv
  <1> QED BY <1>1, <1>2, <1>3, <1>4, <1>5, <1>6, <1>7 DEF Next

-----------------------------------------------------------------------------
(* The reader never waits for more ends than it is owed.                       *)

\* The turns the bound speaks of: read, open at the provider, on a process that lives.
Counted(r) == Reading(r) /\ PushLands /\ Alive(prov.slot)

LEMMA CountedOwed == AbsorbsOwedEnds <=> \A r \in Runs : Counted(r) => ses.midTurn < Owed(r)
  BY DEF AbsorbsOwedEnds, Counted, Reading

LEMMA CountedOwedNext == AbsorbsOwedEnds' <=> \A r \in Runs : Counted(r)' => ses'.midTurn < Owed(r)'
  BY DEF AbsorbsOwedEnds, Counted, Reading

LEMMA OwedNext == \A r \in Runs : Owed(r)' = Backlog(queue'[r], cli'[prov'.slot])
  BY DEF Owed, Backlog, Ends, EndSet

LEMMA BacklogNat ==
    ASSUME NEW q \in Seq(Events), NEW k \in Process
    PROVE  Backlog(q, k) \in Nat
  BY EndsNat DEF Backlog, Process

\* A step after which every counted turn was counted, and waits for no more, out of no less.
LEMMA OwedKept ==
    ASSUME TypeOK, TypeOK', AbsorbsOwedEnds,
           \A r \in Runs : Counted(r)' =>
              /\ Counted(r) /\ ses'.midTurn <= ses.midTurn
              /\ Backlog(queue[r], cli[prov.slot]) <= Backlog(queue'[r], cli'[prov'.slot])
    PROVE  AbsorbsOwedEnds'
  <1>1. ASSUME NEW r \in Runs, Counted(r)' PROVE ses'.midTurn < Owed(r)'
    <2>1. ses.midTurn < Backlog(queue[r], cli[prov.slot])
      BY <1>1, OwedIs, CountedOwed
    <2>2. /\ ses.midTurn \in Nat /\ ses'.midTurn \in Nat
          /\ queue[r] \in Seq(Events) /\ queue'[r] \in Seq(Events)
      BY Types, TypesNext DEF SesT, QueueT
    <2>3. prov.slot \in Gens /\ prov'.slot \in Gens
      BY <1>1, Types, TypesNext DEF Counted, PushLands, ProvT
    <2>4. cli[prov.slot] \in Process /\ cli'[prov'.slot] \in Process
      BY <2>3, Types, TypesNext DEF CliT
    <2>5. Backlog(queue[r], cli[prov.slot]) \in Nat /\ Backlog(queue'[r], cli'[prov'.slot]) \in Nat
      BY <2>2, <2>4, BacklogNat
    <2>6. ses'.midTurn < Backlog(queue'[r], cli'[prov'.slot])
      BY <1>1, <2>1, <2>2, <2>5
    <2> QED BY <2>6, OwedNext
  <1> QED BY <1>1, CountedOwedNext

\* The session's own steps: the provider, the readers, the queues and the processes' accounts stay.
LEMMA OwedStill ==
    ASSUME TypeOK, TypeOK', AbsorbsOwedEnds, UNCHANGED <<reader, queue, prov>>, ses'.run = ses.run,
           ses'.midTurn = ses.midTurn \/ ses'.midTurn = 0,
           prov.slot \in Gens =>
              /\ Alive(prov.slot)' => Alive(prov.slot)
              /\ cli'[prov.slot].owed = cli[prov.slot].owed /\ cli'[prov.slot].busy = cli[prov.slot].busy
    PROVE  AbsorbsOwedEnds'
  <1>1. ASSUME NEW r \in Runs, Counted(r)'
        PROVE  /\ Counted(r) /\ ses'.midTurn <= ses.midTurn
               /\ Backlog(queue[r], cli[prov.slot]) <= Backlog(queue'[r], cli'[prov'.slot])
    <2>1. prov.slot \in Gens
      BY <1>1, Types DEF Counted, PushLands, ProvT
    <2>2. Counted(r)
      BY <1>1, <2>1 DEF Counted, Reading, PushLands, Alive
    <2>3. ses.midTurn \in Nat /\ ses'.midTurn <= ses.midTurn
      BY Types DEF SesT
    <2>4. Backlog(queue[r], cli[prov.slot]) = Backlog(queue'[r], cli'[prov'.slot])
      BY <2>1 DEF Backlog
    <2>5. Backlog(queue[r], cli[prov.slot]) \in Nat
      BY <2>1, BacklogNat, Types DEF QueueT, CliT
    <2> QED BY <2>2, <2>3, <2>4, <2>5
  <1> QED BY <1>1, OwedKept

\* No turn is counted after a step that lets go of the run, the slot or its input.
LEMMA OwedVoid ==
    ASSUME ses'.run = None \/ prov'.slot = None \/ ~prov'.open \/ ~Alive(prov.slot)'
    PROVE  AbsorbsOwedEnds'
  BY RunsAre, CountedOwedNext DEF Counted, Reading, PushLands, Alive

LEMMA HardStopOwed ==
    ASSUME TypeOK, HardStop
    PROVE  AbsorbsOwedEnds'
  <1>1. ses'.run = None
    BY Types DEF HardStop, SesT
  <1> QED BY <1>1, OwedVoid

LEMMA PushOwed ==
    ASSUME TypeOK, TypeOK', AbsorbsOwedEnds, NEW s \in Sends, NEW status, NEW fate, PushNow(s, status, fate)
    PROVE  AbsorbsOwedEnds'
  <1>1. ASSUME NEW r \in Runs, Counted(r)' PROVE ses'.midTurn < Owed(r)'
    <2>1. /\ ses'.run = ses.run /\ ses'.midTurn = ses.midTurn + 1 /\ UNCHANGED <<reader, queue, prov>>
          /\ ses.midTurn \in Nat
      BY Types DEF PushNow, ExtraEnds, SesT
    <2>2. PushLands /\ prov.slot \in Gens
      BY <1>1, <2>1, Types DEF Counted, PushLands, ProvT
    <2>3. cli' = [cli EXCEPT ![prov.slot].owed = @ + 1]
      BY <2>2 DEF PushNow, Pushed
    <2>4. /\ cli'[prov.slot].owed = cli[prov.slot].owed + 1 /\ cli'[prov.slot].busy = cli[prov.slot].busy
          /\ cli'[prov.slot].state = cli[prov.slot].state
      BY <2>2, <2>3, Types DEF CliT, Process
    <2>5. Counted(r)
      BY <1>1, <2>1, <2>2, <2>4 DEF Counted, Reading, Alive
    <2>6. ses.midTurn < Backlog(queue[r], cli[prov.slot])
      BY <2>5, OwedIs, CountedOwed
    <2>7. queue[r] \in Seq(Events) /\ cli[prov.slot] \in Process
      BY <2>2, Types DEF QueueT, CliT
    <2>8. /\ Ends(queue[r]) \in Nat /\ cli[prov.slot].owed \in Nat /\ cli[prov.slot].busy \in BOOLEAN
      BY <2>7, EndsNat DEF Process
    <2>9. Backlog(queue'[r], cli'[prov'.slot]) = Backlog(queue[r], cli[prov.slot]) + 1
      BY <2>1, <2>4, <2>8 DEF Backlog
    <2>a. Backlog(queue[r], cli[prov.slot]) \in Nat
      BY <2>7, BacklogNat
    <2> QED BY <2>1, <2>6, <2>9, <2>a, OwedNext
  <1> QED BY <1>1, CountedOwedNext

LEMMA StartOwed ==
    ASSUME TypeOK, TypeOK', SlotInv, NEW s \in Sends, Start(s)
    PROVE  AbsorbsOwedEnds'
  <1>1. PICK r : r = room.runs + 1
    OBVIOUS
  <1>2. PICK reuse : reuse = (prov.slot # None /\ prov.open)
    OBVIOUS
  <1>3. PICK g : g = IF reuse THEN prov.slot ELSE prov.gen + 1
    OBVIOUS
  <1>4. PICK p : p = Shut(prov)
    OBVIOUS
  <1>5. /\ p \in ProvT
        /\ prov' = [p EXCEPT !.cur = r, !.slot = g, !.open = TRUE, !.gen = IF reuse THEN @ ELSE g]
        /\ cli' = [cli EXCEPT ![g].state = IF reuse THEN @ ELSE "live", ![g].owed = @ + 1]
        /\ ses' = [ses EXCEPT !.run = r, !.status = "thinking"]
        /\ ses.run = None
    BY <1>1, <1>2, <1>3, <1>4, ProvOf, Types DEF Start
  <1>6. prov'.slot = g /\ ses'.midTurn = 0
    BY <1>5, Types DEF ProvT, SesT, SlotInv
  <1>7. ASSUME NEW q \in Runs, Counted(q)' PROVE ses'.midTurn < Owed(q)'
    <2>1. g \in Gens
      BY <1>6, <1>7, TypesNext DEF Counted, PushLands, ProvT
    <2>2. cli'[g].owed = cli[g].owed + 1 /\ cli[g].owed \in Nat
      BY <1>5, <2>1, Types DEF CliT, Process
    <2>3. Ends(queue'[q]) \in Nat
      BY EndsNat, TypesNext DEF QueueT
    <2>4. Backlog(queue'[q], cli'[g]) > 0
      BY <2>2, <2>3 DEF Backlog
    <2> QED BY <1>6, <2>4, OwedNext
  <1> QED BY <1>7, CountedOwedNext

\* A turn opened from outside is owed an end when the newest process is at work on it.
LEMMA AdoptOwed ==
    ASSUME TypeOK, TypeOK', RunInv, SlotInv, AbsorbsOwedEnds, NEW events, Adopt(events), cli' = cli,
           ses.run = None /\ prov.slot \in Gens => cli[prov.slot].busy
    PROVE  AbsorbsOwedEnds'
  <1>1. PICK r : r = room.runs + 1
    OBVIOUS
  <1>2. room.runs \in 0..MaxRuns /\ room.runs < MaxRuns /\ ses.run \in Runs \cup {None}
    BY Types DEF Adopt, RoomT, SesT
  <1>3. r \in Runs /\ r # ses.run
    BY <1>1, <1>2, Constants DEF Runs, RunInv, None
  <1>4. CASE ses.run = None
    <2>1. ses' = [ses EXCEPT !.run = r, !.status = "thinking"] /\ prov' = [prov EXCEPT !.cur = r]
      BY <1>1, <1>4 DEF Adopt
    <2>2. ses'.midTurn = 0 /\ prov'.slot = prov.slot
      BY <1>4, <2>1, Types DEF SesT, ProvT, SlotInv
    <2>3. ASSUME NEW q \in Runs, Counted(q)' PROVE ses'.midTurn < Owed(q)'
      <3>1. prov.slot \in Gens
        BY <2>2, <2>3, Types DEF Counted, PushLands, ProvT
      <3>2. cli'[prov'.slot].busy /\ cli'[prov'.slot].owed \in Nat
        BY <1>4, <2>2, <3>1, Types DEF CliT, Process
      <3>3. Ends(queue'[q]) \in Nat
        BY EndsNat, TypesNext DEF QueueT
      <3>4. Backlog(queue'[q], cli'[prov'.slot]) > 0
        BY <3>2, <3>3 DEF Backlog
      <3> QED BY <2>2, <3>4, OwedNext
    <2> QED BY <2>3, CountedOwedNext
  <1>5. CASE ses.run # None
    <2>1. ses' = ses /\ prov' = prov /\ queue' = queue /\ reader' = [reader EXCEPT ![r] = "gone"]
      BY <1>1, <1>5 DEF Adopt
    <2>2. \A q \in Runs : Counted(q)' => Counted(q)
      BY <1>3, <2>1, Types DEF Counted, Reading, ReaderT, PushLands, Alive
    <2>3. \A q \in Runs : Counted(q)' => Owed(q)' = Owed(q)
      BY <2>1, OwedIs, OwedNext
    <2> QED BY <2>1, <2>2, <2>3, CountedOwed, CountedOwedNext
  <1> QED BY <1>4, <1>5

LEMMA SendOwed ==
    ASSUME TypeOK, TypeOK', SlotInv, AbsorbsOwedEnds, NEW s \in Sends,
           Submit(s) \/ SendFails(s) \/ Begin(s) \/ BeginOnStalled(s) \/ Recovered(s)
           \/ Refuse(s) \/ Join(s) \/ Start(s)
    PROVE  AbsorbsOwedEnds'
  <1>0. ses \in SesT
    BY Types
  <1>1. CASE Merge(s)
    <2>1. ses'.run = ses.run /\ ses'.midTurn = ses.midTurn + 0 /\ ses.midTurn \in Nat
          /\ UNCHANGED <<reader, queue, prov, cli>>
      BY <1>0, <1>1 DEF Merge, ExtraEnds, SesT
    <2> QED BY <2>1, OwedStill DEF Alive
  <1>2. CASE Prepare(s) \/ Submit(s) \/ Refuse(s) \/ SendFails(s)
    <2>1. ses'.run = ses.run /\ ses'.midTurn = ses.midTurn /\ UNCHANGED <<reader, queue, prov, cli>>
      BY <1>0, <1>2 DEF Prepare, Submit, Refuse, SendFails, SesT
    <2> QED BY <2>1, OwedStill DEF Alive
  <1>3. CASE Begin(s)
    BY <1>1, <1>2, <1>3, PushOwed DEF Begin
  <1>4. CASE BeginOnStalled(s)
    BY <1>4, HardStopOwed DEF BeginOnStalled
  <1>5. CASE Recovered(s)
    BY <1>1, <1>2, <1>5, PushOwed DEF Recovered
  <1>6. CASE Join(s)
    BY <1>6, PushOwed DEF Join
  <1>7. CASE Start(s)
    BY <1>7, StartOwed
  <1> QED BY <1>2, <1>3, <1>4, <1>5, <1>6, <1>7

\* A counted turn stays counted while its reader drops events that are no end, or ends it absorbs.
LEMMA ReaderOwed ==
    ASSUME TypeOK, TypeOK', AbsorbsOwedEnds, NEW r \in Runs,
           ReadTool(r) \/ Absorb(r) \/ ReadEnd(r) \/ Break(r) \/ Exit(r) \/ Watchdog(r)
    PROVE  AbsorbsOwedEnds'
  <1>0. /\ ses \in SesT /\ reader \in ReaderT /\ queue \in QueueT /\ prov \in ProvT
        /\ queue[r] \in Seq(Events) /\ r # None /\ ses.midTurn \in Nat
    BY Types, RunsAre DEF QueueT, SesT
  <1>1. ASSUME ses'.run \in {ses.run, None}, UNCHANGED cli,
               prov'.slot = prov.slot, prov'.open = prov.open,
               reader'[r] # "reading", \A q \in Runs \ {r} : reader'[q] = reader[q] /\ queue'[q] = queue[q],
               \A q \in Runs \ {r} : q \in prov.closed => q \in prov'.closed,
               ses'.midTurn = ses.midTurn \/ ses'.midTurn = 0
        PROVE  AbsorbsOwedEnds'
    <2>1. ASSUME NEW q \in Runs, Counted(q)'
          PROVE  /\ Counted(q) /\ ses'.midTurn <= ses.midTurn
                 /\ Backlog(queue[q], cli[prov.slot]) <= Backlog(queue'[q], cli'[prov'.slot])
      <3>1. q # r /\ ses'.run = ses.run
        BY <1>1, <2>1, RunsAre DEF Counted, Reading
      <3>2. Counted(q)
        BY <1>1, <2>1, <3>1 DEF Counted, Reading, PushLands, Alive
      <3>3. prov.slot \in Gens
        BY <3>2, <1>0 DEF Counted, PushLands, ProvT
      <3>4. Backlog(queue[q], cli[prov.slot]) \in Nat
        BY <3>3, BacklogNat, Types DEF QueueT, CliT
      <3>5. Backlog(queue[q], cli[prov.slot]) = Backlog(queue'[q], cli'[prov'.slot])
        BY <1>1, <3>1
      <3> QED BY <1>0, <1>1, <3>2, <3>4, <3>5
    <2> QED BY <2>1, OwedKept
  <1>2. CASE ReadTool(r) \/ Absorb(r)
    <2>1. PICK d : d = IF Head(queue[r]).kind \in {"done", "error"} THEN 1 ELSE 0
      OBVIOUS
    <2>2. /\ ses.run = r /\ ses'.run = r /\ ses'.midTurn = ses.midTurn - d /\ queue[r] # <<>>
          /\ queue' = [queue EXCEPT ![r] = Tail(@)] /\ UNCHANGED <<reader, prov, cli>>
      <3>1. CASE ReadTool(r)
        <4>1. d = 0
          BY <2>1, <3>1 DEF ReadTool
        <4>2. ses'.run = ses.run /\ ses'.midTurn = ses.midTurn
          BY <1>0, <3>1 DEF ReadTool, SesT
        <4> QED BY <1>0, <3>1, <4>1, <4>2 DEF ReadTool
      <3>2. CASE Absorb(r)
        BY <1>0, <2>1, <3>2 DEF Absorb, SesT
      <3> QED BY <1>2, <3>1, <3>2
    <2>3. queue'[r] = Tail(queue[r]) /\ Ends(queue'[r]) = Ends(queue[r]) - d /\ Ends(queue[r]) \in Nat
      BY <1>0, <2>1, <2>2, EndsTail, EndsNat DEF QueueT
    <2>4. ASSUME NEW q \in Runs, Counted(q)' PROVE ses'.midTurn < Owed(q)'
      <3>1. q = r /\ Counted(r)
        BY <2>2, <2>4 DEF Counted, Reading, PushLands, Alive
      <3>2. prov.slot \in Gens
        BY <3>1, <1>0 DEF Counted, PushLands, ProvT
      <3>3. cli[prov.slot] \in Process
        BY <3>2, Types DEF CliT
      <3>4. Backlog(queue'[r], cli'[prov'.slot]) = Backlog(queue[r], cli[prov.slot]) - d
        BY <2>1, <2>2, <2>3, <3>3 DEF Backlog, Process
      <3>5. ses.midTurn < Backlog(queue[r], cli[prov.slot])
        BY <3>1, OwedIs, CountedOwed
      <3>6. Backlog(queue[r], cli[prov.slot]) \in Nat
        BY <1>0, <3>3, BacklogNat
      <3>7. ses'.midTurn < Backlog(queue'[r], cli'[prov'.slot])
        BY <1>0, <2>1, <2>2, <3>4, <3>5, <3>6
      <3> QED BY <3>1, <3>7, OwedNext
    <2> QED BY <2>4, CountedOwedNext
  <1>3. CASE ReadEnd(r) \/ Break(r)
    <2>1. reader' = [reader EXCEPT ![r] = "ending"] /\ UNCHANGED <<cli, prov>>
          /\ (queue' = [queue EXCEPT ![r] = Tail(@)] \/ queue' = queue)
      BY <1>3 DEF ReadEnd, Break
    <2>2. ses'.run = ses.run /\ ses'.midTurn = ses.midTurn
      BY <1>0, <1>3 DEF ReadEnd, Break, SesT
    <2>3. reader'[r] # "reading" /\ \A q \in Runs \ {r} : reader'[q] = reader[q] /\ queue'[q] = queue[q]
      BY <1>0, <2>1 DEF ReaderT, QueueT
    <2> QED BY <1>1, <2>1, <2>2, <2>3
  <1>4. CASE Exit(r)
    <2>1. ses'.midTurn = 0 /\ ses'.run \in {ses.run, None}
      BY <1>0, <1>4 DEF Exit, SesT
    <2>2. PICK p : p = Ended(prov, r)
      OBVIOUS
    <2>3. p \in ProvT /\ p.slot = prov.slot /\ p.open = prov.open /\ prov.closed \subseteq p.closed
      BY <1>0, <2>2, ProvOf, ShutOf
    <2>4. prov' = [p EXCEPT !.closed = @ \ {r}]
      BY <1>4, <2>2 DEF Exit
    <2>5. prov'.slot = prov.slot /\ prov'.open = prov.open /\ prov'.closed = p.closed \ {r}
      BY <2>3, <2>4 DEF ProvT
    <2>6. reader'[r] # "reading" /\ \A q \in Runs \ {r} : reader'[q] = reader[q] /\ queue'[q] = queue[q]
      BY <1>0, <1>4 DEF Exit, ReaderT, QueueT
    <2>7. cli' = cli
      BY <1>4 DEF Exit
    <2> QED BY <1>1, <2>1, <2>3, <2>5, <2>6, <2>7
  <1>5. CASE Watchdog(r)
    <2>1. CASE ses.run = r
      BY <1>5, <2>1, HardStopOwed DEF Watchdog
    <2>2. CASE ses.run # r
      <3>1. reader' = [reader EXCEPT ![r] = "ending"] /\ UNCHANGED <<ses, cli, prov, queue>>
        BY <1>5, <2>2 DEF Watchdog
      <3>2. reader'[r] # "reading" /\ \A q \in Runs \ {r} : reader'[q] = reader[q] /\ queue'[q] = queue[q]
        BY <1>0, <3>1 DEF ReaderT
      <3> QED BY <1>1, <3>1, <3>2
    <2> QED BY <2>1, <2>2
  <1> QED BY <1>2, <1>3, <1>4, <1>5

LEMMA LoopOwed ==
    ASSUME TypeOK, TypeOK', SlotInv, AbsorbsOwedEnds, NEW g \in Gens, LoopEnds(g) \/ TornDown(g)
    PROVE  AbsorbsOwedEnds'
  <1>0. prov \in ProvT /\ g # None
    BY Types, RunsAre
  <1>1. CASE TornDown(g)
    <2>1. PICK p : p = Shut(prov)
      OBVIOUS
    <2>2. p \in ProvT
      BY <1>0, <2>1, ProvOf
    <2>3. prov'.slot = None
      BY <1>1, <2>1, <2>2 DEF TornDown, ProvT
    <2> QED BY <2>3, OwedVoid
  <1>2. CASE LoopEnds(g)
    <2>1. PICK p : p = IF Heard(g) THEN Shut(prov) ELSE prov
      OBVIOUS
    <2>2. p \in ProvT /\ p.slot = prov.slot
      BY <1>0, <2>1, ProvOf
    <2>3. prov' = IF p.slot = g THEN [p EXCEPT !.slot = None, !.open = FALSE] ELSE p
      BY <1>2, <2>1 DEF LoopEnds
    <2>4. CASE prov.slot = g \/ prov.slot = None
      <3>1. prov'.slot = None
        BY <2>2, <2>3, <2>4 DEF ProvT
      <3> QED BY <3>1, OwedVoid
    <2>5. CASE prov.slot # g /\ prov.slot # None
      <3>1. ~Heard(g)
        BY <2>5 DEF SlotInv, Heard
      <3>2. UNCHANGED <<ses, reader, queue, prov>>
        BY <1>2, <2>1, <2>2, <2>3, <2>5, <3>1 DEF LoopEnds
      <3>3. cli'[prov.slot] = cli[prov.slot]
        BY <1>0, <1>2, <2>5, Types DEF LoopEnds, CliT, ProvT
      <3> QED BY <3>2, <3>3, OwedStill DEF Alive
    <2> QED BY <2>4, <2>5
  <1> QED BY <1>1, <1>2

LEMMA StopOwed ==
    ASSUME TypeOK, TypeOK', AbsorbsOwedEnds,
           Stop \/ StopTaken \/ StopAborts \/ StopDone \/ StopTasks \/ Terminate \/ Terminated
    PROVE  AbsorbsOwedEnds'
  <1>0. ses \in SesT /\ prov \in ProvT /\ cli \in CliT
    BY Types
  <1>1. CASE Stop
    <2>1. ses'.run = ses.run /\ ses'.midTurn = 0
      <3>1. CASE ses.run = None /\ ses.bg
        BY <1>0, <1>1, <3>1 DEF Stop, SesT
      <3>2. CASE ~(ses.run = None /\ ses.bg)
        <4>1. ses' = [ses EXCEPT !.stopGen = @ + 1, !.midTurn = 0,
                      !.status = IF ses.run # None \/ @ = "error" THEN @ ELSE Rest(gate'.pend)]
          BY <1>1, <3>2 DEF Stop
        <4> QED BY <1>0, <4>1 DEF SesT
      <3> QED BY <3>1, <3>2
    <2>2. UNCHANGED <<reader, queue, prov, cli>>
      BY <1>1 DEF Stop
    <2> QED BY <2>1, <2>2, OwedStill DEF Alive
  <1>2. CASE StopTaken
    <2>1. UNCHANGED <<ses, reader, queue, prov>>
      BY <1>2 DEF StopTaken
    <2>2. prov.slot \in Gens
      BY <1>0, <1>2 DEF StopTaken, ProvT
    <2>3. cli' = cli \/ cli' = [cli EXCEPT ![prov.slot].cut = TRUE]
      BY <1>2 DEF StopTaken
    <2>4. /\ cli'[prov.slot].owed = cli[prov.slot].owed /\ cli'[prov.slot].busy = cli[prov.slot].busy
          /\ cli'[prov.slot].state = cli[prov.slot].state
      BY <1>0, <2>2, <2>3 DEF CliT, Process
    <2> QED BY <2>1, <2>4, OwedStill DEF Alive
  <1>3. CASE StopAborts
    <2>1. ~prov'.open
      BY <1>0, <1>3 DEF StopAborts, ProvT
    <2> QED BY <2>1, OwedVoid
  <1>4. CASE StopDone \/ Terminate
    <2>1. ses'.run = ses.run /\ ses'.midTurn = ses.midTurn /\ UNCHANGED <<reader, queue, prov, cli>>
      BY <1>0, <1>4 DEF StopDone, Terminate, SesT
    <2> QED BY <2>1, OwedStill DEF Alive
  <1>5. CASE StopTasks
    <2>1. ses'.run = ses.run /\ ses'.midTurn = ses.midTurn /\ UNCHANGED <<reader, queue, prov>>
      BY <1>0, <1>5 DEF StopTasks, SesT
    <2>2. \A g \in Gens : /\ cli'[g].owed = cli[g].owed /\ cli'[g].busy = cli[g].busy
                          /\ cli'[g].state = cli[g].state
      BY <1>0, <1>5 DEF StopTasks, CliT, Process
    <2> QED BY <2>1, <2>2, OwedStill DEF Alive
  <1>6. CASE Terminated
    BY <1>6, HardStopOwed DEF Terminated
  <1> QED BY <1>1, <1>2, <1>3, <1>4, <1>5, <1>6

\* What one process emits with a queue open goes to the turn; with none open it is adopted or passes by.
LEMMA EmitOwed ==
    ASSUME TypeOK, TypeOK', RunInv, SlotInv, AbsorbsOwedEnds, NEW e \in Events, Emit(e), UNCHANGED cli,
           prov.cur = None /\ e.kind = "tool" /\ e.call \notin Background /\ ses.run = None
             => (prov.slot \in Gens => cli[prov.slot].busy)
    PROVE  AbsorbsOwedEnds'
  <1>1. CASE prov.cur # None
    <2>1. prov.cur \in Runs /\ queue \in QueueT
      BY <1>1, Types DEF ProvT
    <2>2. queue' = [queue EXCEPT ![prov.cur] = Append(@, e)] /\ UNCHANGED <<ses, reader, prov>>
      BY <1>1 DEF Emit, Queue
    <2>3. ASSUME NEW r \in Runs, Counted(r)'
          PROVE  /\ Counted(r) /\ ses'.midTurn <= ses.midTurn
                 /\ Backlog(queue[r], cli[prov.slot]) <= Backlog(queue'[r], cli'[prov'.slot])
      <3>1. Counted(r)
        BY <2>2, <2>3 DEF Counted, Reading, PushLands, Alive
      <3>2. prov.slot \in Gens /\ ses.midTurn \in Nat
        BY <3>1, Types DEF Counted, PushLands, ProvT, SesT
      <3>3. /\ queue[r] \in Seq(Events) /\ queue'[r] \in Seq(Events) /\ cli[prov.slot] \in Process
        BY <3>2, Types, TypesNext DEF QueueT, CliT
      <3>4. Ends(queue'[r]) >= Ends(queue[r]) /\ Ends(queue[r]) \in Nat /\ Ends(queue'[r]) \in Nat
        <4>1. queue'[r] = queue[r] \/ queue'[r] = Append(queue[r], e)
          BY <2>1, <2>2 DEF QueueT
        <4>2. Ends(queue[r]) \in Nat /\ Ends(queue'[r]) \in Nat
          BY <3>3, EndsNat
        <4>3. Ends(Append(queue[r], e)) >= Ends(queue[r])
          BY <3>3, EndsAppend
        <4>4. CASE queue'[r] = queue[r]
          BY <4>2, <4>4
        <4>5. CASE queue'[r] = Append(queue[r], e)
          BY <4>2, <4>3, <4>5
        <4> QED BY <4>1, <4>4, <4>5
      <3>5. PICK n \in Nat : n = cli[prov.slot].owed + (IF cli[prov.slot].busy THEN 1 ELSE 0)
        BY <3>3 DEF Process
      <3>6. /\ Backlog(queue[r], cli[prov.slot]) = Ends(queue[r]) + n
            /\ Backlog(queue'[r], cli'[prov'.slot]) = Ends(queue'[r]) + n
        BY <2>2, <3>3, <3>4, <3>5 DEF Backlog, Process
      <3>7. Backlog(queue[r], cli[prov.slot]) <= Backlog(queue'[r], cli'[prov'.slot])
        BY <3>4, <3>5, <3>6
      <3> QED BY <2>2, <3>1, <3>2, <3>7
    <2> QED BY <2>3, OwedKept
  <1>2. CASE prov.cur = None /\ e.kind = "tool" /\ e.call \notin Background
    BY <1>2, AdoptOwed DEF Emit
  <1>3. CASE prov.cur = None /\ ~(e.kind = "tool" /\ e.call \notin Background)
    <2>1. UNCHANGED <<ses, reader, queue, prov>>
      BY <1>3 DEF Emit, Between
    <2> QED BY <2>1, OwedStill DEF Alive
  <1> QED BY <1>1, <1>2, <1>3

\* A turn's end moves from the process's account to the turn's queue.
LEMMA DoneOwed ==
    ASSUME TypeOK, TypeOK', RunInv, SlotInv, AbsorbsOwedEnds, NEW g \in Gens, CliDone(g)
    PROVE  AbsorbsOwedEnds'
  <1>0. cli \in CliT /\ g # None /\ cli' = [cli EXCEPT ![g].busy = FALSE, ![g].cut = FALSE] /\ cli[g].busy
    BY Types, RunsAre DEF CliDone
  <1>1. ASSUME prov.slot # g, UNCHANGED <<ses, reader, queue, prov>> PROVE AbsorbsOwedEnds'
    <2>1. prov.slot \in Gens => cli'[prov.slot] = cli[prov.slot]
      BY <1>0, <1>1 DEF CliT
    <2> QED BY <1>1, <2>1, OwedStill DEF Alive
  <1>2. CASE ~Heard(g)
    <2>1. prov.slot # g
      BY <1>0, <1>2 DEF SlotInv, Heard
    <2> QED BY <1>1, <1>2, <2>1 DEF CliDone
  <1>3. CASE Heard(g)
    <2>1. PICK e : e = [kind |-> "done"]
      OBVIOUS
    <2>2. Emit(e) /\ e \in Events /\ e.kind = "done"
      BY <1>3, <2>1, EventsAre DEF CliDone
    <2>3. UNCHANGED <<ses, reader, prov>> /\ (prov.cur = None => queue' = queue)
      <3>1. CASE prov.cur # None
        BY <2>2, <3>1 DEF Emit, Queue
      <3>2. CASE prov.cur = None
        BY <2>2, <3>2 DEF Emit, Between
      <3> QED BY <3>1, <3>2
    <2>4. ASSUME NEW r \in Runs, Counted(r)'
          PROVE  /\ Counted(r) /\ ses'.midTurn <= ses.midTurn
                 /\ Backlog(queue[r], cli[prov.slot]) <= Backlog(queue'[r], cli'[prov'.slot])
      <3>1. prov.slot \in Gens /\ prov.slot = g /\ ses.midTurn \in Nat
        BY <1>3, <2>3, <2>4, Types DEF Counted, PushLands, ProvT, SesT, SlotInv, Heard
      <3>2. Counted(r)
        BY <1>0, <2>3, <2>4, <3>1 DEF Counted, Reading, PushLands, Alive, CliT, Process
      <3>3. prov.cur = r
        BY <3>2 DEF Counted, SlotInv
      <3>4. queue[r] \in Seq(Events) /\ queue'[r] = Append(queue[r], e)
        BY <2>2, <3>3, RunsAre, Types DEF Emit, Queue, QueueT
      <3>5. Ends(queue'[r]) = Ends(queue[r]) + 1 /\ Ends(queue[r]) \in Nat
        BY <2>2, <3>4, EndsAppend, EndsNat
      <3>6. cli'[g].owed = cli[g].owed /\ ~cli'[g].busy /\ cli[g].owed \in Nat
        BY <1>0 DEF CliT, Process
      <3> QED BY <1>0, <2>3, <3>1, <3>2, <3>5, <3>6 DEF Backlog
    <2> QED BY <2>4, OwedKept
  <1> QED BY <1>2, <1>3

\* What a process does keeps the ends owed, unless it opens a turn nobody owes an end.
LEMMA CliOwed ==
    ASSUME TypeOK, TypeOK', RunInv, SlotInv, AbsorbsOwedEnds, ~OrphanTurn, NEW g \in Gens,
           \/ CliBegin(g) \/ CliSpeak(g) \/ CliDone(g) \/ CliPreempt(g)
           \/ CliTask(g) \/ CliSettle(g) \/ CliCrash(g)
           \/ \E c \in Calls : CliTool(g, c) \/ CliToolDone(g, c)
    PROVE  AbsorbsOwedEnds'
  <1>0. /\ ses \in SesT /\ cli \in CliT /\ cli[g] \in Process /\ g # None
        /\ Heard(g) /\ prov.slot \in Gens => prov.slot = g
    BY Types, RunsAre DEF CliT, SlotInv, Heard
  <1>1. ASSUME UNCHANGED <<reader, queue, prov>>, ses'.run = ses.run, ses'.midTurn = ses.midTurn,
               \A h \in Gens : /\ cli'[h].state = cli[h].state
                               /\ cli'[h].owed + (IF cli'[h].busy THEN 1 ELSE 0)
                                    >= cli[h].owed + (IF cli[h].busy THEN 1 ELSE 0)
        PROVE  AbsorbsOwedEnds'
    <2>1. ASSUME NEW r \in Runs, Counted(r)'
          PROVE  /\ Counted(r) /\ ses'.midTurn <= ses.midTurn
                 /\ Backlog(queue[r], cli[prov.slot]) <= Backlog(queue'[r], cli'[prov'.slot])
      <3>1. prov.slot \in Gens /\ ses.midTurn \in Nat /\ Ends(queue[r]) \in Nat
        BY <1>1, <2>1, EndsNat, Types DEF Counted, PushLands, ProvT, SesT, QueueT
      <3>2. Counted(r)
        BY <1>1, <2>1, <3>1 DEF Counted, Reading, PushLands, Alive
      <3>3. cli[prov.slot] \in Process /\ cli'[prov.slot] \in Process
        BY <3>1, Types, TypesNext DEF CliT
      <3> QED BY <1>1, <3>1, <3>2, <3>3 DEF Backlog, Process
    <2> QED BY <2>1, OwedKept
  <1>2. CASE CliBegin(g)
    <2>1. PICK n : n = cli[g].owed - 1
      OBVIOUS
    <2>2. /\ cli' = [cli EXCEPT ![g].busy = TRUE, ![g].owed = n] /\ ~cli[g].busy
          /\ cli[g].owed \in Nat /\ UNCHANGED <<ses, reader, queue, prov>>
      BY <1>0, <1>2, <2>1 DEF CliBegin, Process
    <2>3. \A h \in Gens : /\ cli'[h].state = cli[h].state /\ (h # g => cli'[h] = cli[h])
                          /\ (h = g => cli'[h].owed = n /\ cli'[h].busy)
                          /\ cli[h] \in Process
      BY <1>0, <2>2 DEF CliT, Process
    <2>4. \A h \in Gens : cli[h].owed \in Nat /\ cli[h].busy \in BOOLEAN
      BY <2>3 DEF Process
    <2>5. n + 1 = cli[g].owed
      BY <2>1, <2>2
    <2>6. ASSUME NEW h \in Gens
          PROVE  cli'[h].owed + (IF cli'[h].busy THEN 1 ELSE 0)
                   >= cli[h].owed + (IF cli[h].busy THEN 1 ELSE 0)
      <3>1. CASE h = g
        <4>1. n \in Int
          BY <2>1, <2>2
        <4>2. cli'[h].owed = n /\ cli'[h].busy
          BY <2>3, <3>1
        <4>3. cli'[h].owed + (IF cli'[h].busy THEN 1 ELSE 0) = n + 1
          BY <4>1, <4>2
        <4>4. cli[h].owed + (IF cli[h].busy THEN 1 ELSE 0) = cli[g].owed
          BY <2>2, <3>1
        <4> QED BY <2>2, <2>5, <4>1, <4>3, <4>4
      <3>2. CASE h # g
        BY <2>3, <2>4, <3>2
      <3> QED BY <3>1, <3>2
    <2>7. ses'.run = ses.run /\ ses'.midTurn = ses.midTurn /\ UNCHANGED <<reader, queue, prov>>
      BY <2>2
    <2>8. \A h \in Gens : cli'[h].state = cli[h].state
      BY <2>3
    <2> QED BY <1>1, <2>6, <2>7, <2>8
  <1>3. CASE CliSpeak(g)
    BY <1>0, <1>3, AdoptOwed DEF CliSpeak
  <1>4. CASE CliDone(g)
    BY <1>4, DoneOwed
  <1>5. CASE CliPreempt(g) \/ CliTask(g)
    <2>1. cli' = [cli EXCEPT ![g].cut = TRUE] \/ cli' = [cli EXCEPT ![g].task = TRUE]
      BY <1>5 DEF CliPreempt, CliTask
    <2>2. \A h \in Gens : cli'[h].state = cli[h].state /\ cli'[h].owed = cli[h].owed /\ cli'[h].busy = cli[h].busy
                          /\ cli[h].owed \in Nat
      BY <1>0, <2>1 DEF CliT, Process
    <2>3. ses'.run = ses.run /\ ses'.midTurn = ses.midTurn /\ UNCHANGED <<reader, queue, prov>>
      BY <1>0, <1>5 DEF CliPreempt, CliTask, SesT
    <2> QED BY <1>1, <2>2, <2>3
  <1>6. CASE CliSettle(g)
    <2>1. PICK n : n = IF cli[g].busy THEN cli[g].owed ELSE cli[g].owed + 1
      OBVIOUS
    <2>2. cli' = [cli EXCEPT ![g].task = FALSE, ![g].owed = n]
      BY <1>0, <1>6, <2>1 DEF CliSettle, CliT, Process
    <2>3. \A h \in Gens : /\ cli'[h].state = cli[h].state /\ cli'[h].busy = cli[h].busy
                          /\ cli[h].owed \in Nat /\ cli'[h].owed >= cli[h].owed /\ cli'[h].owed \in Nat
      BY <1>0, <2>1, <2>2 DEF CliT, Process
    <2>4. ses'.run = ses.run /\ ses'.midTurn = ses.midTurn /\ UNCHANGED <<reader, queue, prov>>
      BY <1>6, DrainedTurn DEF CliSettle
    <2> QED BY <1>1, <2>3, <2>4
  <1>7. CASE CliCrash(g)
    <2>1. cli' = [cli EXCEPT ![g].state = "dying"] /\ Heard(g) /\ prov' = prov
      BY <1>7 DEF CliCrash
    <2>2. CASE prov.slot \in Gens
      <3>1. cli'[prov'.slot].state = "dying"
        BY <1>0, <2>1, <2>2 DEF CliT, Process
      <3> QED BY <3>1, OwedVoid DEF Alive
    <2>3. CASE prov.slot \notin Gens
      <3>1. prov'.slot = None
        BY <2>1, <2>3, Types DEF ProvT
      <3> QED BY <3>1, OwedVoid
    <2> QED BY <2>2, <2>3
  <1>8. ASSUME NEW c \in Calls, CliTool(g, c) PROVE AbsorbsOwedEnds'
    <2>1. PICK e : e = [kind |-> "tool", call |-> c]
      OBVIOUS
    <2>2. e \in Events /\ e.call = c /\ Emit(e) /\ cli' = cli
      BY <1>8, <2>1, EventsAre DEF CliTool
    <2>3. prov.cur = None /\ c \notin Background /\ ses.run = None => Heard(g) /\ cli[g].busy
      BY <1>8 DEF OrphanTurn, CliTool
    <2> QED BY <1>0, <2>2, <2>3, EmitOwed
  <1>9. ASSUME NEW c \in Calls, CliToolDone(g, c) PROVE AbsorbsOwedEnds'
    <2>1. CASE Heard(g)
      <3>1. PICK e : e = [kind |-> "tooldone", call |-> c]
        OBVIOUS
      <3>2. e \in Events /\ e.kind # "tool" /\ Emit(e) /\ cli' = cli
        BY <1>9, <2>1, <3>1, EventsAre DEF CliToolDone
      <3> QED BY <3>2, EmitOwed
    <2>2. CASE ~Heard(g)
      BY <1>9, <2>2, OwedStill DEF CliToolDone, Alive
    <2> QED BY <2>1, <2>2
  <1> QED BY <1>2, <1>3, <1>4, <1>5, <1>6, <1>7, <1>8, <1>9

\* Every step but an orphan's turn leaves an end for each that is waited for, and one more.
LEMMA OwedStep ==
    ASSUME TypeOK, TypeOK', RunInv, SlotInv, AbsorbsOwedEnds, [Next]_vars, ~OrphanTurn
    PROVE  AbsorbsOwedEnds'
  <1>0. ses \in SesT
    BY Types
  <1>1. CASE SendStep \/ \E s \in Sends : Submit(s) \/ SendFails(s)
    BY <1>1, SendOwed DEF SendStep
  <1>2. CASE ReaderStep \/ \E r \in Runs : Watchdog(r)
    BY <1>2, ReaderOwed DEF ReaderStep
  <1>3. CASE GateStep \/ \E c \in Calls : Approve(c)
    <2> SUFFICES ASSUME NEW c \in Calls,
                        GateAllows(c) \/ GateParks(c) \/ GateReturn(c) \/ Withdraw(c) \/ Approve(c)
                 PROVE  AbsorbsOwedEnds'
      BY <1>3 DEF GateStep
    <2>1. UNCHANGED <<reader, queue, prov, cli>>
      BY DEF GateAllows, GateParks, GateReturn, Withdraw, Approve
    <2>2. ses'.run = ses.run /\ ses'.midTurn = ses.midTurn
      BY <1>0 DEF GateAllows, GateParks, GateReturn, Withdraw, Approve, AfterAnswer, SesT
    <2> QED BY <2>1, <2>2, OwedStill DEF Alive
  <1>4. CASE ProviderStep
    BY <1>4, LoopOwed DEF ProviderStep
  <1>5. CASE StopStep \/ Stop \/ Terminate
    BY <1>5, StopOwed DEF StopStep
  <1>6. CASE CliStep
    BY <1>6, CliOwed DEF CliStep
  <1>7. CASE UNCHANGED vars
    BY <1>7, OwedStill DEF vars, Alive
  <1> QED BY <1>1, <1>2, <1>3, <1>4, <1>5, <1>6, <1>7 DEF Next

(* While no process that was let go of opens a turn, the reader of a turn never waits *)
(* for more ends than the backend still owes it: a push counts one only when the      *)
(* process makes one of it, and each end the reader takes was counted (runTurn,       *)
(* pushMidTurn, #consumeEvents in session.ts; #emit, #consumerTask in the provider).  *)
THEOREM EndsAreOwed == Spec /\ [][~OrphanTurn]_vars => []AbsorbsOwedEnds
  <1>1. Init => RunInv /\ SlotInv /\ AbsorbsOwedEnds
    <2>1. Init => RunInv
      BY Constants DEF Init, RunInv, WorkingHasReader, Turn, None
    <2>2. Init => SlotInv /\ AbsorbsOwedEnds
      BY RunsAre DEF Init, SlotInv, Reading, AbsorbsOwedEnds
    <2> QED BY <2>1, <2>2
  <1>2. TypeOK /\ TypeOK' /\ RunInv /\ SlotInv /\ AbsorbsOwedEnds /\ [Next]_vars /\ [~OrphanTurn]_vars
        => RunInv' /\ SlotInv' /\ AbsorbsOwedEnds'
    <2> SUFFICES ASSUME TypeOK, TypeOK', RunInv, SlotInv, AbsorbsOwedEnds, [Next]_vars, [~OrphanTurn]_vars
                 PROVE  RunInv' /\ SlotInv' /\ AbsorbsOwedEnds'
      OBVIOUS
    <2>1. CASE UNCHANGED vars
      BY <2>1, RunStep, SlotStep, OwedStill DEF vars, Alive
    <2>2. CASE ~OrphanTurn
      BY <2>2, RunStep, SlotStep, OwedStep
    <2> QED BY <2>1, <2>2
  <1> QED BY <1>1, <1>2, Typed, PTL DEF Spec
=============================================================================
