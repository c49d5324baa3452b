------------------------------ MODULE Session ------------------------------
(***************************************************************************)
(* One agent session on the Claude backend: the sends its clients queue,   *)
(* the turn it runs, the reader of that turn's events, the gate its tool   *)
(* calls wait at, Stop, the stall watchdog and the backend process behind  *)
(* it (src/src/daemon/session.ts, src/src/daemon/providers/claude).        *)
(*                                                                         *)
(* JavaScript runs to the next await, so a step is what runs between two   *)
(* awaits.  A turn is a RUN: a queue of events the provider fills and one  *)
(* reader of the session empties.  The backend process is a LOOP, rebuilt  *)
(* under a new generation when the last one is gone.                       *)
(***************************************************************************)
EXTENDS Integers, Sequences, FiniteSets

CONSTANTS Sends,        \* messages clients send
          Calls,        \* tool calls the agent may make
          Background,   \* the calls made by a background sub-agent
          Mixes,        \* what may happen together: one mix is drawn at the start
          MaxRuns, MaxGen   \* bounds on turns and on backend processes

ASSUME SessionAssumption ==
    /\ IsFiniteSet(Sends) /\ IsFiniteSet(Calls) /\ Background \subseteq Calls
    /\ {MaxRuns, MaxGen} \subseteq Nat \ {0}
    /\ Mixes \subseteq [sends : SUBSET Sends, calls : SUBSET Calls,
                        stops : Nat, kills : Nat, crashes : Nat]

Runs == 1..MaxRuns
Gens == 1..MaxGen
None == 0

VARIABLES
    ses,     \* status, active run, mid-turn pushes to absorb, Stop count, background work
    gate,    \* approvals pending, answered early, cards, tools in flight, background ones
    reader,  \* each run's consumer
    queue,   \* each run's events not yet read
    prov,    \* the provider's current queue, loop and teardowns
    cli,     \* each backend process
    call,    \* each tool call, from the backend's side
    send,    \* each message and what became of it
    chain,   \* the send chain: its head runs, the rest wait
    stop,    \* the Stop being carried out
    kill,    \* the terminateBackend being carried out
    room     \* what is left of the mix drawn, and the runs begun
vars == <<ses, gate, reader, queue, prov, cli, call, send, chain, stop, kill, room>>

Status  == {"idle", "thinking", "tool_running", "waiting_approval", "error"}
Working == {"thinking", "tool_running", "waiting_approval"}
Turn    == {"thinking", "tool_running"}
Fates   == {"none", "started", "joined", "pushed", "merged", "dropped", "stopped", "failed"}
Events  == [kind : {"tool", "tooldone"}, call : Calls] \cup [kind : {"done", "error"}]

TypeOK ==
    /\ ses \in [status : Status, run : Runs \cup {None}, midTurn : Nat,
                stopGen : Nat, bg : BOOLEAN]
    /\ gate \in [pend : SUBSET Calls, early : [Calls -> {"none", "yes", "no"}],
                 card : SUBSET Calls, tools : SUBSET Calls, back : SUBSET Calls]
    /\ reader \in [Runs -> {"none", "reading", "ending", "stalled", "gone"}]
    /\ queue \in [Runs -> Seq(Events)]
    /\ prov \in [cur : Runs \cup {None}, closed : SUBSET Runs, slot : Gens \cup {None},
                 open : BOOLEAN, gen : Gens \cup {None}, tearing : SUBSET Gens]
    /\ cli \in [Gens -> [state : {"none", "live", "dying", "dead"}, owed : Nat,
                         busy : BOOLEAN, cut : BOOLEAN, task : BOOLEAN]]
    /\ call \in [Calls -> [pc : {"none", "asked", "parked", "decided", "allowed", "denied", "over"},
                           yes : BOOLEAN, gen : Gens \cup {None}, aborted : BOOLEAN]]
    /\ send \in [Sends -> [pc : {"new", "queued", "recovering", "preparing", "over"},
                           gen : Nat, fate : Fates]]
    /\ chain \in Seq(Sends)
    /\ stop \in [pc : {"none", "turn", "acked", "tasks"}, run : Runs \cup {None}]
    /\ kill \in {"none", "snapshot"}
    /\ room \in [sends : SUBSET Sends, calls : SUBSET Calls, stops : Nat,
                 kills : Nat, crashes : Nat, runs : 0..MaxRuns]

Init ==
    /\ ses = [status |-> "idle", run |-> None, midTurn |-> 0, stopGen |-> 0, bg |-> FALSE]
    /\ gate = [pend |-> {}, early |-> [c \in Calls |-> "none"], card |-> {}, tools |-> {}, back |-> {}]
    /\ reader = [r \in Runs |-> "none"]
    /\ queue = [r \in Runs |-> <<>>]
    /\ prov = [cur |-> None, closed |-> {}, slot |-> None, open |-> FALSE,
               gen |-> None, tearing |-> {}]
    /\ cli = [g \in Gens |-> [state |-> "none", owed |-> 0, busy |-> FALSE,
                              cut |-> FALSE, task |-> FALSE]]
    /\ call = [c \in Calls |-> [pc |-> "none", yes |-> FALSE, gen |-> None, aborted |-> FALSE]]
    /\ send = [s \in Sends |-> [pc |-> "new", gen |-> 0, fate |-> "none"]]
    /\ chain = <<>>
    /\ stop = [pc |-> "none", run |-> None]
    /\ kill = "none"
    /\ \E m \in Mixes :
          room = [sends |-> m.sends, calls |-> m.calls, stops |-> m.stops,
                  kills |-> m.kills, crashes |-> m.crashes, runs |-> 0]

-----------------------------------------------------------------------------
(* What several handlers share *)

\* Which calls a boundary settles: all of them, or all but a live background agent's.
Outlives(g, c) == c \in g.back
Swept(g, keep) == {c \in g.tools : ~(keep /\ Outlives(g, c))}

\* #reconcileWork: the tool cards of the turn are closed and their approval ids forgotten.
Reconciled(g, keep) ==
    LET gone == Swept(g, keep)
    IN  [g EXCEPT !.tools = @ \ gone, !.card = @ \ gone, !.back = @ \ gone]

\* #denyPendingApprovals: the approvals it denies.
Denied(g, keep) == {c \in g.pend : ~(keep /\ c \in g.card /\ Outlives(g, c))}
UnpendedAll(g, keep) == [g EXCEPT !.pend = {}]
Unpended(g, keep) == [g EXCEPT !.pend = @ \ Denied(g, keep)]

\* The waiters of the calls in D are answered `yes`; each continues in GateReturn.
Answered(D, yes) ==
    [c \in Calls |-> IF c \in D THEN [call[c] EXCEPT !.pc = "decided", !.yes = yes] ELSE call[c]]

\* A boundary: cards reconciled first, then the pending approvals denied.
Swipe(keep) ==
    LET g == Reconciled(gate, keep)
    IN  /\ gate' = Unpended(g, keep)
        /\ call' = Answered(Denied(g, keep), FALSE)

\* The status a session with no turn rests at.
Rest(pend) == IF pend # {} THEN "waiting_approval" ELSE "idle"

\* #watchdogPaused: silence is expected.
TurnPending == \E c \in gate.pend : ~(c \in gate.card /\ c \in gate.back)
WatchdogPausedOnAny == ses.status # "tool_running"
WatchdogPaused ==
    \/ ses.status = "waiting_approval" /\ (TurnPending \/ gate.pend = {})
    \/ ses.status = "tool_running"
    \/ gate.tools \ gate.back # {}
    \/ TurnPending

\* endTurn: the provider stops filling the run's queue, if it is still the current one.
Ended(p, r) == IF r # None /\ p.cur = r
               THEN [p EXCEPT !.cur = None, !.closed = @ \cup {r}] ELSE p

\* The provider's current queue is closed, whoever's it is.
Shut(p) == [p EXCEPT !.closed = IF p.cur = None THEN @ ELSE @ \cup {p.cur}, !.cur = None]

\* The loop's abort controller fires: the process is told to die, its requests are cancelled.
Aborted(k, g) == IF g = None THEN k ELSE [k EXCEPT ![g].state = IF @ = "live" THEN "dying" ELSE @]
Cancelled(cs, g) ==
    [c \in Calls |-> IF g # None /\ cs[c].gen = g THEN [cs[c] EXCEPT !.aborted = TRUE] ELSE cs[c]]

\* provider.teardown up to its await of the loop's task; with no loop nothing is awaited.
Teardown(p) == IF p.slot = None THEN Shut([p EXCEPT !.open = FALSE])
               ELSE [p EXCEPT !.open = FALSE, !.tearing = @ \cup {p.slot}]

\* #hardStop up to its await of the teardown.
HardStop ==
    LET g == Reconciled(gate, FALSE)
        denied == Answered(Denied(g, FALSE), FALSE)
    IN  /\ gate' = Unpended(g, FALSE)
        /\ call' = Cancelled(denied, prov.slot)
        /\ ses' = [ses EXCEPT !.bg = FALSE, !.midTurn = 0, !.run = None, !.status = "idle"]
        /\ prov' = Teardown(Ended(prov, ses.run))
        /\ cli' = Aborted(cli, prov.slot)

-----------------------------------------------------------------------------
(* Sending *)

\* A client's message is queued behind the sends before it (send).
Submit(s) ==
    /\ s \in room.sends /\ send[s].pc = "new"
    /\ send' = [send EXCEPT ![s].pc = "queued", ![s].gen = ses.stopGen]
    /\ chain' = Append(chain, s)
    /\ UNCHANGED <<ses, gate, reader, queue, prov, cli, call, stop, kill, room>>

Settle(s, fate) ==
    /\ send' = [send EXCEPT ![s] = [pc |-> "over", gen |-> 0, fate |-> fate]]
    /\ chain' = Tail(chain)

\* The prompt reaches the process through its input queue; a closed or missing one drops it.
PushLands == prov.slot # None /\ prov.open
Pushed == IF PushLands THEN [cli EXCEPT ![prov.slot].owed = @ + 1] ELSE cli

\* How many more ends the reader must absorb for a push that queries, or for a "later" one.
ExtraEndsAll(queries) == 1
ExtraEnds(queries) == IF queries THEN 1 ELSE 0

\* A push that queries makes the running turn end once more; a "later" one merges into it.
PushNow(s, status, fate) ==
    /\ ses' = [ses EXCEPT !.midTurn = @ + ExtraEnds(TRUE), !.status = status]
    /\ cli' = Pushed
    /\ Settle(s, IF PushLands THEN fate ELSE "dropped")
    /\ UNCHANGED <<gate, reader, queue, prov, call, stop, kill, room>>

PushStatus == IF ses.status \in {"waiting_approval", "tool_running"} THEN ses.status ELSE "thinking"

Merge(s) ==
    /\ ses' = [ses EXCEPT !.midTurn = @ + ExtraEnds(FALSE), !.status = PushStatus]
    /\ Settle(s, IF PushLands THEN "merged" ELSE "dropped")
    /\ UNCHANGED <<gate, reader, queue, prov, cli, call, stop, kill, room>>

Prepare(s) ==
    /\ send' = [send EXCEPT ![s].pc = "preparing"]
    /\ UNCHANGED <<ses, gate, reader, queue, prov, cli, call, chain, stop, kill, room>>

\* #sendInner up to its next await: into the running turn, or on to prepare one.
Begin(s) ==
    /\ chain # <<>> /\ s = Head(chain) /\ send[s].pc = "queued"
    /\ IF ses.status \in Working /\ ses.run # None
       THEN PushNow(s, PushStatus, "pushed") \/ Merge(s)
       ELSE Prepare(s)

\* ... or the run it would join has been silent past the stall window: it is stopped first.
BeginOnStalled(s) ==
    /\ chain # <<>> /\ s = Head(chain) /\ send[s].pc = "queued"
    /\ ses.status \in Working /\ ses.run # None /\ ~WatchdogPaused
    /\ queue[ses.run] = <<>>
    /\ HardStop
    /\ send' = [send EXCEPT ![s].pc = "recovering"]
    /\ UNCHANGED <<reader, queue, chain, stop, kill, room>>

\* The stop's teardown is awaited for a bounded time only.
WaitedUnbounded == prov.tearing = {}
Waited == TRUE

\* The stop's teardown ended or its time ran out: push into a turn begun meanwhile, or prepare.
Recovered(s) ==
    /\ send[s].pc = "recovering" /\ Waited
    /\ IF ses.run # None THEN PushNow(s, PushStatus, "pushed") \/ Merge(s) ELSE Prepare(s)

\* A Stop or a failure while the send prepared: its caller is told, nothing starts.
StoppedBeforeStart(s) == send[s].gen # ses.stopGen

Refuse(s) ==
    /\ send[s].pc = "preparing" /\ StoppedBeforeStart(s)
    /\ Settle(s, "stopped")
    /\ UNCHANGED <<ses, gate, reader, queue, prov, cli, call, stop, kill, room>>

\* The backend adopted a turn of its own while the send prepared: join it.
Join(s) ==
    /\ send[s].pc = "preparing" /\ ~StoppedBeforeStart(s) /\ ses.run # None
    /\ PushNow(s, ses.status, "joined")

\* runTurn: the loop is reused while its input is open and rebuilt otherwise; a stale queue closes.
Start(s) ==
    /\ send[s].pc = "preparing" /\ ~StoppedBeforeStart(s) /\ ses.run = None
    /\ room.runs < MaxRuns
    /\ LET r == room.runs + 1
           reuse == prov.slot # None /\ prov.open
           g == IF reuse THEN prov.slot ELSE prov.gen + 1
       IN  /\ g <= MaxGen
           /\ prov' = [Shut(prov) EXCEPT !.cur = r, !.slot = g, !.open = TRUE,
                       !.gen = IF reuse THEN @ ELSE g]
           /\ cli' = [cli EXCEPT ![g].state = IF reuse THEN @ ELSE "live", ![g].owed = @ + 1]
           /\ ses' = [ses EXCEPT !.run = r, !.status = "thinking"]
           /\ reader' = [reader EXCEPT ![r] = "reading"]
           /\ room' = [room EXCEPT !.runs = r]
    /\ Settle(s, "started")
    /\ UNCHANGED <<gate, queue, call, stop, kill>>

\* A hook, an account or the sandbox failed the send: the failure is reported, the status set idle.
SendFails(s) ==
    /\ send[s].pc = "preparing" /\ room.crashes > 0
    /\ ses' = [ses EXCEPT !.status = IF @ = "error" THEN @ ELSE "idle"]
    /\ Settle(s, "failed")
    /\ room' = [room EXCEPT !.crashes = @ - 1]
    /\ UNCHANGED <<gate, reader, queue, prov, cli, call, stop, kill>>

-----------------------------------------------------------------------------
(* The backend: what it says and where the provider delivers it *)

\* #handleProviderEvent on a call's start and end, for the turn's reader and between turns.
Shown(g, c, turn) ==
    [g EXCEPT !.tools = @ \cup {c}, !.card = @ \cup {c},
              !.back = IF c \in Background \/ ~turn THEN @ \cup {c} ELSE @]
Finished(g, c) ==
    [g EXCEPT !.tools = @ \ {c}, !.back = @ \ {c},
              !.card = IF c \in g.pend THEN @ ELSE @ \ {c},
              !.early = IF c \in g.card /\ c \notin g.pend THEN [@ EXCEPT ![c] = "none"] ELSE @]
AfterFinish(st, g) ==
    IF st = "tool_running" \/ (st = "waiting_approval" /\ g.pend = {}) THEN "thinking" ELSE st

Queue(e) ==
    /\ queue' = [queue EXCEPT ![prov.cur] = Append(@, e)]
    /\ UNCHANGED <<ses, gate, reader, prov, room>>

\* With no queue open, main-agent activity opens a turn the session adopts.
Adopt(events) ==
    /\ room.runs < MaxRuns
    /\ LET r == room.runs + 1
       IN  /\ room' = [room EXCEPT !.runs = r]
           /\ IF ses.run = None
              THEN /\ prov' = [prov EXCEPT !.cur = r]
                   /\ queue' = [queue EXCEPT ![r] = events]
                   /\ ses' = [ses EXCEPT !.run = r, !.status = "thinking"]
                   /\ reader' = [reader EXCEPT ![r] = "reading"]
              ELSE /\ prov' = prov   \* a second turn is ignored: ended at once, its events lost
                   /\ reader' = [reader EXCEPT ![r] = "gone"]
                   /\ UNCHANGED <<queue, ses>>
    /\ UNCHANGED gate

\* With none open and nothing to adopt, a call's own events are handled at once, the rest dropped.
Between(e) ==
    /\ UNCHANGED <<queue, reader, prov, room, ses>>
    /\ gate' = CASE e.kind = "tool" -> Shown(gate, e.call, ses.run # None)
                 [] e.kind = "tooldone" -> Finished(gate, e.call)
                 [] OTHER -> gate

Emit(e) ==
    IF prov.cur # None THEN Queue(e)
    ELSE IF e.kind = "tool" /\ e.call \notin Background THEN Adopt(<<e>>)
    ELSE Between(e)

Alive(g) == cli[g].state = "live"
Heard(g) == g = prov.gen      \* a superseded loop's messages are not translated

\* The process takes up the next prompt.
CliBegin(g) ==
    /\ Alive(g) /\ ~cli[g].busy /\ cli[g].owed > 0
    /\ cli' = [cli EXCEPT ![g].busy = TRUE, ![g].owed = @ - 1]
    /\ UNCHANGED <<ses, gate, reader, queue, prov, call, send, chain, stop, kill, room>>

\* It speaks with no turn open: the turn is adopted.
CliSpeak(g) ==
    /\ Alive(g) /\ Heard(g) /\ cli[g].busy /\ ~cli[g].cut /\ prov.cur = None
    /\ Adopt(<<>>)
    /\ UNCHANGED <<cli, call, send, chain, stop, kill>>

\* The main agent, or a background one, asks to run a tool (canUseTool): shown, then gated.
CliTool(g, c) ==
    /\ Alive(g) /\ c \in room.calls /\ call[c].pc = "none"
    /\ IF c \in Background THEN cli[g].task ELSE cli[g].busy /\ ~cli[g].cut
    /\ call' = [call EXCEPT ![c] = [@ EXCEPT !.pc = "asked", !.gen = g]]
    /\ Emit([kind |-> "tool", call |-> c])
    /\ UNCHANGED <<cli, send, chain, stop, kill>>

\* An answered call has run, or was refused, and its result is reported.
CliToolDone(g, c) ==
    /\ Alive(g) /\ call[c].gen = g /\ call[c].pc \in {"allowed", "denied"}
    /\ call' = [call EXCEPT ![c] = [@ EXCEPT !.pc = "over", !.yes = FALSE, !.aborted = FALSE]]
    /\ IF Heard(g) THEN Emit([kind |-> "tooldone", call |-> c])
       ELSE UNCHANGED <<ses, gate, reader, queue, prov, room>>
    /\ UNCHANGED <<cli, send, chain, stop, kill>>

MainCalls(g) == {c \in Calls \ Background : call[c].gen = g /\ call[c].pc \notin {"none", "over"}}

\* The prompt's turn is over, or was cut short: one turn_done.
CliDone(g) ==
    /\ Alive(g) /\ cli[g].busy /\ (cli[g].cut \/ MainCalls(g) = {})
    /\ cli' = [cli EXCEPT ![g].busy = FALSE, ![g].cut = FALSE]
    /\ IF Heard(g) THEN Emit([kind |-> "done"])
       ELSE UNCHANGED <<ses, gate, reader, queue, prov, room>>
    /\ UNCHANGED <<call, send, chain, stop, kill>>

\* A message pushed mid-turn cuts the running one short.
CliPreempt(g) ==
    /\ Alive(g) /\ cli[g].busy /\ ~cli[g].cut /\ cli[g].owed > 0
    /\ cli' = [cli EXCEPT ![g].cut = TRUE]
    /\ call' = [c \in Calls |-> IF c \in MainCalls(g) THEN [call[c] EXCEPT !.aborted = TRUE] ELSE call[c]]
    /\ UNCHANGED <<ses, gate, reader, queue, prov, send, chain, stop, kill, room>>

\* A background task starts: the level reaches the session at once.
CliTask(g) ==
    /\ Alive(g) /\ Heard(g) /\ cli[g].busy /\ ~cli[g].cut /\ ~cli[g].task
    /\ \E c \in Background \cap room.calls : call[c].pc = "none"
    /\ cli' = [cli EXCEPT ![g].task = TRUE]
    /\ ses' = [ses EXCEPT !.bg = TRUE]
    /\ UNCHANGED <<gate, reader, queue, prov, call, send, chain, stop, kill, room>>

\* The level comes back empty: with no turn in flight what it kept alive is reconciled.
Drained ==
    IF ses.bg /\ ses.run = None
    THEN LET left == Unpended(Reconciled(gate, FALSE), FALSE).pend
         IN  /\ Swipe(FALSE)
             /\ ses' = [ses EXCEPT !.bg = FALSE,
                        !.status = IF left = {} /\ @ = "waiting_approval" THEN "idle" ELSE @]
    ELSE /\ ses' = [ses EXCEPT !.bg = FALSE]
         /\ UNCHANGED <<gate, call>>

\* It finishes: the process carries on with the result by itself, in this turn or one of its own.
CliSettle(g) ==
    /\ Alive(g) /\ Heard(g) /\ cli[g].task
    /\ \A c \in Background \cap room.calls : call[c].pc = "over"
    /\ cli' = [cli EXCEPT ![g].task = FALSE, ![g].owed = IF cli[g].busy THEN @ ELSE @ + 1]
    /\ Drained
    /\ UNCHANGED <<reader, queue, prov, send, chain, stop, kill, room>>

\* The process dies on its own: the loop reports the error, then ends as LoopEnds does.
CliCrash(g) ==
    /\ Alive(g) /\ Heard(g) /\ room.crashes > 0
    /\ cli' = [cli EXCEPT ![g].state = "dying"]
    /\ call' = Cancelled(call, g)
    /\ IF prov.cur # None THEN queue' = [queue EXCEPT ![prov.cur] = Append(@, [kind |-> "error"])]
       ELSE UNCHANGED queue
    /\ room' = [room EXCEPT !.crashes = @ - 1]
    /\ UNCHANGED <<ses, gate, reader, prov, send, chain, stop, kill>>

\* The loop's finally: it closes the current queue and its slot only while they are its own.
LoopEnds(g) ==
    /\ cli[g].state = "dying"
    /\ cli' = [cli EXCEPT ![g] = [@ EXCEPT !.state = "dead", !.owed = 0, !.busy = FALSE,
                                           !.cut = FALSE, !.task = FALSE]]
    /\ LET p == IF Heard(g) THEN Shut(prov) ELSE prov
       IN  prov' = IF p.slot = g THEN [p EXCEPT !.slot = None, !.open = FALSE] ELSE p
    /\ IF Heard(g) THEN Drained ELSE UNCHANGED <<ses, gate, call>>
    /\ UNCHANGED <<reader, queue, send, chain, stop, kill, room>>

\* The teardown's await is over: it clears the provider's slots, whoever they belong to by now.
TornDown(g) ==
    /\ g \in prov.tearing /\ cli[g].state = "dead"
    /\ prov' = [Shut(prov) EXCEPT !.tearing = @ \ {g}, !.slot = None, !.open = FALSE]
    /\ UNCHANGED <<ses, gate, reader, queue, cli, call, send, chain, stop, kill, room>>

-----------------------------------------------------------------------------
(* The reader of a turn (#consumeEvents) *)

\* A call's start or end. A reader that lost the run stops at the next event instead.
ReadTool(r) ==
    /\ reader[r] = "reading" /\ queue[r] # <<>> /\ ses.run = r
    /\ LET e == Head(queue[r])
       IN  /\ e.kind \in {"tool", "tooldone"}
           /\ gate' = IF e.kind = "tool" THEN Shown(gate, e.call, TRUE) ELSE Finished(gate, e.call)
           /\ ses' = IF e.kind = "tool" THEN ses
                     ELSE [ses EXCEPT !.status = AfterFinish(@, gate')]
    /\ queue' = [queue EXCEPT ![r] = Tail(@)]
    /\ UNCHANGED <<reader, prov, cli, call, send, chain, stop, kill, room>>

\* The next turn_done is one a mid-turn push added.
EndsForPush == ses.midTurn > 0

\* A turn_done owed to a mid-turn push: the boundary is absorbed and the reader goes on.
Absorb(r) ==
    /\ reader[r] = "reading" /\ queue[r] # <<>> /\ ses.run = r
    /\ Head(queue[r]).kind = "done" /\ EndsForPush
    /\ ses' = [ses EXCEPT !.midTurn = @ - 1, !.status = IF @ = "error" THEN @ ELSE "thinking"]
    /\ Swipe(ses.bg)
    /\ queue' = [queue EXCEPT ![r] = Tail(@)]
    /\ UNCHANGED <<reader, prov, cli, send, chain, stop, kill, room>>

\* The turn's own end: the status is set first, the run let go of after the await.
ReadEnd(r) ==
    /\ reader[r] = "reading" /\ queue[r] # <<>> /\ ses.run = r
    /\ \/ Head(queue[r]).kind = "done" /\ ~EndsForPush
          /\ \E s \in {"idle", "error"} :
                ses' = [ses EXCEPT !.status = IF @ = "error" THEN @ ELSE s]
       \/ Head(queue[r]).kind = "error" /\ ses' = [ses EXCEPT !.status = "error"]
    /\ queue' = [queue EXCEPT ![r] = Tail(@)]
    /\ reader' = [reader EXCEPT ![r] = "ending"]
    /\ UNCHANGED <<gate, prov, cli, call, send, chain, stop, kill, room>>

\* The queue was closed and is empty, or the run is another's now: the loop breaks.
Break(r) ==
    /\ reader[r] = "reading"
    /\ \/ queue[r] = <<>> /\ r \in prov.closed
       \/ queue[r] # <<>> /\ ses.run # r
    /\ reader' = [reader EXCEPT ![r] = "ending"]
    /\ UNCHANGED <<ses, gate, queue, prov, cli, call, send, chain, stop, kill, room>>

\* The stall timer fires and silence is not expected: the wedged turn is stopped (#recoverStalledRun).
Watchdog(r) ==
    /\ reader[r] = "reading" /\ queue[r] = <<>> /\ r \notin prov.closed /\ ~WatchdogPaused
    /\ IF ses.run = r
       THEN HardStop /\ reader' = [reader EXCEPT ![r] = "stalled"]
       ELSE reader' = [reader EXCEPT ![r] = "ending"] /\ UNCHANGED <<ses, gate, prov, cli, call>>
    /\ UNCHANGED <<queue, send, chain, stop, kill, room>>

\* The reader's finally, of a turn that ended and of one whose stop has been awaited.
Exit(r) ==
    /\ reader[r] \in {"ending", "stalled"}
    /\ reader' = [reader EXCEPT ![r] = "gone"]
    /\ Swipe(ses.bg)
    /\ prov' = [Ended(prov, r) EXCEPT !.closed = @ \ {r}]
    /\ ses' = IF ses.run = r
              THEN [ses EXCEPT !.midTurn = 0, !.run = None,
                    !.status = IF @ = "error" THEN @ ELSE Rest(gate'.pend)]
              ELSE [ses EXCEPT !.midTurn = 0]
    /\ queue' = [queue EXCEPT ![r] = <<>>]
    /\ UNCHANGED <<cli, send, chain, stop, kill, room>>

-----------------------------------------------------------------------------
(* The approval gate (#makeCanUseToolFn) *)

\* The call needs nobody: it runs.
GateAllows(c) ==
    /\ call[c].pc = "asked"
    /\ call' = [call EXCEPT ![c].pc = "allowed"]
    /\ gate' = [gate EXCEPT !.card = @ \ {c}]
    /\ ses' = IF ses.run = None THEN ses ELSE [ses EXCEPT !.status = "tool_running"]
    /\ UNCHANGED <<reader, queue, prov, cli, send, chain, stop, kill, room>>

\* It needs an answer: one given early is taken now, otherwise it is parked.
GateParks(c) ==
    /\ call[c].pc = "asked"
    /\ ses' = [ses EXCEPT !.status = "waiting_approval"]
    /\ IF gate.early[c] # "none"
       THEN /\ call' = Answered({c}, gate.early[c] = "yes")
            /\ gate' = [gate EXCEPT !.early[c] = "none"]
       ELSE /\ call' = [call EXCEPT ![c].pc = "parked"]
            /\ gate' = [gate EXCEPT !.pend = @ \cup {c}]
    /\ UNCHANGED <<reader, queue, prov, cli, send, chain, stop, kill, room>>

\* A person answers: the parked call, or one whose card is up before it parked.
Approve(c) ==
    /\ \E yes \in BOOLEAN :
          \/ c \in gate.pend /\ call' = Answered({c}, yes) /\ gate' = [gate EXCEPT !.pend = @ \ {c}]
          \/ /\ c \notin gate.pend /\ c \in gate.card /\ gate.early[c] = "none"
             /\ call[c].pc = "asked"
             /\ gate' = [gate EXCEPT !.early[c] = IF yes THEN "yes" ELSE "no"]
             /\ UNCHANGED call
    /\ UNCHANGED <<ses, reader, queue, prov, cli, send, chain, stop, kill, room>>

\* The backend abandoned the request: the approval is withdrawn (#withdrawOnAbort).
Withdraw(c) ==
    /\ c \in gate.pend /\ call[c].aborted
    /\ call' = Answered({c}, FALSE)
    /\ gate' = [gate EXCEPT !.pend = @ \ {c}]
    /\ UNCHANGED <<ses, reader, queue, prov, cli, send, chain, stop, kill, room>>

\* The status an answered call leaves: the turn's, or between turns the session's at rest.
AfterAnswerAnyway(yes) == [ses EXCEPT !.status = IF yes THEN "tool_running" ELSE "thinking"]
AfterAnswer(yes) ==
    [ses EXCEPT !.status =
        IF ses.run # None THEN (IF yes THEN "tool_running" ELSE "thinking")
        ELSE IF gate.pend = {} /\ @ = "waiting_approval" THEN "idle" ELSE @]

\* The waiter goes on with its answer.
GateReturn(c) ==
    /\ call[c].pc = "decided"
    /\ call' = [call EXCEPT ![c].pc = IF call[c].yes THEN "allowed" ELSE "denied"]
    /\ gate' = [gate EXCEPT !.card = @ \ {c}]
    /\ ses' = AfterAnswer(call[c].yes)
    /\ UNCHANGED <<reader, queue, prov, cli, send, chain, stop, kill, room>>

-----------------------------------------------------------------------------
(* Stop (interrupt) and terminateBackend *)

NoEarly == [c \in Calls |-> "none"]

\* Stop, up to its await: of the turn's interrupt, of its background tasks, or nothing to await.
Stop ==
    /\ stop.pc = "none" /\ room.stops > 0
    /\ room' = [room EXCEPT !.stops = @ - 1]
    /\ IF ses.run = None /\ ses.bg
       THEN /\ ses' = [ses EXCEPT !.stopGen = @ + 1, !.midTurn = 0]
            /\ stop' = [pc |-> "tasks", run |-> None]
            /\ UNCHANGED <<gate, call>>
       ELSE LET g == IF ses.run = None THEN Reconciled(gate, ses.bg) ELSE gate
                denied == Denied(gate, ses.bg)
            IN  /\ gate' = [Unpended(g, ses.bg) EXCEPT !.pend = gate.pend \ denied, !.early = NoEarly]
                /\ call' = Answered(denied, FALSE)
                /\ stop' = [pc |-> IF ses.run = None THEN "none" ELSE "turn", run |-> ses.run]
                /\ ses' = [ses EXCEPT !.stopGen = @ + 1, !.midTurn = 0,
                           !.status = IF ses.run # None \/ @ = "error" THEN @ ELSE Rest(gate'.pend)]
    /\ UNCHANGED <<reader, queue, prov, cli, send, chain, kill>>

\* The process takes the interrupt: its turn is cut short.
StopTaken ==
    /\ stop.pc = "turn" /\ prov.slot # None /\ Alive(prov.slot)
    /\ stop' = [stop EXCEPT !.pc = "acked"]
    /\ IF cli[prov.slot].busy
       THEN /\ cli' = [cli EXCEPT ![prov.slot].cut = TRUE]
            /\ call' = [c \in Calls |-> IF c \in MainCalls(prov.slot)
                                        THEN [call[c] EXCEPT !.aborted = TRUE] ELSE call[c]]
       ELSE UNCHANGED <<cli, call>>
    /\ UNCHANGED <<ses, gate, reader, queue, prov, send, chain, kill, room>>

\* ... or the interrupt failed: a hard abort, its background work announced gone.
StopAborts ==
    /\ stop.pc = "turn"
    /\ stop' = [stop EXCEPT !.pc = "acked"]
    /\ cli' = Aborted(cli, prov.slot)
    /\ prov' = [prov EXCEPT !.open = FALSE]
    /\ LET cs == Cancelled(call, prov.slot)
           left == Unpended(Reconciled(gate, FALSE), FALSE)
       IN  IF ses.bg /\ ses.run = None
           THEN /\ gate' = left
                /\ call' = [c \in Calls |-> IF c \in Denied(Reconciled(gate, FALSE), FALSE)
                                            THEN [cs[c] EXCEPT !.pc = "decided", !.yes = FALSE] ELSE cs[c]]
                /\ ses' = [ses EXCEPT !.bg = FALSE,
                           !.status = IF @ = "waiting_approval" THEN "idle" ELSE @]
           ELSE /\ call' = cs /\ ses' = [ses EXCEPT !.bg = FALSE] /\ UNCHANGED gate
    /\ UNCHANGED <<reader, queue, send, chain, kill, room>>

\* The interrupt is over: the session is at rest, unless another turn has begun meanwhile.
StopDone ==
    /\ stop.pc = "acked"
    /\ stop' = [pc |-> "none", run |-> None]
    /\ IF ses.run # stop.run THEN UNCHANGED <<ses, gate, call>>
       ELSE LET denied == IF ses.bg THEN {} ELSE gate.pend
            IN  /\ call' = Answered(denied, FALSE)
                /\ gate' = [gate EXCEPT !.pend = @ \ denied]
                /\ ses' = [ses EXCEPT !.status = IF @ = "error" THEN @ ELSE Rest(gate'.pend)]
    /\ UNCHANGED <<reader, queue, prov, cli, send, chain, kill, room>>

\* The background tasks were stopped: the session settles, unless a turn has begun meanwhile.
StopTasks ==
    /\ stop.pc = "tasks"
    /\ stop' = [pc |-> "none", run |-> None]
    /\ cli' = [g \in Gens |-> [cli[g] EXCEPT !.task = FALSE]]
    /\ IF ses.run # None THEN ses' = [ses EXCEPT !.bg = FALSE] /\ UNCHANGED <<gate, call>>
       ELSE LET g == Reconciled(gate, FALSE)
            IN  /\ gate' = [g EXCEPT !.pend = {}, !.early = NoEarly]
                /\ call' = Answered(gate.pend, FALSE)
                /\ ses' = [ses EXCEPT !.bg = FALSE, !.status = IF @ = "error" THEN @ ELSE "idle"]
    /\ UNCHANGED <<reader, queue, prov, send, chain, kill, room>>

\* The supervisor's escalation: sends are stopped and the process tree is read first ...
Terminate ==
    /\ kill = "none" /\ room.kills > 0
    /\ kill' = "snapshot"
    /\ room' = [room EXCEPT !.kills = @ - 1]
    /\ ses' = [ses EXCEPT !.stopGen = @ + 1]
    /\ gate' = [gate EXCEPT !.early = NoEarly]
    /\ UNCHANGED <<reader, queue, prov, cli, call, send, chain, stop>>

\* ... then whatever runs by now is stopped.
Terminated ==
    /\ kill = "snapshot"
    /\ kill' = "none"
    /\ HardStop
    /\ UNCHANGED <<reader, queue, send, chain, stop, room>>

-----------------------------------------------------------------------------
SendStep == \E s \in Sends :
    Begin(s) \/ BeginOnStalled(s) \/ Recovered(s) \/ Refuse(s) \/ Join(s) \/ Start(s)
ReaderStep == \E r \in Runs : ReadTool(r) \/ Absorb(r) \/ ReadEnd(r) \/ Break(r) \/ Exit(r)
GateStep == \E c \in Calls : GateAllows(c) \/ GateParks(c) \/ GateReturn(c) \/ Withdraw(c)
ProviderStep == \E g \in Gens : LoopEnds(g) \/ TornDown(g)
StopStep == StopTaken \/ StopAborts \/ StopDone \/ StopTasks \/ Terminated
CliStep == \E g \in Gens :
    \/ CliBegin(g) \/ CliSpeak(g) \/ CliDone(g) \/ CliPreempt(g)
    \/ CliTask(g) \/ CliSettle(g) \/ CliCrash(g)
    \/ \E c \in Calls : CliTool(g, c) \/ CliToolDone(g, c)

Next ==
    \/ \E s \in Sends : Submit(s) \/ SendFails(s)
    \/ SendStep \/ ReaderStep \/ GateStep \/ ProviderStep \/ StopStep \/ CliStep
    \/ \E r \in Runs : Watchdog(r)
    \/ \E c \in Calls : Approve(c)
    \/ Stop \/ Terminate

Spec == Init /\ [][Next]_vars
-----------------------------------------------------------------------------
(* Properties *)

(* A turn status always has a turn, and that turn a reader that will end it: *)
(* no path leaves the session "thinking" or "tool_running" with nothing to   *)
(* move it on (#setTurnStatus, #teardownProvider, #hardStop, the gate).      *)
WorkingHasReader ==
    /\ ses.status \in Turn => ses.run # None
    /\ ses.run # None => reader[ses.run] \in {"reading", "ending"}

(* Every approval the clients are shown as pending has a call waiting on it,  *)
(* and every waiting call can be answered: a path that drops the resolver     *)
(* without calling it would hang the backend for good (#denyPendingApprovals, *)
(* #withdrawOnAbort, approve, the sweep at each boundary).                    *)
PendingIsParked == gate.pend = {c \in Calls : call[c].pc = "parked"}

(* The reader never waits for more turn ends than the backend still owes it:  *)
(* the run's unread ends, the prompt running and the prompts not begun. One   *)
(* more and the real end is absorbed as a boundary and the session spins. The *)
(* exception, for which two messages are too few, is a call of a process that *)
(* was let go of: SessionProofs, OrphanTurn.                                  *)
Owed(r) ==
    Cardinality({i \in 1..Len(queue[r]) : queue[r][i].kind \in {"done", "error"}})
    + cli[prov.slot].owed + (IF cli[prov.slot].busy THEN 1 ELSE 0)
AbsorbsOwedEnds ==
    \A r \in Runs :
        (/\ ses.run = r /\ reader[r] = "reading" /\ r \notin prov.closed
         /\ PushLands /\ Alive(prov.slot)) => ses.midTurn < Owed(r)

(* Once the backend is silent for good, the session does not stay "thinking": *)
(* the turn ends, or the watchdog stops it (#consumeEvents).                  *)
NeverWedged == []<>(ses.status # "thinking" \/ gate.tools # {} \/ gate.pend # {})

(* Every message accepted ends as a turn, a part of one, or a failure told to *)
(* its caller: the chain never stays behind a stop that hangs (send).         *)
SendsSettle == \A s \in Sends : send[s].pc = "queued" ~> send[s].pc = "over"

(* What the daemon's scheduling gives: handlers run, timers fire. Nothing is  *)
(* asked of the backend or of people.                                         *)
Fairness ==
    /\ \A s \in Sends : WF_vars(Begin(s)) /\ WF_vars(Recovered(s))
                        /\ WF_vars(Refuse(s)) /\ WF_vars(Join(s)) /\ WF_vars(Start(s))
    /\ \A r \in Runs : /\ WF_vars(ReadTool(r) \/ Absorb(r) \/ ReadEnd(r) \/ Break(r) \/ Exit(r))
                       /\ WF_vars(Watchdog(r))
    /\ \A c \in Calls : WF_vars(GateReturn(c))

FairSpec == Spec /\ Fairness
=============================================================================
