# Codeoid: a verification project

Codeoid (the repository under `src/`) is a daemon that runs coding-agent sessions for its users. It
owns the sessions and their transcripts, hands work to them through a durable task queue, schedules
recurring work, and streams what happens to terminals, browsers and phones. Most of it runs in one
JavaScript thread, over SQLite and a few files, so what can go wrong is rarely a data race: it is a
row read before an `await` and used after it, a crash between two statements, a frame that waited
while what it carries changed, a callback that arrives for something already replaced.

This directory holds TLA+ models of the parts where that happens, the TLC runs that check them on
small instances, and proofs, checked by TLAPS, of what holds for every instance.

- [1. The system](#1-the-system): its components, their state, operations, interactions, hazards
- [2. The modules](#2-the-modules): what each models, how it corresponds to the code
- [3. The runs](#3-the-runs): what each checks and shows, bounds, fairness, mutants
- [4. The disagreements found](#4-the-disagreements-found)
- [5. The proofs](#5-the-proofs)
- [6. What is not modelled, and the plan](#6-what-is-not-modelled-and-the-plan)

Paths are relative to the repository: `daemon/` stands for `src/src/daemon/`.

## 1. The system

### 1.1 Parts and how they meet

| Part | Code | State it keeps | Operations |
|---|---|---|---|
| Dispatcher | `daemon/dispatch.ts` | `#watched` (session, task, generation), `#ticking`, `#deliveringEvents`; durable rows in the store | enqueue, enqueueGroup, cancel, hold, unhold, the tick (renew, reclaim, lapse, claim and execute, deliver), the end of a session's turn |
| Store | `daemon/store.ts` | SQLite: sessions, `dispatch_tasks`, `dispatch_events`, goals, audit | one statement per call; a statement fenced by generation and status reports whether it changed a row |
| SessionManager | `daemon/session-manager.ts` | sessions by id, subscribers, the dispatcher's host | create, attach, send, destroy, fork, resume; spawn, continue and prompt workers for the dispatcher |
| Session | `daemon/session.ts` | status, queue of prompts, pending approvals and dialogs, active streamed rows, attached clients, `#resumeKey` | send, interrupt, approve, attach, detach, rewind, rotate, the provider's event loop |
| Scrollback and cursors | `daemon/scrollback.ts`, `packages/core/src/{resume,messages}.ts` | buffered rows with the sequence number of their last change; per client the rows shown and a cursor | push, touch, updateMessage, reads for a replay; ingest on the client |
| DataLock | `daemon/data-lock.ts` | a lock file and a takeover guard in each data directory | acquire, take over a dead daemon's lock, the minute watch, release |
| Shutdown, Supervisor | `daemon/shutdown.ts`, `supervisor.ts` | registered cleanups, a grace timer; one deadline timer | drain in reverse order; interrupt, grace, terminate |
| Loops | `daemon/loops/*` | runs and attempts with a version per run, deadlines, holds | prepare, baseline, attempt, verify, decide, cancel, recover |
| Watches | `daemon/loops/watch-service.ts`, `watch-store.ts` | watches with their trust lists; a ledger of events and the runs they got; heads judged; floors comments are read from | poll GitHub, judge who put a head there, start a run per event, pause, edit, vouch, delete |
| Routines | `daemon/routines/*` | routines, claimed fires, runs, slots | claim due fires, admit (overlap, spend, concurrency), check, prompt, wait, record, pause, prune |
| Pipelines | `daemon/pipeline/*` | phase, gates, findings; a promise chain per pipeline | a pure step function, effects, rehydration |
| MCP hub | `daemon/mcp/*` | one lazily connected client per server, reference counts, tokens | retain, release, call, refresh |
| AsyncQueue | `daemon/async-queue.ts` | a bounded buffer, one waiting consumer | push, next, close |
| Transcript | `daemon/transcript.ts` | an append-only JSONL file per session | append, load, tail |
| Memory, IndexScheduler | `daemon/memory/*` | episodes in SQL, an ingest queue, a debounced index build | ingest, search, schedule |
| Blackboard, Collaboration | `daemon/blackboard/*`, `collaboration.ts` | versioned artifacts by role; role configuration | put, get, list; validate |
| Checkpoints, forks, worktrees | `daemon/checkpoints.ts`, `fork-isolation.ts` | a shadow git repository | git commands in order |
| Providers | `daemon/providers/*` | a child process or an SDK stream per turn | start, send, interrupt, event translation |
| Guards | `daemon/sandbox/*`, `risk/*`, `guard/*`, `held-writes.ts` | almost none | classify a command, a path, a repeated call |
| Accounts, settings, push, hooks, evidence | as listed in PROJECT.json | files and rows with little protocol | read, write, notify |
| Server and clients | `daemon/server.ts`, `src/web`, `src/src/tui`, `packages/*` | sockets; what a user sees | framing, authentication, backpressure; drawing |

Who calls whom:

- The **server** turns frames into calls on the **session manager** and gives each socket a `send`
  and a `flush`; a **session** writes to its transcript, its scrollback and its clients in one
  synchronous piece, and streams a long replay by awaiting `flush` between frames.
- The **dispatcher** talks to sessions only through its host. Its tick claims a row, awaits the host,
  and marks the row by a statement fenced by the generation it claimed. The end of a session's turn
  comes back as a callback that looks the session up in `#watched`.
- A **loop** asks the dispatcher for attempts, holds one while its worker waits for an approval,
  cancels it, and is told its end through the loop host, once, by a call after the row has ended.
- A **watch** polls GitHub, one poll per watch at a time but several watches at once, and asks the loops
  for a run per event; it learns that a run is over by asking, on its next poll.
- A **routine** and a **pipeline** create sessions and wait for the end of their turns.
- The **data lock** is what entitles a process to treat the database as its own: the dispatcher's
  recovery at boot takes every claim of an earlier boot for dead.

### 1.2 What is hard

PROJECT.json lists every hazard met in the reading, at its line, with the property that would catch
it or the reason none does. In short:

- *stale state across an await*: the dispatcher's rows while a host call is out, a watch edited under
  its poll, its watch table when
  a lease lapses under a live worker, an approval answered after its turn ended;
- *crash between two statements*: completion and event, marking and delivery, claim and record, a
  takeover killed in its middle;
- *callbacks out of order*: a replaced worker that finishes, a target that ends another turn while its
  brief is being delivered, hold, unhold, cancel and reclaim meeting on one row;
- *delivery*: a batch of events while more are written, a recipient that is busy, live frames during a
  streamed replay, a connection lost inside one;
- *limits*: the worker cap with parked attempts, the failure limit that counts three kinds of failure;
- *progress*: every task ends and every event arrives, whatever hangs; every start of a daemon decides.

### 1.3 What makes each part correct

- *Dispatcher*: an ended task stays ended; one live try per task; a brief is read once per try that is
  paid for; a panel joins once, after its last member, and a member counts as done only for work done;
  the loop hears of each attempt's end exactly once; events are marked only if handed over; no worker
  session outlives its task; everything queued ends.
- *DataLock*: one daemon per directory; nothing a dead process left behind blocks a start.
- *Scrollback*: a client that reconnects misses nothing, shows nothing that was taken back, and ends
  with the rows as they were committed.
- *Session*: a status that says "working" has a reader that will end it; an approval that waits has
  its call and its waiter; the reader owes exactly the turn ends the backend will send; every accepted message ends as a turn or as an error told to its sender.
- *Watches*: an event gets one run and a branch one at a time; a run starts only on a head trusted under
  the list in force; no comment falls behind the floor the next poll reads from; one that waits on a
  trusted head is settled.
- *Routines*: the overlap policy holds over crashes; a loop is followed by exactly one run; a session
  acts unattended only for a live run; a claimed fire becomes one row, or is lost to a crash; every
  run ends and gives its slot back.
- *Loops*: what is delivered is what the checks proved; one worker on the tree at a time; guidance is
  never lost; the clock runs whenever a worker may; a run that is over leaves nothing at work; every
  run ends or waits for a person.
- *Pipelines*: a run that is over stays over; one saved as running is being driven; a person is asked to
  approve only finished work that saw their notes; every call on a pipeline gets its answer.
- *MCP hub, Shutdown* (planned): a client closed only when nobody holds it; each cleanup once, in
  reverse.

## 2. The modules

| Module | What it is | Lines of code it stands for |
|---|---|---|
| `Dispatch` | the dispatcher, its tables, its host and the loop host | `dispatch.ts`, the `dispatch_*` methods of `store.ts`, `#makeDispatcherHost` in `session-manager.ts`, `loops/host.ts` |
| `DispatchProps` | what should be true of it; its fairness; the refinement mapping | |
| `TaskLifecycle` | the abstract specification: what the queue promises of one task | the contract in the header of `dispatch.ts` |
| `DispatchProofs` | the theorems about it that rows and events carry | |
| `DispatchTurnProofs` | the theorems about what a turn still owes | |
| `MCDispatch` | kinds, targets and groups for TLC | |
| `DataLock`, `MCDataLock` | daemons starting over one data directory | `data-lock.ts`, the signal handler of `shutdown.ts` |
| `DataLockProofs` | the theorems about it | |
| `Replay`, `MCReplay` | one session, one client, its connections | `scrollback.ts`, the attach and rewind parts of `session.ts`, `resume.ts`, `messages.ts` |
| `Session`, `MCSession` | one session over one Claude backend: messages, turns, calls, approvals, Stop | `send`, `#sendInner`, `#consumeEvents`, the approval gate, `interrupt`, `#hardStop`, `terminateBackend` in `session.ts`; the turn queue and query loop of `providers/claude/index.ts` |
| `SessionProofs` | the theorems about it | |
| `Routines`, `MCRoutines` | the routine service: fires, admission, runs, the loops it opens | `routines/service.ts`, the run and claim statements of `routines/store.ts` |
| `RoutinesProofs` | the theorems about it | |
| `Loops`, `MCLoops` | one loop run, its attempts and its workers | `loops/service.ts`, the worker calls of `loops/host.ts`, the dispatcher as the loop sees it |
| `LoopsProofs` | the theorems about it | |
| `Watches`, `MCWatches` | the watches of one owner over one branch and its pull request | `loops/watch-service.ts`, `loops/watch-store.ts` |
| `WatchesProofs` | the theorems about it | |
| `Pipelines`, `MCPipelines` | one pipeline run: its phases, gates and findings loop, the calls on it | `pipeline/engine.ts`, the run half of `pipeline/manager.ts`, the loop state of `pipeline/findings.ts`, the abort and boot of `session-manager.ts` |
| `PipelinesProofs` | the theorems about it | |

PROJECT.json's `map` gives the lines of every definition. Names are those of the code wherever TLA+
allows it (`dispatchClaimNext`, `reclaimStale`, `startGroupedSend`, `takeOver`'s steps, `touch`).

### 2.1 Dispatch

**State.** A function per column of `dispatch_tasks` (`status`, `attempts`, `generation`,
`claim_owner`, `worker`), the event table `events`, and the memory of the running boot: `watched`
(`#watched`), `tick` (`#ticking` and where the pass is), `exec` (the `#execute` it awaits), `delivery`
(the batch out with the host), `inbox` (what the loop host was told). The world is `session` (each
session's status), `born` (the task a session was made for), `conductor` (the recipient of events).
`briefed` and `settled` are history: how often a brief reached a session, how often a loop was told.

**Grain.** A JavaScript turn runs to its end, and an `await` ends it; but each SQL statement commits
by itself. So a handler runs its first statement and leaves the rest in `todo`, one item per
statement; no handler starts while `todo` is not empty; a crash may fall between any two items and
drops what is left. The order of a loop over a set of rows is any order.

**Time** is three flags of a row: `leased` (claimed within the lease), `cooling` (`not_before` ahead),
`lapsed` (`held_until` past). They change at any moment, as they do when a laptop wakes.

**Abstractions.** One daemon, one tenant, one recipient of events, one panel. `thinking` and
`tool_running` are one status, "active". Tasks are claimed in any order (the code's `created_at` order
is among them). `continueAttempt` is not implemented by the host in `session-manager.ts`, so attempts
always spawn. The digest, the audit rows, pruning, and events retired because their goal is gone are
left out.

**Bounds.** `MaxBoots`, `MaxWaits` (approvals asked for) and `MaxGeneration` (how high a row is
claimed) stop counters that nothing in the code stops. `Faults` chooses what else may happen: "crash";
"vanish" (a session destroyed by someone), "throw" (a host call that throws), "lapse" (a lease that
runs out under a live worker), "prompt" (a session prompted by someone else), "busy" (a recipient in a
turn of its own).

**The abstract specification.** In `TaskLifecycle` a task is absent, ready, working, parked, done or
dead; it may fail back to ready only if it is of a kind that retries and its tries stay under the
limit; done and dead are final; only a working task parks. `DispatchProps` maps the table's status and
tries to it (`L == INSTANCE TaskLifecycle WITH ...`), and `ImplementsLifecycle` says that every
behaviour of the dispatcher is one of the life cycle.

### 2.2 DataLock

**State.** What stands under the two shared names, the lock and the takeover guard (a file is the
start that made it, as its nonce makes it in the code); for each start where it is, what it read
(`seen`, `want`), what it has moved aside (`aside`), its tries and its outcome. `Local` is the set of
starts this machine can judge: for the others a file's process may be alive or not.

**Grain.** One action per system call on a shared name: `CreateLock`, `ReadLock`, `Judge` (no call,
but the process judged may die before the next), `CreateGuard`, `ReadGuard`, `JudgeGuard`, the three
of `removeIfStill` (`MoveAside`, `Unlink`, `PutBack`), `Reread`, `Place`, `DropGuard`. A crash falls
between any two. `WatchLost` is the check each daemon makes every minute; `PersonRemoves` is a person
deleting the lock file, which the refusal's message suggests.

**Abstractions.** One directory (`acquireDaemonLocks` runs the same loop for each and gives back those
it holds when one is refused); hard links work; no foreign or unreadable file stands under the names;
process ids are not reused; the private files (the temporary one a link is made from, the directory)
are left out. `OneDaemon` speaks of states in which nobody removed a file by hand.

### 2.3 Replay

**State.** The buffer (`entries`, and for each row `text`, `done`, `at`, the sequence number of its last
change), its counter `seq`, its identity `key` (`#resumeKey`); the replay being streamed with the live
frames kept behind it (`stream`); the frames on their way (`wire`); the client's rows (`shown`, `copy`)
and its `cursor`.

**Correspondence.** `PromptArrives` is `#persistAndBuffer` and its broadcast; `StreamStarts` the first
`text_delta` (row and delta in one piece, as in the handler); `Grows` a further one; `commitStreamed`
is `text_done`; `Attach`, `Drain`, `Hangup` are `#replay`, `#streamReplay` and the socket's close;
`Restart` is `restoreScrollback` in a new daemon, which keeps committed rows only; `Rewind` clears and
refills the buffer under a new key and replays to the client. The client's actions are
`MessageStore.ingest`, with `ResumeCursors` beside it. One thing matters and is easy to overlook: rows
travel by reference until they are serialized. A live frame kept behind a streamed replay leaves as
the row is *then*, with the sequence number it has then (`Put`).

**Abstractions.** A row's text is the pieces streamed into it; rows have size 1, so `PerFrame` and
`Window` count rows (the code's 4 MB per frame and `attachTailBytes`). One client. Eviction, paging
older history, tool-state updates, thinking rows (they stream as answers do) and artificial streaming
are left out; a rewind comes only when no replay is being streamed. A connection is lost with
everything on its way.

### 2.4 Session

**State.** Each message is a `send` (where it is on its way, the Stop count it was sent under, what
became of it). `ses` is the session: its status, the current turn, `#pendingMidTurnCount`, the Stop
count (`stopGen`), whether background tasks are live. `prov` is the adapter: the slot in use, which
turn queues are closed; `queue` holds each turn's events not read yet, `reader` where each turn's
`#consumeEvents` is; `gate` the approvals that wait, with their cards and calls; `cli` the backend
processes.

**Grain.** One action per piece between two awaits: `Begin` (up to the first await of `#sendInner`),
`Prepare`, `Recovered`, `Refuse` / `Join` / `Start`, `PushNow`; a reader takes one event
(`ReadTool`, `Absorb`, `ReadEnd`), breaks, and runs its `finally` (`Exit`) at a moment of its own, which
is what lets an abandoned reader end under the next turn. `HardStop`, `Stop` and `Terminate` are split
at their awaits. The backend is external: it starts turns, makes calls, preempts, speaks with no turn
open, and dies, at any moment.

**Abstractions.** Texts, costs and transcript rows are left out; a call has a card, a gate and an end.
A run draws one *mix* at the start (`Mixes`): which messages and calls there are and how many Stops,
terminations and failures, so that pairs that interfere are explored without the product of all of
them. Not modelled: dialogs, hooks, background reports and wakes, `onRecoveryNeeded`, `setModel`,
rotation, rewind, the other adapters.

### 2.5 Routines

**State.** Per routine: `enabled`, `streak`, `exists`, `kept` (its persistent session), `due`, how many
fires were claimed and how often each was written (`rows`). Per run: its row (`run`), the loop it opened
(`loop`), and the live half that dies with the process: `pc`, `stop` (cancelled or interrupted), `home`
(its session). `turn` is what each session does, `armed` those that act unattended. `todo` holds what is
left of a handler, where the process may die between two statements that are not one transaction.

**Correspondence.** `Tick`, `ListDue`, `ClaimFire`, `Admit` and `RecordSkip` are one pass; `Begin` to
`WoundDown` are `#execute` cut at its awaits; `LoopStart`, `PortStart`, `LoopRecord` are
`#startLoopRun`; `Finish`, `RecordOutcome`, `AutoPause`, `Forget` and `Drain...` what ends a run;
`Boot` is `start` (`interruptActiveRuns`, then `#relinkLoops`). A tick has no await inside: a slot is
taken in the same piece in which a fire is admitted, before the session exists.

**Abstractions.** An ended row keeps only whether it ended or was interrupted; a followed loop that
ended is "over"; a run's `manual` flag is dropped once it ended. A crash between `createSession` and the
row that names it leaves what a crash before it leaves. Assumed: relinking does not fail and loops are
not switched off across a restart; the cancel `delete` sends to a loop takes. Left out: spend and its
trailing hold, daily caps, pruning, API tokens, edits of a routine, notifications.

### 2.6 Loops

**State.** The run (`run`: status, what it waits on, whether prepared, pending guidance, its worker, what
it accepted and delivered), an attempt per row (`att`), the dispatcher's task of each (`task`), the
chain of items the run still has (`chain`, LoopService's promise chain) and the place of the item at
work (`pc`), the clocks (`deadline`), the workers and what acts on the tree (`session`, `armed`, `tree`,
`proven`).

**Grain.** Items of the chain run one after the other; each is cut at its awaits (`Quiesced`,
`Snapshot`, `Checked`, `Created`, `Committed`...). The places in `Mid` are between two statements of one
synchronous piece: nothing else runs there, but the process may die. What arrives in the meantime
(a settle, a moved worker, a steer, a cancel) appends an item or writes its row at once, as the code does.

**Abstractions.** One run. The dispatcher is abstract: a task waits, is claimed, held, over, and its
settle may be lost in a crash; `Boot` is the dispatcher's first pass (which reclaims what the dead boot
had, before the loops start, `server.ts:1062-1066`) and then `LoopService.start`. An interrupt or a
quiesce ends the worker's turn. Costs and minutes are one fault, "time". Left out: the contract's
validation, the check slots and the owner's limit of active runs, worktree reservation and removal,
evidence, "ready" reports, notifications.

### 2.7 Pipelines

**State.** `plan` is the phases' definitions (which gates a phase has, whether it may be skipped, what it
does on failure, whether it runs the findings loop); `saved` the row of the run, which the cache repeats.
Each call on the pipeline has a `kind`, the request it answers (`req`), a place (`at`) and, while it
drives the run, the engine's copy (`run`); `chain` is `#serialize`'s promise chain. `aborted` and
`stopping` are what the evidence service knows: the checks of this pipeline, or all, are to be stopped.

**Grain.** A step of the engine awaits gates and at most one turn, and is saved once, at its end (`Goes`);
so a step is cut at its awaits, `Places`, and what it changed so far lives in `run` only. `SkipProbe`,
`EntryGate`, `ExitGate` and `FixGate` are the ends of a gate; `TurnFails`, `PhaseEnds`, `ReviewEnds` and
`FixEnds` the ends of a turn, by what it brought. A gate whose check is cancelled drops the step
(`Cancelled`). `Shutdown` is the moment the daemon stops its checks, `Crash` the end of the process, and
`Start` `driveResumable`.

**Abstractions.** A report is bad, has blockers, or is clean; of the ledger only "open" is kept. A
request is what asks (entry gate, exit, question) and the phase. `attempts` does not count in ended
phases. `clean`, `ended`, `saw` and `fixed` are history: whether the halt says "review and approve",
how the last saved leg ended, the notes it was given, whether a fix was committed since the last round.
Left out: models, packs, registries, prompts, summaries, evidence ids, the retries inside one turn of
the run's session, a save that fails, and the guard of 10,000 steps, which bounded retries never meet.

### 2.8 Watches

**State.** GitHub is `heads` (what put each head on the branch, who, and whether the activity lists it
yet), `red`, `asked` and `open`. `watch` is the table of watches (on, paused or gone, trust list, floor,
last complete poll; `changed` is `updatedAt`). The ledger is split by what its rows mean: `row` for
events, `refused` for heads judged untrusted; `trusted` is `loop_watch_trusted_heads` with the list it
was judged under, `held` the floors of held pull requests. `poll` is the poll of each watch in flight
with the watch as it read it (`was`), `edit` an update that awaits GitHub. `vouched` is history.

**Grain.** One action per answer of GitHub: `Known` (who gh is), `Targets` (heads and pull requests),
`Judge`, `ReadChecks`, `ReadComments`, and `Pick` with the judgment after it (`NotYet`, `Refuse`,
`GivesUp`, `Loses`, `Start`). Any of them may fail (`CannotRead`, `Errs`, `CannotVouch`), and the writes
of a start may be cut by an error or by the end of the process (`StartRefused`, `StartUnbound`,
`CutStart`). Between them the owner edits, other watches poll and GitHub moves on. An edit that vouches
(`EditBegins`, `EditApplies`) reads the watch, awaits GitHub and then writes.

**Trust.** `Chained` is the walk of `#chainUntrusted` from merge to merge; `Sound` in the property is what
the walk is for, with no memory and no walk: a trusted push, or a head vouched for, with nothing but
merges by trusted logins above it.

**Abstractions.** One owner, one branch, at most one pull request. Skews are zero and a floor is a tick, which
makes the model read less than the code does: a comment in its view is in the code's. The hourly bound
and the owner's limit of runs are skips that may happen. Left out: watches of one's own pull requests
with their baseline, rate limits, checks still running, edited comments, a loop's own delivery,
signatures, auto-merge, the merge queue and gaps in the activity, and what expires after a week.

## 3. The runs

| Run | Instance | Properties | States |
|---|---|---|---|
| `workers` | a spawned worker and a plain send, 3 sessions, 1 slot, 1 boot; everything but crashes | `WatchTableExact` `NoOrphanWorker` `OutcomeTold` `HandedOnce` `TerminalIsFinal` | 2.1 M |
| `attempts` | an attempt and a spawned worker, 1 slot, 2 boots, 1 approval; lapses and crashes | `AttemptSettledOnce` `BriefsArePaid` `ImplementsLifecycle` | 2.8 M |
| `panel` | a panel of two with two targets, 2 tries, 2 boots, 1 approval; lapses, throws, crashes | `PanelBriefedOnce` `BarrierJoinsAll` `EveryEventArrives` | 0.33 M |
| `liveness` | an attempt and a spawned worker, 1 slot, 2 tries, 3 generations, lapses; a second boot or 1 approval, not both | `EveryTaskEnds` | 0.62 M |
| `race` | 3 starts, one that cannot be judged, 2 crashes, 1 removal | `OneDaemon` `NoSpuriousRefusal` `StartsDecide` | 5.7 K |
| `resume` | 3 rows of 2 deltas, 2 restarts or rewinds, 2 lost connections, 1 row per frame | `Converged` `RowsArrive` | 0.19 M |
| `turns` | five mixes of two messages, a main and a background call, a Stop, a termination, a failure; 4 turns, 3 backends | `WorkingHasReader` `PendingIsParked` `AbsorbsOwedEnds` `NeverWedged` `SendsSettle` | 0.58 M |
| `routines` | a loop routine with a check that skips and one that queues and keeps its session; six mixes of faults, 3 runs, 2 fires each, 3 boots, 1 slot | `OverlapHolds` `LoopIsFollowed` `ArmedOnlyLive` `FiresAccounted` `RunsEnd` | 0.6 M |
| `loops` | one run of 2 attempts that count, 4 rows, 3 workers, fourteen mixes of approvals, questions, lapses, pauses, steering, cancels, stops and crashes | `DeliveredProven` `OneWorker` `ReleasedAtEnd` `SteerKept` `RunEnds` | 0.49 M |
| `pipelines` | six plans (a probe that skips, entry and exit gates, each failure policy, the findings loop with and without a fix gate), 3 calls, 1 end of the process, 2 attempts, 1 repair | `RunningIsDriven` `BoundaryIsWork` `OverStaysOver` `CallsSettle` | 90 K |
| `watches` | one or two watches over three heads and two comments, eleven mixes of ticks, arrivals, failing checks, edits, errors, refusals and crashes | `RunsOnce` `CommentInView` `VouchedStarts` `AsksSettle` | 0.52 M |
| `panel_briefed` | see section 4 | one, violated | |

**What they show.** PROJECT.json states each run's result in a sentence; the comment above each
property in its module says what it means and which code it is about. The ones a test would hardly
reach:

- `WatchTableExact`: between turns the watch table is exactly the running rows of this boot, under the
  session and generation of the row. It fails if any of the dozen paths out of "running" forgets its
  entry, or leaves one of a replaced worker.
- `AttemptSettledOnce`: approvals, lapses, cancels, the end of the turn and a reclaim
  meet on one parked attempt, in every order and across a restart; the loop hears one end.
- `BriefsArePaid`: claims lost, turns failed, calls thrown and sends deferred all count against one
  limit, and no mix of them briefs a worker once more than it allows.
- `Converged`: the cursor is raised by live frames, by deltas and by replays, in a
  key that rewinds and restarts change; whatever is lost on the way is sent again, and what the client
  shows in the end is what the daemon holds.
- `EveryTaskEnds`: the attempt and the worker compete for one slot; a parked attempt keeps it, a lost
  claim or an error sends the worker back to the queue behind it, a deferral costs no try, and still both
  end.
- `NoSpuriousRefusal` with `StartsDecide`: a takeover killed between any two system calls never makes
  a later start fail or hang.
- `WorkingHasReader`, `NeverWedged`: whatever order a Stop, a backend's death, a turn of its own and a
  late answer come in, a session that says it works has something that will end that; a spinner that
  turns for ever is this property violated.
- `ArmedOnlyLive`: a session that acts without asking belongs to a live run. It fails if one of the
  ways out of `#execute` (a throw, a cancel while the session is being made, a delete) leaves it armed.
- `OneWorker`: a lost claim, a replaced worker, a restart: two agents never write one tree, and none
  does while a candidate is taken from it.
- `RunEnds`, `RunsEnd`: no crash between two statements leaves a loop or a routine's run that nothing
  will move, but for the cases section 4 names.
- `RunsOnce`: two watches see one comment, judge its head at the same time, and one run starts; a run that
  never had its workspace gives the event back, and only so often.
- `VouchedStarts`: the trust list is narrowed while a poll is between its judgment and its start, and the
  head remembered under the old list, or the poll's own verdict, starts nothing.
- `CommentInView`: a poll that failed, stopped halfway, refused the head or skipped the run moves the
  floor or does not; no order of them moves it past a comment that still waits.
- `RunningIsDriven`: a gate cancelled by an abort or a shutdown ends the drive with the row still running;
  the abort waiting in the chain, or the next boot, takes it on.
- `BoundaryIsWork`: crashed turns, questions, notes, retries and fix legs come in any order, and still
  nothing is green that did not finish, or that was reported before the person's last note.
- `CallsSettle`: the counters of retries, repairs and fix legs reset each other, yet no drive goes round
  for ever, so an abort behind it is reached.

**Why the bounds are enough.** Two tasks suffice for every interaction in the dispatcher: rows meet
only through the worker cap, the panel barrier, a shared session and the batch of events, all pairwise.
Two boots bring every state a crash can leave to one recovery. `MaxGeneration` only bites where a
deferral, which costs no try, could be repeated for ever: every claim costs a generation. In `liveness` three
of them are a claim that is deferred, one whose try fails, and the retry; a task whose deferrals use them up
first waits at the bound, and the property then asks that the task it was deferred behind has ended and
the slot is free (`OutOfClaims`), so a slot nobody leaves, or a cap that admits nobody, is still a violation. There a
crash and an approval do not meet (`OneTrouble`, for the size of the run): `attempts` has them together. Three starts are the fewest with which a
takeover meets a rival takeover and a bystander; `race` holds there, and section 4 says what needs more.
In `resume` three rows streamed one per frame make a replay of three frames, with live frames for a row
already sent and one not yet sent. In `turns` two messages bring every meeting of a send with a turn
(joined, pushed, merged, behind a stalled one), and four turns leave room for one the backend starts
itself and one after a Stop. In `routines` two routines meet only through the slot and the tick; three
runs make one live, one queued and one refused; two fires let a second fall due while the first is in
flight. In `loops` the two attempts that count meet the limit; pauses, lapses, restarts and questions
add at most two rows that do not count, so the four rows are never the reason nothing more happens. In `pipelines` three calls
put an answer or an abort behind a drive and a second answer behind both; two attempts and one repair
make a retry that succeeds and one that is spent. In `watches` two watches, one run each and two tries make every race
for one event; three heads make a chain of two merges over a push; three ticks tell a floor, a comment and a
poll apart in every order. The
mixes of each module name which faults may happen in one behaviour, and how often.

**Deadlock** is checked in every Dispatch run. It is off in DataLock, where all starts may be over, in
Replay and Session, where all messages may be made and read, and in Routines, Loops, Watches and Pipelines, where all
runs may be over.

**What a run does not stress.** In `workers` no task is an attempt or of a panel, so those cases of
`OutcomeTold` are idle there; `OutcomesTold` proves them. `BarrierJoinsAll` says when the merged event may
be written, not how often; section 4 has the double one. No mix of `watches` spends all tries of an
event: that part of `RunsOnce` is carried by its theorem. That a run of `loops` stays within its
attempts, and a port that opens a loop and then fails, have no property.

**Mutants.** Each property of a passing run has a mutant in PROJECT.json: a plausible slip in one
definition that models code (a fence dropped, a counter off by one, an event written at the wrong
place, a guard judged by the wrong rule), stated beside the
original in the module. TLC finds the property violated under each.

### 3.1 Fairness

- *Dispatch* (`DispatchProps`). Weak fairness of the rest of a turn (`RunTurn`), of the interval timer
  (`StartTick`), of the return of a host call and of what follows it; of the clock (a hold lapses, a
  delay ends, a lease runs out, the last only of a worker that is not seen working, since renewal would
  extend it). Strong fairness of the return of a delivery and of the end of a session's turn, which
  other turns may disable and enable again. Nothing says that an approval is answered, that a worker
  succeeds, or that faults stop, except by their bounds. Two of these are assumptions on what the
  dispatcher does not bound itself. A host call returns or throws: ticks do not overlap
  (`dispatch.ts:593`), so one that hung would stop every claim and reclaim. A turn at work ends: a
  lease is renewed for as long as its worker is seen working (`dispatch.ts:717`), so a tool that runs
  for ever holds its task for ever (`supervisor.ts:4-6` says so); the loop's deadline ends that for an
  attempt, the stall watchdog ends a silent turn (`NeverWedged` of `Session`), nothing ends a busy spawned worker.
  `EveryTaskEnds` says nothing of a task whose worker, or whose host call, hangs.
- *DataLock*. Weak fairness of each live process: it takes its next step, and its minute watch fires.
- *Replay*. Weak fairness of reconnecting, of the socket's drain and of its delivery. Nothing says that
  a stream ends: `RowsArrive` speaks of committed rows.
- *Session*. Weak fairness of the session's own handlers and of the watchdog's timer. Nothing is asked
  of the backend (it may be silent for good) or of people.
- *Routines*. Weak fairness of handlers, of the tick, of awaited host calls (each has a time limit) and
  of the end of a run's own turn, which its deadline bounds; a stopped daemon starts again.
- *Loops*. Weak fairness of the chain and of what it awaits (checks and agents run under timeouts), of
  the dispatcher's tick, of the clocks, of the end of an interrupted turn, and of the start after a
  stop. Nothing is asked of a worker's own turns, of people, or of faults.
- *Watches*. Weak fairness of each watch's polls (the interval timer begins one, GitHub answers), of the
  activity listing what it lacks, of the end of a run (its limits bound it), and of the start after a stop.
  Errors are bounded by the mix; nothing is asked of the owner.
- *Pipelines*. Weak fairness of each call's next step: the chain moves on, a gate has a time limit, a turn
  rests (the watched session may be stopped by its person). What gates and reports say is free, and
  nothing says that a daemon that died starts again.

## 4. The disagreements found

One is a run that checks one property and is expected to violate it; PROJECT.json quotes the line the
property comes from.

- **A panel member done with a brief nobody read** (`panel_briefed`). The row is marked running and its
  target watched before the delivery is awaited; the end of a turn the target was already in completes
  the member. The same happens after a delivery that failed and was retried.

Met while modelling, seen in counterexamples of the same models, and not kept as runs:

- *Dispatcher.* `#reclaimStale` blocks every stale member of a panel in one statement and then loops over
  them: each finds its panel complete, and each emits `group_done` (`dispatch.ts:1135`, "exactly one
  emission happens"). A crash between the statement that ends a task and the one that writes its event
  loses the event (`dispatch.ts:22` promises redelivery).
  A crash after a worker's session was created and before its row names it leaves the session to
  nobody: the reclaim finds no worker to tear down.
- *DataLock.* With five starts and one crash, a start that judged a dead guard moves a live one aside
  while a third makes its own; two hold the guard, and two daemons run until the minute watch ends one
  (`data-lock.ts:33-35`).
- *Replay.* Every frame of a streamed replay carries the last sequence number of the whole buffer; the
  client's cursor stands there after the first. A connection lost before the last frame leaves rows the
  daemon will not send again (`session.ts:3451`, against `resume.ts:10-14`). The fault "cut" of the model
  is this; `resume` runs without it.
- *Session.* `#hardStop` leaves the reader of a stalled turn behind, and its comment says the reader's
  `finally` "no-ops via the run guard" (`session.ts:8809`). Only the slots are guarded: the count of pushed
  messages, the cards and the pending approvals of whichever turn is current by then are reset (8674,
  8693, 8706). A push into a backend whose input is closed returns as if delivered
  (`providers/claude/index.ts:1004-1031`, against "never a silent drop", `session.ts:4146`). A message
  submitted before a Stop and pushed after it reaches the turn the Stop did not end: only the path that
  starts a turn asks (`session.ts:5341`). A teardown clears slots a loop rebuilt meanwhile holds
  (`claude/index.ts:985-999`); `interrupt` and `reportSendFailure` set idle while a joined turn runs.
  The loop whose slots were cleared lives on with nobody holding it. Its consumer asks whether it was
  superseded (`claude/index.ts:1575`), its `canUseTool` does not (1498-1527): a call it makes between turns
  opens a turn to which the process now in the slot owes no end, and the session counts that process's
  next end as a boundary; the watchdog is what ends the turn. With three messages, a call and one
  termination or one crash TLC finds `AbsorbsOwedEnds` violated this way; the two messages of `turns` do
  not reach it. It is the step `OrphanTurn` of `SessionProofs`, and with it excluded the property held on
  all 5.9 million states of three messages, and is proved (5.7).
- *Loops.* An attempt whose claim is lost is recorded "first, so a restart in what follows carries on from
  it" (`loops/service.ts:623`); if the run was waiting on an approval and the process dies while the
  worker is quiesced, `start` finds the attempt done but carries on only from a run that is running or
  verifying (269), and the run waits for an approval nobody can give. An attempt still queued whose task ended, and whose settle was lost in a crash, is not looked
  for at boot (`Unheard`, the exception in `RunEnds`). Guidance in the prompt of an attempt whose start
  fails is dropped, since the next prompt takes only what is pending (`docs/loops.md:75` promises the
  next attempt; the exception in `SteerKept`). An owner's answer is lost if the process stops between
  `run.answered` and the attempt it is for.
- *Pipelines.* The promotion from pending to running is saved only at the end of the step. A phase whose
  turn ran and whose exit gate was cancelled by a shutdown is still pending in the store, so on restart a
  probe that now passes marks it skipped and no person is asked, while `engine.ts:97-119` says the skip
  "only pre-empts a never-run phase". A request at the exit has one id for all revisions
  (`exit:<phase>`), so the check for stale answers (`manager.ts:322`) lets an approval that waited behind
  a revision pass the output of that revision, which nobody saw. A repair spent before a question stays
  spent after its answer.
- *Watches.* Two watches that skip one comment share its row, and `defer` gives it to the last
  (`watch-store.ts:409`): the other's floor moves on, and if the last is then paused or deleted neither
  reads the comment again, while `docs/loops.md` has it kept waiting "until it gets its run" (the second
  part of `Owed`). An edit that vouches resolves its spec from the watch it read before its awaits
  (`watch-service.ts:481`), so a trust list changed meanwhile is put back. A crash between the claim and
  the bind leaves a row that is taken and has no run, which nothing gives back. If `bind` fails for a
  comment that was only ever skipped, `release` deletes its row and nothing defers it again, while the run
  it started works unrecorded (the exceptions in `RunsOnce` and `CommentInView`).
- *Reading only.* A rewind in the middle of a streamed replay wraps a client that is already wrapped, and
  the first frame of the fresh view is dropped with the old wrapper's buffer; a row's kept first frame
  carries the text it has grown to, and the deltas kept behind it are appended again until the commit;
  a row older than a paging client's window arrives at the end of its list; a second signal during a
  shutdown exits in the middle of the cleanups, while `server.ts` says one under way is not cut short.

## 5. The proofs

### 5.1 The dispatcher

`DispatchProofs`, and `DispatchTurnProofs` from it, prove for any sets of tasks and sessions, any kinds,
targets and panel, any limits and bounds, and any `Faults`:

| Theorem | Says | Also checked by |
|---|---|---|
| `TypeCorrect` | `Spec => []TypeOK` | |
| `TurnCorrect` | the inductive invariant `TurnInv` | |
| `Finality` | `TerminalIsFinal` | `workers` |
| `BarrierJoins` | `BarrierJoinsAll` | `panel` |
| `HandedBeforeMarked` | `DeliveredWasHanded` | |
| `HandedAtMostOnce` | `HandedOnce`, if no crash happens | `workers` |
| `Implements` | `ImplementsLifecycle` | `attempts` |
| `PanelBriefed` | `PanelBriefedOnce` | `panel` |
| `BriefsPaid` | `BriefsArePaid` | `attempts` |
| `SettledOnce` | `AttemptSettledOnce` | `attempts` |
| `WatchesExact` | `WatchTableExact` | `workers` |
| `OutcomesTold` | `OutcomeTold`, if no crash happens | `workers` |
| `WorkersOwned` | `NoOrphanWorker`, if no crash happens | `workers` |

**Assumptions.** Those of `Dispatch.tla`: the null names are not members, kinds and targets fit, the
set of tasks is finite (the panel barrier counts it), no attempt is a panel member, limits are
positive. `HandedAtMostOnce`, `OutcomesTold` and `WorkersOwned` assume that "crash" is not among the
faults. Each names two statements, and the code has no transaction over them: across a crash between
delivery and marking it promises redelivery; a crash between the row's end and its event loses the
event; one between a worker session's start and the row that records it leaves the session to nobody
(section 4). Every other fault is allowed: refused and lost starts, lapsed leases, deferrals, throws,
late ends, sessions that vanish.

**The argument.** `TypeOK` is inductive; its content is that an item of a turn always has a task, a
generation and a session of the right kind. What makes the rest go through is `TurnInv`: only the
*head* of `todo` may act on a row without asking its generation, and the row is then still as the
statement before left it (an `admit` meets a claimed row, a `resume` a running attempt); everything
after the head is harmless to rows (`CalmItems`); only attempts are held; a panel's rows are absent
together. Neither `TerminalIsFinal` nor the refinement is inductive without it: an `admit` in a state
no turn reaches would revive an ended row. From `TurnInv`, `StoreMove` shows that a step of the
dispatcher is one statement of the store or none, on one row or one set; `TerminalKept`, `BarrierStep`
and `LifecycleStep` are read off it statement by statement. `BatchInv` (what is marked, or about
to be, was handed over; without crashes, what was handed over and is not marked is in the batch out for
delivery) gives the two theorems on events. Each temporal theorem ends in a
PTL step that combines initial states, the step and the consequence.

`PanelInv` and `BriefInv` count briefs beside tries: a row that waits for its claim has paid for all its
briefs, one being tried for all but the last, and a panel member with a worker was briefed.

The rest is about a turn as a list of obligations. A property on what is true *between* turns says
nothing while one runs, so each invariant gives what an item still in `todo` will make good. `LastInv` and
`PassInv` are the order: the item a pass goes on with is the last, and none is there while a call is
awaited, so two of them never meet on a row. `SettleInv`: an attempt has been told of, or one item is to
tell of it, never both. `DutyInv` says what each item relies on when its turn comes and when the watch
table may differ from the rows: only while an item of `Loosening` for that task is left, and then by what
that item removes; with `todo` empty this is `WatchesExact`. `ToldInv`: an ended row has been told
of or has its `emit`, its `settle` or its part of the barrier to come. `OrphanInv`: a live worker is needed by
its row, or is about to be torn down; `CallCrew` and `ItemCrew` say whose worker it is while a start, a
failure or an end is between its statements; it needs all of the above but `SettleInv` and `ToldInv`.

### 5.2 Pipelines

`PipelinesProofs` proves, for any plans, any number of calls and of ends of the process, and any limits:

| Theorem | Says | Also checked by |
|---|---|---|
| `TypeCorrect` | `Spec => []TypeOK` | |
| `Finality` | `OverStaysOver` | `pipelines` |
| `Driven` | `RunningIsDriven` | `pipelines` |
| `Boundaries` | `BoundaryIsWork` | `pipelines` |

**Assumptions.** `ConstantsAssumption`: limits are natural numbers, a phase that retries has at least one
attempt, a plan has a phase, and no phase of the findings loop may be skipped (the pack loader refuses
one that declares both, `pipeline/pack.ts:428`).

**The argument.** None of the three is inductive. `ChainInv` ties the chain to who drives: a call at one of
the `Places` is the head of the chain and its run is not over; every call that waits is in the chain; an
abort asked for has ended the run or waits in the chain; and a run saved as running has its head at work,
or the boot's call before it, unless the process is going down or an abort is to come. From the first
part only the head of the chain saves, and never over an end; the last two give `Driven`, since the
drive that a cancelled gate ends was cancelled by an abort still waiting, or by a shutdown. `WorkInv`
says what is true of the saved run and of each copy at its place: before the exit gate and the fix gate
the copy's leg brought a report and saw every note, and before the exit gate no fix is unreviewed; it
makes `BoundaryIsWork` follow at each halt. The proof goes by what a step may do to the data
(`StepsData`, from one lemma per verdict of the engine) and to the chain (`StepsChain`), each lifted to
calls and to the world.

### 5.3 Watches

`WatchesProofs` proves, for any number of watches, heads, comments, logins and ticks, any number of tries
and any mix of faults:

| Theorem | Says | Also checked by |
|---|---|---|
| `TypeCorrect` | `Spec => []TypeOK` | |
| `TrustedStarts` | `VouchedStarts` | `watches` |
| `OneRun` | `RunsOnce` | `watches` |
| `InView` | `CommentInView` | `watches` |

**Assumptions.** `ConstantsAssumption`: there is a watch, the watching account is a login, the bounds and
the tries are positive, and a mix counts its faults in natural numbers.

**The argument.** A poll works from a copy of its watch, so nothing follows from the ledger alone.
`PollInv` says what the copy is worth: the watch was changed since, and `changed` shows it, or the list
the poll judges by is the list in force. With it `TrustInv` keeps every remembered head, and every
verdict of a poll whose watch is unchanged, sound in the sense of the property, which knows no memory and
no walk; the two readings of the activity meet in one lemma on chains of merges. `RunsInv` ties each run
to the event it was started for: an event has had as many runs as it counts tries, and one more if it
holds one now, whence at most `SetupTries`; and a run that works is the one its event holds. `ViewInv` follows a
comment nobody took up: it is as late as the last complete poll, or held, or a poll in its last stage has
it among what it read, or passes it in a way the end of that poll does not undo. Without the last two
clauses the floor could pass it at `markPolled`.

### 5.4 The data lock

`DataLockProofs` proves, for any number of starts, of tries, of crashes and of removals by hand, whichever
of the starts this machine can judge:

| Theorem | Says | Also checked by |
|---|---|---|
| `TypeCorrect` | `Spec => []TypeOK` | |
| `Undisturbed` | `NoSpuriousRefusal` | `race` |
| `OneDaemonWhileClear` | `Spec /\ []ClearsTheJudged => []OneDaemon` | `race` (without the hypothesis) |

**Assumptions.** `StartsAssumption` (the null start is none of them, those that can be judged are among
them) and `TriesAssumption` (positive tries; counts are natural numbers).

**The hypothesis.** `ClearsTheJudged` says that a start that clears a dead guard moves aside the guard it
judged. `removeIfStill` renames first and looks afterwards, so another may have come in between; that is
the disagreement of section 4, it needs five starts and one crash, and `OneDaemon` does not hold without
the hypothesis. It says nothing of the lock, of the takeover, or of the guard's own removal: that
those never meet another's file is proved. With three starts the hypothesis is not needed (`race`), and states
in which it holds include every takeover of that run that succeeds.

**The argument.** `NamesInv` is the bookkeeping of nonces: a file names a start that has made one, what is
judged dead stays dead, and what a start is about to remove is what it judged. `GuardInv`: between making
the guard and removing it, its maker is the guard. `LockInv`: whoever says the lock is its own is the
lock, and who moves a dead lock aside in a takeover moves that one, because it reread it under the guard.
Then two daemons would be one file. `AloneInv` is for `Undisturbed`: a start with no live rival finds
both names as it last saw them, so each of its tries ends in a lock, or removes something dead, and a
second clearing never comes.

### 5.5 Loops

`LoopsProofs` proves, for any limit, any number of attempts and workers, and any mix of faults:

| Theorem | Says | Also checked by |
|---|---|---|
| `RunHolds` | the inductive invariant `IInv` | |
| `TypeCorrect` | `Spec => []TypeOK` | |
| `DeliversProven` | `DeliveredProven` | `loops` |
| `WorkersTakeTurns` | `OneWorker` | `loops` |
| `ReleasesItsWorkers` | `ReleasedAtEnd` | `loops` |
| `GuidanceIsKept` | `SteerKept` | `loops` |

**Assumptions.** `ConstantsAssumption`: the limit, the rows and the workers are positive, the base is a
tree and "no tree" is none, and a mix counts its faults in natural numbers and allows at least one boot.

**The argument.** The items of the chain and the place of the one at work were read from rows that
requests, settles and restarts have changed since; the invariant says what is still true. `RowsInv`:
attempts are numbered in the order they were made and only the last may be open; one that runs is with the run's worker,
one that is verified has a proven tree. `ItemsInv`: what a waiting item says of its attempt.
`FirstInv`: an item that prepares, or queues an attempt again, is met only as the boot found the run.
`PlaceInv`: at each await, what the place still knows of the run and its attempt. `WorkInv`: only the run's
worker is armed or writes, and once the run is over none is, outside the places that are releasing it.
None of the four properties is inductive by itself: that a candidate delivered is a proven one needs the
verdict carried from the checks to the commit; that one worker acts needs that a worker is spawned only
for the attempt at hand and that every way out of it stops the one before; both
need that a stale item, a settle of a replaced attempt or a verification of one that was given up, finds
its guard closed.

### 5.6 Routines

`RoutinesProofs` proves, for any number of routines, runs, fires, asks and starts, any of the routines
looped, queued, kept or checked, any limits and any mix of faults:

| Theorem | Says | Also checked by |
|---|---|---|
| `RoutinesHold` | the inductive invariant `IInv` | |
| `TypeCorrect` | `Spec => []TypeOK` | |
| `NeverOverlaps` | `OverlapHolds` | `routines` |
| `LoopsAreFollowed` | `LoopIsFollowed` | `routines` |
| `ArmedAreLive` | `ArmedOnlyLive` | `routines` |
| `FiresAreCounted` | `FiresAccounted` | `routines` |

**Assumptions.** `ConstantsAssumption`: there are finitely many routines (the room for fires that are due is
counted), "none" is not one of them, looped routines neither queue nor keep a session, and the bounds
are natural numbers, those on runs, slots and starts positive.

**The argument.** What a handler has still to do is in `todo`, so every property is about statements that
have not run. `QueueInv` gives the queue its shape: the statement of an execution is only ever at the
head, a run's `finally` is in it once at most and only while the run is live, and a fire on its way to a
row is behind nothing but statements that bring loops and outcomes up to date. `LiveInv`: a routine has one
live run; one that is ending has its row closed or left to the loop, any other is the only writer of its
row, which is open, or was closed or deleted by a `delete` that told the run. `RunsInv`: an
open row is of a live run, or queued, or follows a loop, or the process is down; a loop in progress has
its run open, and the run names it but for the statement `LoopRecord` and the time until the next
start. `OverlapInv` is then kept by the one step that opens a row, `Admit`, because it sees every open
row of its routine, and by `Boot`, because it reopens only rows whose loop is still in progress, and those are
open already. `ArmedInv`: an armed session is that of a live run whose end has not been written; with no
`todo` left this is `ArmedOnlyLive`. `FireInv` and `RoomInv`: one fire at a time is claimed and has no row
yet, it is there in `todo`, and a free row is kept for it and for each fire that is due, so only `Exit`
loses one. The lemmas sort the steps of the specification into four kinds by what they change of a run: nothing
(`Quiet`), the end of a live run (`Ends`), the end of a row nobody works on (`RowEnds`), and an execution
that goes on (`Moves`); `CoreInv` is shown once for each kind, and separately for the steps that
take or forget a live run, admit a fire, delete, crash and start.

The proof is for `Spec`, without fairness; that runs end (`RunsEnd`) is checked by `routines`.

### 5.7 The session

`SessionProofs` proves, for any messages, calls, background calls, any bounds on turns and backends, and
any mix of Stops, terminations and crashes:

| Theorem | Says | Also checked by |
|---|---|---|
| `Typed` | `Spec => [](TypeOK /\ ChainInv)` | |
| `PendingAlwaysParked` | `PendingIsParked` | `turns` |
| `WorkingAlwaysRead` | `WorkingHasReader` | `turns` |
| `EndsAreOwed` | `Spec /\ [][~OrphanTurn]_vars => []AbsorbsOwedEnds` | `turns` (without the hypothesis) |

**Assumptions.** `SessionAssumption`: messages and calls are finitely many, the background calls are
calls, the bounds on turns and backends are positive, and a mix counts its faults in natural numbers.

**The hypothesis.** `OrphanTurn` is one step: with no turn open, a process that was let go of asks for a
tool in the foreground. The property does not hold across it, as section 4 tells; nothing else is asked
of the backend, which may still die, stall, speak, preempt and start turns of its own at any moment, nor
of processes let go of, which may run on. The run `turns` checks the property without the
hypothesis; its two messages are too few to break it.

**The argument.** The types need `ChainInv`: the sends that have begun and are not settled are at most
one, the head of the chain; otherwise a settled send could be dropped from an empty chain. The approvals
are inductive by themselves, path by path: what settles a call's approval takes its card out of `pend` in
the same step. For the status, turns are numbered as they begin and the active one is not above the count,
so a turn that begins takes over no older one's reader. For the ends, `SlotInv` says that between turns no
end is waited for, that the slot holds the newest process, and that the turn being read is the one the
provider has open. Then an end is taken off the queue, pushed by the process in the slot, or promised by a
push, and the reader's count moves with it; the count of ends in a queue needs only what it is for a
longer queue and for its tail.

### 5.8 Only model-checked

`Converged` of `Replay`, and its `TypeOK`. What a client has in the end is a fold over the frames on their
way, over lists the model filters with `SelectSeq`; both are recursive, and that they commute for lists of
every length takes induction over data, which the provers here cannot do. Liveness under
fairness (`EveryTaskEnds`, `EveryEventArrives`, `StartsDecide`, `RowsArrive`, `NeverWedged`,
`SendsSettle`, `RunsEnd`, `RunEnds`, `CallsSettle`, `AsksSettle`) is out of TLAPS's reach and stays with TLC.
Every other invariant and action property of the passing runs is stated by a theorem, two of them under a
hypothesis of their own (5.4, 5.7) and three for daemons that do not crash (5.1).

## 6. What is not modelled, and the plan

Done, in this order: **Dispatch** with its abstract life cycle and its proofs, **DataLock**, **Replay**,
**Session**, **Routines**, **Loops**, **Pipelines** with its proofs, **Watches**, and the proofs of **Watches**,
**DataLock**, **Loops**, **Routines**, of what a turn of the dispatcher owes, and of **Session**. What would
come next:

1. *Proofs.* `Replay`: its types, and that a cursor never stands ahead of the buffer's counter.
   `OutcomeTold` and `NoOrphanWorker` over crashes, as the rows and sessions a crash may leave at most.
2. *Composition.* `Routines` and `Watches` see a loop as a run that ends, `Loops` sees an abstract dispatcher; a mapping of its `task` to `TaskLifecycle` would
   show that both speak of the same queue.
3. *Shutdown*, *MCP hub*: each cleanup once and in reverse, a second signal; reference counts around a
   lazy connection.
4. Two daemons of one database, under `DataLock`'s failures: what the fences still guarantee.

Left out for good: user interfaces, protocol types and schemas, the event translation of the
providers, the pure classification of commands and paths, git plumbing, ranking in the memory engine.
They keep no state of their own, or none whose order matters, or they are someone else's program.
PROJECT.json's `components` gives the reason for each.
