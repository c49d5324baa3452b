------------------------------ MODULE Routines ------------------------------
(* The routine scheduler (src/daemon/routines/service.ts, store.ts): fires     *)
(* that fall due or are asked for, the runs they are admitted as, and the      *)
(* execution of a run: a check, then a session it prompts and waits for, or a  *)
(* loop it starts and follows.  The store survives a crash; the live runs, the *)
(* session modes and the marks of a delete in progress do not.                 *)
(* JavaScript runs one handler at a time: what a handler does after its first  *)
(* statement stands in `todo`, in order, and while it is not empty nothing     *)
(* else happens, except that the process may die between two statements.       *)
EXTENDS Naturals, FiniteSets, Sequences, FiniteSetsExt

CONSTANTS Routines,
          Looped,       \* the routines whose work is a loop; they never overlap
          Queued,       \* the routines whose fire waits behind the run in flight
          Kept,         \* the routines with one session for all their runs
          Checked,      \* the routines with a check
          MaxLive,      \* config.maxConcurrentRuns
          FailurePauseAfter,
          MaxRuns,
          Mixes,        \* bound: what may go wrong in one behaviour, of which routines, and how much happens
          MaxDue,       \* bound: scheduled fires of one routine
          MaxBoots,     \* bound: starts of the daemon
          MaxAsks       \* bound: the owner's fires and the turns they start

FaultKinds == {"refuse", "late", "throw", "conflict", "vanish", "crash", "stop", "delete", "cancel", "pause"}

ASSUME ConstantsAssumption ==
    /\ IsFiniteSet(Routines) /\ "none" \notin Routines
    /\ Looped \subseteq Routines /\ Queued \subseteq Routines \ Looped
    /\ Kept \subseteq Routines \ Looped /\ Checked \subseteq Routines
    /\ {MaxLive, FailurePauseAfter, MaxRuns, MaxBoots} \subseteq Nat \ {0}
    /\ {MaxDue, MaxAsks} \subseteq Nat
    /\ Mixes \subseteq [faults : SUBSET FaultKinds, of : SUBSET Routines,
                       runs : 1 .. MaxRuns, asks : 0 .. MaxAsks, dues : 0 .. MaxDue]

Runs == 1 .. MaxRuns            \* rows and sessions are numbered as they are made
NoRun == 0

Active == {"queued", "checking", "running"}
Results == {"succeeded", "failed", "needs_attention", "skipped", "cancelled", "interrupted"}
Outcomes == {"succeeded", "failed", "needs_attention"}      \* silent is succeeded, a limit hit is failed
Ended == {"ended", "interrupted"}       \* all the row of an ended run tells apart from here on
LoopEnds == {"completed", "failed", "blocked", "cancelled"}

VARIABLES
    enabled, streak, exists, kept,  \* routines: the rows of the table
    due, claimed,                   \* the schedule: a fire is due; how many were claimed
    rows,                           \* rows[r][k]: run rows written for r's k-th fire
    run,                            \* routine_runs
    loop,                           \* loop[x]: the loop whose trigger names run x
    pc, stop, ends,                 \* live[x]: where #execute is, live.cancelled, how it will end
    home,                           \* live[x].sessionId
    deleting, stopped,              \* #deleting, #stopped
    up, boots, todo,
    mix,                            \* bound: which of Mixes this behaviour is
    turn, armed,                    \* sessions: the turn, and mode autonomous
    asks                           \* history: the owner's fires and turns

rowVars == <<enabled, streak, exists, kept>>
fireVars == <<due, claimed, rows>>
liveVars == <<pc, stop, ends, home>>
procVars == <<deleting, stopped, up, boots, mix>>
sessVars == <<turn, armed>>
histVars == <<asks>>
vars == <<rowVars, fireVars, run, loop, liveVars, procVars, todo, sessVars, histVars>>

Empty == [status |-> "none", routine |-> "none", manual |-> FALSE, loop |-> FALSE]

Init ==
    /\ enabled = [r \in Routines |-> TRUE] /\ streak = [r \in Routines |-> 0]
    /\ mix \in Mixes /\ exists = [r \in Routines |-> r \in mix.of] /\ kept = [r \in Routines |-> NoRun]
    /\ due = [r \in Routines |-> FALSE] /\ claimed = [r \in Routines |-> 0]
    /\ rows = [r \in Routines |-> [k \in 1 .. MaxDue |-> 0]]
    /\ run = [x \in Runs |-> Empty] /\ loop = [x \in Runs |-> "none"]
    /\ pc = [x \in Runs |-> "off"] /\ stop = [x \in Runs |-> "no"]
    /\ ends = [x \in Runs |-> "none"] /\ home = [x \in Runs |-> NoRun]
    /\ deleting = {} /\ stopped = FALSE /\ up = TRUE /\ boots = 1 /\ todo = <<>>
    /\ turn = [x \in Runs |-> "none"] /\ armed = {}
    /\ asks = 0

-----------------------------------------------------------------------------
(* What the handlers read.                                                    *)

Live == {x \in Runs : pc[x] # "off"}
ActiveRuns(r) == {x \in Runs : run[x].routine = r /\ run[x].status \in Active}
Following == {x \in Runs : run[x].status \in Active /\ run[x].loop}
Unused == {x \in 1 .. mix.runs : run[x].status = "none"}
Idle == up /\ todo = <<>>
Fault(f) == f \in mix.faults
Front(frames) == todo' = frames \o Tail(todo)
Doing(op) == up /\ todo # <<>> /\ Head(todo)[1] = op
Arg == Head(todo)[2]

\* A routine has one live run.
RoutineIsLive(r) == \E y \in Live : run[y].routine = r
Drainable == {x \in Runs \ Live : run[x].status = "queued" /\ run[x].routine \notin deleting}
Lapsed == {x \in Drainable : ~enabled[run[x].routine] /\ ~run[x].manual}
Startable == {x \in Drainable \ Lapsed : ~RoutineIsLive(run[x].routine)}
Drains == IF stopped \/ Cardinality(Live) >= MaxLive THEN {} ELSE Lapsed \cup Startable

\* Runs whose loop is over, of one routine or of all (0).
Over(which) == {x \in Following : loop[x] \in LoopEnds /\ exists[run[x].routine] /\ which \in {0, run[x].routine}}

(* When the frames of a run's execution that has ended are done, its `finally` *)
(* takes it out of the live set and lets the next one start.                   *)
Closing(x) == <<<<"forget", x>>, <<"drain", 0>>>>

\* #finishRun up to the row's end; the outcome and the pause are statements of their own.
Counted(x, result) == IF result \in Outcomes THEN <<<<"outcome", x, result = "failed">>>> ELSE <<>>
Row(x, result) == [run[x] EXCEPT !.manual = FALSE, !.status =
                     IF @ = "deleted" THEN @ ELSE IF result = "interrupted" THEN result ELSE "ended"]
LeavesArmedIfStopped(x, result) == home[x] = NoRun \/ result \in {"cancelled", "interrupted"}
LeavesArmed(x, result) == home[x] = NoRun
Finish(x, result) ==
    /\ run' = [run EXCEPT ![x] = Row(x, result)]
    /\ armed' = IF LeavesArmed(x, result) THEN armed ELSE armed \ {home[x]}

\* A run that ended because of its owner or because the daemon stops.
StoppedAs(x) == IF stop[x] = "interrupted" THEN "interrupted" ELSE "cancelled"

-----------------------------------------------------------------------------
(* The schedule and the requests.                                             *)

\* Time reaches the next fire of r's schedule.
FallsDue(r) ==
    /\ todo = <<>> /\ exists[r] /\ ~due[r] /\ claimed[r] < mix.dues
    /\ Cardinality(Unused) > Cardinality({q \in Routines : due[q]})
    /\ due' = [due EXCEPT ![r] = TRUE]
    /\ UNCHANGED <<rowVars, claimed, rows, run, loop, liveVars, procVars, todo, sessVars, histVars>>

Due == {r \in Routines : due[r] /\ enabled[r] /\ exists[r]}
\* A pass that would find nothing to do is left out.
Tick ==
    /\ Idle /\ ~stopped
    /\ Due \ deleting # {} \/ Over(0) # {} \/ Drains # {}
    /\ todo' = <<<<"follow", 0>>, <<"listDue", 0>>, <<"follow", 0>>, <<"drain", 0>>>>
    /\ UNCHANGED <<rowVars, fireVars, run, loop, liveVars, procVars, sessVars, histVars>>

ListDue ==
    /\ Doing("listDue")
    /\ \E f \in [1 .. Cardinality(Due) -> Due] :
          /\ \A i, j \in DOMAIN f : i # j => f[i] # f[j]
          /\ Front([i \in DOMAIN f |-> <<"fire", f[i]>>])
    /\ UNCHANGED <<rowVars, fireVars, run, loop, liveVars, procVars, sessVars, histVars>>

(* claimFire moves the schedule on, then the fire becomes a row: skipped when  *)
(* it is too late, admitted otherwise.                                         *)
AfterClaim(r, k) == {<<"admit", r, k, FALSE>>} \cup (IF Fault("late") THEN {<<"skip", r, k>>} ELSE {})
MovesOnLater(r) == UNCHANGED <<due, claimed>>
MovesOn(r) == due' = [due EXCEPT ![r] = FALSE] /\ claimed' = [claimed EXCEPT ![r] = @ + 1]
ClaimFire ==
    /\ Doing("fire")
    /\ LET r == Arg IN
       IF due[r] /\ enabled[r] /\ exists[r] /\ r \notin deleting
         THEN /\ MovesOn(r)
              /\ \E next \in AfterClaim(r, claimed[r] + 1) : Front(<<next>>)
         ELSE Front(<<>>) /\ UNCHANGED <<due, claimed>>
    /\ UNCHANGED <<rowVars, rows, run, loop, liveVars, procVars, sessVars, histVars>>

\* A row of r's k-th fire; a fire somebody asked for has k = 0.
Written(r, k) == IF k = 0 THEN rows ELSE [rows EXCEPT ![r][k] = @ + 1]

RecordSkip ==
    /\ Doing("skip")
    /\ rows' = Written(Arg, Head(todo)[3])
    /\ Front(<<>>)
    /\ UNCHANGED <<rowVars, due, claimed, run, loop, liveVars, procVars, sessVars, histVars>>

(* #admit.  A run that follows a loop is brought up to date first.            *)
LoopIsOver(r) == \E x \in ActiveRuns(r) : run[x].loop /\ loop[x] \in LoopEnds
Waiting(x) == run[x].status = "queued" /\ x \notin Live
StandsDownIfLive(r) == RoutineIsLive(r) /\ r \notin Queued
StandsDown(r) ==
    \/ \E x \in ActiveRuns(r) : run[x].loop \/ Waiting(x)
    \/ ActiveRuns(r) # {} /\ r \notin Queued
Admit ==
    /\ Doing("admit")
    /\ LET r == Arg
           k == Head(todo)[3]
           x == Min(Unused)
       IN \/ /\ r \in deleting
             /\ Front(<<>>) /\ UNCHANGED <<rows, run>>
          \/ /\ r \notin deleting /\ LoopIsOver(r)
             /\ todo' = <<<<"follow", r>>>> \o todo /\ UNCHANGED <<rows, run>>
          \/ /\ r \notin deleting /\ ~LoopIsOver(r) /\ StandsDown(r)
             /\ Front(<<<<"skip", r, k>>>>) /\ UNCHANGED <<rows, run>>
          \/ /\ r \notin deleting /\ ~LoopIsOver(r) /\ ~StandsDown(r)
             /\ run' = [run EXCEPT ![x] = [status |-> "queued", routine |-> r, manual |-> Head(todo)[4], loop |-> FALSE]]
             /\ rows' = Written(r, k)
             /\ Front(<<<<"drain", 0>>>>)
    /\ UNCHANGED <<rowVars, due, claimed, loop, liveVars, procVars, sessVars, histVars>>

\* Run now, from a client (manual) or the API, which a paused routine refuses.
Fire(r, manual) ==
    /\ Idle /\ exists[r] /\ r \notin deleting /\ (manual \/ enabled[r])
    /\ Cardinality(Unused) > Cardinality({q \in Routines : due[q]})
    /\ asks < mix.asks /\ asks' = asks + 1
    /\ todo' = <<<<"admit", r, 0, manual>>>>
    /\ UNCHANGED <<rowVars, fireVars, run, loop, liveVars, procVars, sessVars>>

-----------------------------------------------------------------------------
(* #drainQueue and #execute.                                                  *)

DrainEnds ==
    /\ Doing("drain") /\ Drains = {}
    /\ Front(<<>>)
    /\ UNCHANGED <<rowVars, fireVars, run, loop, liveVars, procVars, sessVars, histVars>>

DrainSkips ==
    /\ Doing("drain") /\ Drains # {}
    /\ LET x == Min(Drains) IN
       /\ x \in Lapsed
       /\ run' = [run EXCEPT ![x] = Row(x, "skipped")]
    /\ UNCHANGED <<rowVars, fireVars, loop, liveVars, procVars, todo, sessVars, histVars>>

DrainStarts ==
    /\ Doing("drain") /\ Drains # {}
    /\ LET x == Min(Drains) IN
       /\ x \in Startable
       /\ pc' = [pc EXCEPT ![x] = "begin"] /\ stop' = [stop EXCEPT ![x] = "no"]
       /\ home' = [home EXCEPT ![x] = NoRun] /\ ends' = [ends EXCEPT ![x] = "none"]
       /\ todo' = <<<<"begin", x>>>> \o todo
    /\ UNCHANGED <<rowVars, fireVars, run, loop, procVars, sessVars, histVars>>

(* The first stretch of #execute: the daily cap, the backend and the working   *)
(* directory may refuse the run; a check is awaited; else the work starts.     *)
Begin ==
    /\ Doing("begin")
    /\ LET x == Arg
           r == run[x].routine
       IN \/ /\ Fault("refuse")
             /\ \E status \in {"skipped", "failed"} :
                   /\ Finish(x, status)
                   /\ todo' = Counted(x, status) \o Tail(todo) \o Closing(x)
             /\ UNCHANGED pc
          \/ /\ r \in Checked
             /\ run' = [run EXCEPT ![x].status = "checking"] /\ pc' = [pc EXCEPT ![x] = "check"]
             /\ Front(<<>>) /\ UNCHANGED armed
          \/ /\ r \notin Checked
             /\ Front(<<<<"work", x>>>>) /\ UNCHANGED <<run, pc, armed>>
    /\ UNCHANGED <<rowVars, fireVars, loop, stop, ends, home, procVars, turn, histVars>>

\* The check's process ended, or was killed by the run's abort.
CheckEnds(x) ==
    /\ Idle /\ pc[x] = "check"
    /\ \/ /\ stop[x] # "no"
          /\ Finish(x, StoppedAs(x)) /\ todo' = Closing(x)
       \/ /\ stop[x] = "no"
          /\ \E status \in {"failed", "succeeded"} :      \* succeeded: silent, nothing to do
                Finish(x, status) /\ todo' = Counted(x, status) \o Closing(x)
       \/ /\ stop[x] = "no"
          /\ todo' = <<<<"work", x>>>> /\ UNCHANGED <<run, armed>>
    /\ UNCHANGED <<rowVars, fireVars, loop, liveVars, procVars, turn, histVars>>

\* The kept session, if there is one: at rest it is armed and used, else the fire stands down.
Alive(s) == s # NoRun /\ turn[s] \notin {"none", "gone"}
Busy(s) == turn[s] # "idle"
UseKept(x, s) ==
    IF Busy(s)
      THEN /\ Finish(x, "skipped") /\ todo' = Tail(todo) \o Closing(x)
           /\ UNCHANGED <<pc, home>>
      ELSE /\ armed' = armed \cup {s} /\ home' = [home EXCEPT ![x] = s]
           /\ run' = [run EXCEPT ![x].status = "running"]
           /\ pc' = [pc EXCEPT ![x] = "send"] /\ Front(<<>>)
Work ==
    /\ Doing("work")
    /\ LET x == Arg
           r == run[x].routine
           s == kept[r]
       IN \/ /\ r \in Looped /\ Front(<<<<"loopStart", x>>>>)
             /\ UNCHANGED <<run, pc, home, armed>>
          \/ /\ r \in Kept /\ Alive(s) /\ UseKept(x, s)
          \/ /\ r \notin Looped /\ ~(r \in Kept /\ Alive(s))
             /\ pc' = [pc EXCEPT ![x] = "create"] /\ Front(<<>>)
             /\ UNCHANGED <<run, home, armed>>
    /\ UNCHANGED <<rowVars, fireVars, loop, stop, ends, procVars, turn, histVars>>

-----------------------------------------------------------------------------
(* A run with a session.                                                      *)

\* createSession refuses: a worktree that can't be made, or the run's abort.
CreateFails(x) ==
    /\ Idle /\ pc[x] = "create" /\ (Fault("throw") \/ stop[x] # "no")
    /\ LET result == IF stop[x] = "no" THEN "failed" ELSE StoppedAs(x) IN
       Finish(x, result) /\ todo' = Counted(x, result) \o Closing(x)
    /\ UNCHANGED <<rowVars, fireVars, loop, liveVars, procVars, turn, histVars>>

(* The session is there, armed.  It is the run's before any store write, which *)
(* may throw; a run cancelled meanwhile stops here, its session disarmed.      *)
HasSession(x) == home' = [home EXCEPT ![x] = x]
AfterCreate(x) == IF stop[x] # "no" THEN "stop" ELSE "send"
Created(x) ==
    /\ Idle /\ pc[x] = "create"
    /\ turn' = [turn EXCEPT ![x] = "idle"] /\ armed' = armed \cup {x}
    /\ kept' = LET r == run[x].routine IN
               IF r \in Kept /\ exists[r] THEN [kept EXCEPT ![r] = x] ELSE kept
    /\ HasSession(x)
    /\ \/ /\ Fault("throw") /\ todo' = <<<<"finish", x, "failed">>>> \o Closing(x)
          /\ UNCHANGED <<run, pc>>
       \/ /\ run' = [run EXCEPT ![x].status = IF @ = "deleted" THEN @ ELSE "running"]
          /\ \/ /\ AfterCreate(x) = "stop" /\ UNCHANGED pc
                /\ todo' = <<<<"finish", x, StoppedAs(x)>>>> \o Closing(x)
             \/ /\ AfterCreate(x) = "send" /\ UNCHANGED todo
                /\ pc' = [pc EXCEPT ![x] = "send"]
    /\ UNCHANGED <<enabled, streak, exists, fireVars, loop, stop, ends, procVars, histVars>>

Finishing ==
    /\ Doing("finish")
    /\ Finish(Arg, Head(todo)[3]) /\ Front(Counted(Arg, Head(todo)[3]))
    /\ UNCHANGED <<rowVars, fireVars, loop, liveVars, procVars, turn, histVars>>

\* The prompt is in the session: its turn begins, or joins the one that runs.
Sent(x) ==
    /\ Idle /\ pc[x] = "send" /\ turn[home[x]] # "gone"
    /\ turn' = [turn EXCEPT ![home[x]] = IF @ = "idle" THEN "run" ELSE @]
    /\ pc' = [pc EXCEPT ![x] = "wait"]
    /\ UNCHANGED <<rowVars, fireVars, run, loop, stop, ends, home, procVars, todo, armed, asks>>

SendFails(x) ==
    /\ Idle /\ pc[x] = "send" /\ (Fault("throw") \/ turn[home[x]] = "gone")
    /\ Finish(x, "failed") /\ todo' = Counted(x, "failed") \o Closing(x)
    /\ UNCHANGED <<rowVars, fireVars, loop, liveVars, procVars, turn, histVars>>

(* One pass of the wait: cancelled or out of time, the run winds its session   *)
(* down first; parked, the session is left to its owner; at rest, it is done.  *)
WaitEnds(x) ==
    /\ Idle /\ pc[x] = "wait" /\ stop[x] = "no"
    /\ \E result \in CASE turn[home[x]] = "gone" -> {"failed"}
                       [] turn[home[x]] = "parked" -> {"needs_attention"}
                       [] turn[home[x]] = "idle" -> {"succeeded", "failed"}
                       [] OTHER -> {} :
          Finish(x, result) /\ todo' = Counted(x, result) \o Closing(x)
    /\ UNCHANGED <<rowVars, fireVars, loop, liveVars, procVars, turn, histVars>>

StartsWindDown(x) ==
    /\ Idle /\ pc[x] = "wait"
    /\ stop[x] # "no" \/ turn[home[x]] \in {"run", "owner"}     \* the deadline, or a cap
    /\ pc' = [pc EXCEPT ![x] = "windDown"]
    /\ ends' = [ends EXCEPT ![x] = IF stop[x] = "no" THEN "failed" ELSE StoppedAs(x)]
    /\ UNCHANGED <<rowVars, fireVars, run, loop, stop, home, procVars, todo, sessVars, histVars>>

\* The interrupt took, or the turn would not stop within the polls allowed.
WoundDown(x) ==
    /\ Idle /\ pc[x] = "windDown"
    /\ turn' \in {turn, [turn EXCEPT ![home[x]] = IF @ = "gone" THEN @ ELSE "idle"]}
    /\ Finish(x, ends[x]) /\ todo' = Counted(x, ends[x]) \o Closing(x)
    /\ UNCHANGED <<rowVars, fireVars, loop, liveVars, procVars, histVars>>

-----------------------------------------------------------------------------
(* A run that follows a loop (#startLoopRun, #followLoops).                   *)

(* The run is running before the loop exists, and records the loop after: a    *)
(* process that dies in between leaves a run the next start links to it.       *)
LoopStart ==
    /\ Doing("loopStart")
    /\ LET x == Arg
           r == run[x].routine
       IN \/ /\ r \in deleting
             /\ Finish(x, "cancelled") /\ todo' = Tail(todo) \o Closing(x)
          \/ /\ r \notin deleting
             /\ run' = [run EXCEPT ![x].status = "running"]
             /\ Front(<<<<"portStart", x>>>>) /\ UNCHANGED armed
    /\ UNCHANGED <<rowVars, fireVars, loop, liveVars, procVars, turn, histVars>>

PortStart ==
    /\ Doing("portStart")
    /\ LET x == Arg
       IN \/ /\ Fault("conflict")
             /\ \E result \in {"skipped", "failed"} :
                   Finish(x, result) /\ todo' = Counted(x, result) \o Tail(todo) \o Closing(x)
             /\ UNCHANGED loop
          \/ /\ loop' = [loop EXCEPT ![x] = "active"]
             /\ Front(<<<<"loopRecord", x>>>>) /\ UNCHANGED <<run, armed>>
    /\ UNCHANGED <<rowVars, fireVars, liveVars, procVars, turn, histVars>>

LoopRecord ==
    /\ Doing("loopRecord")
    /\ run' = [run EXCEPT ![Arg].loop = TRUE, ![Arg].status = "running"]
    /\ todo' = Tail(todo) \o Closing(Arg)
    /\ UNCHANGED <<rowVars, fireVars, loop, liveVars, procVars, sessVars, histVars>>

\* routineOutcomeOfLoop; a loop blocked before any attempt had nothing to repair.
OutcomeOf(end) ==
    CASE end = "completed" -> {"succeeded"}
      [] end = "blocked" -> {"failed", "succeeded"}        \* needs_attention, counted as a failure
      [] end = "cancelled" -> {"cancelled"}
      [] end = "failed" -> {"failed"}
FollowLoops ==
    /\ Doing("follow")
    /\ LET over == Over(Arg)
           x == Min(over)
       IN \/ /\ over = {} /\ Front(<<>>) /\ UNCHANGED <<run, armed, loop>>
          \/ /\ over # {}
             /\ \E result \in OutcomeOf(loop[x]) :
                   Finish(x, result) /\ todo' = Counted(x, result) \o todo
             /\ loop' = [loop EXCEPT ![x] = "over"]     \* its row is not read again
    /\ UNCHANGED <<rowVars, fireVars, liveVars, procVars, turn, histVars>>

\* The loop service ends a loop and says so; before the scheduler has started nobody listens.
LoopEnded(x, end) ==
    /\ loop[x] = "active" /\ todo = <<>>
    /\ loop' = [loop EXCEPT ![x] = end]
    /\ todo' = IF up THEN <<<<"follow", run[x].routine>>>> ELSE <<>>
    /\ UNCHANGED <<rowVars, fireVars, run, liveVars, procVars, sessVars, histVars>>

-----------------------------------------------------------------------------
(* The rest of #finishRun, and the `finally` of an execution.                 *)

StreakAfter(r, failed) == IF failed THEN streak[r] + 1 ELSE 0
MustPause(r, failed) == failed /\ StreakAfter(r, failed) >= FailurePauseAfter
RecordOutcome ==
    /\ Doing("outcome")
    /\ LET r == run[Arg].routine
           failed == Head(todo)[3]
       IN IF run[Arg].status = "deleted" THEN Front(<<>>) /\ UNCHANGED streak
          ELSE /\ streak' = [streak EXCEPT ![r] = StreakAfter(r, failed)]
               /\ Front(IF MustPause(r, failed) THEN <<<<"pause", r>>>> ELSE <<>>)
    /\ UNCHANGED <<enabled, exists, kept, fireVars, run, loop, liveVars, procVars, sessVars, histVars>>

AutoPause ==
    /\ Doing("pause")
    /\ enabled' = [enabled EXCEPT ![Arg] = FALSE] /\ Front(<<>>)
    /\ UNCHANGED <<streak, exists, kept, fireVars, run, loop, liveVars, procVars, sessVars, histVars>>

ForgottenNever(x) == pc' = [pc EXCEPT ![x] = "begin"]
Forgotten(x) == pc' = [pc EXCEPT ![x] = "off"]
Forget ==
    /\ Doing("forget")
    /\ Forgotten(Arg)
    /\ stop' = [stop EXCEPT ![Arg] = "no"] /\ ends' = [ends EXCEPT ![Arg] = "none"]
    /\ home' = [home EXCEPT ![Arg] = NoRun] /\ Front(<<>>)
    /\ UNCHANGED <<rowVars, fireVars, run, loop, procVars, sessVars, histVars>>

-----------------------------------------------------------------------------
(* The owner's requests.                                                      *)

Pause(r) ==
    /\ Idle /\ Fault("pause") /\ exists[r] /\ enabled[r]
    /\ enabled' = [enabled EXCEPT ![r] = FALSE]
    /\ UNCHANGED <<streak, exists, kept, fireVars, run, loop, liveVars, procVars, todo, sessVars, histVars>>

\* update with enabled: the schedule starts over from now, and so does the streak.
Resume(r) ==
    /\ Idle /\ exists[r] /\ ~enabled[r]
    /\ enabled' = [enabled EXCEPT ![r] = TRUE] /\ streak' = [streak EXCEPT ![r] = 0]
    /\ due' = [due EXCEPT ![r] = FALSE]
    /\ UNCHANGED <<exists, kept, claimed, rows, run, loop, liveVars, procVars, todo, sessVars, histVars>>

\* cancelRun: a run that follows a loop has its loop cancelled, which LoopEnded allows at any time.
CancelRun(x) ==
    /\ Idle /\ Fault("cancel")
    /\ \/ /\ x \in Live /\ stop[x] = "no"
          /\ stop' = [stop EXCEPT ![x] = "cancelled"] /\ UNCHANGED run
       \/ /\ x \notin Live /\ run[x].status = "queued"
          /\ run' = [run EXCEPT ![x] = Row(x, "cancelled")] /\ UNCHANGED stop
    /\ UNCHANGED <<rowVars, fireVars, loop, pc, ends, home, procVars, todo, sessVars, histVars>>

(* delete: live runs are told, queued ones cancelled; the loop's cancel is     *)
(* awaited; then the rows go, and the marks with them.                         *)
Delete(r) ==
    /\ Idle /\ Fault("delete") /\ exists[r] /\ r \notin deleting
    /\ deleting' = deleting \cup {r}
    /\ stop' = [x \in Runs |-> IF x \in Live /\ run[x].routine = r /\ stop[x] = "no" THEN "cancelled" ELSE stop[x]]
    /\ run' = [x \in Runs |-> IF run[x].routine = r /\ run[x].status = "queued"
                                THEN Row(x, "cancelled") ELSE run[x]]
    /\ UNCHANGED <<rowVars, fireVars, loop, pc, ends, home, stopped, up, boots, mix, todo, sessVars, histVars>>

CancelAwaited(r) == \E x \in ActiveRuns(r) : run[x].loop /\ loop[x] = "active"
Deleted(r) ==
    /\ Idle /\ r \in deleting /\ ~CancelAwaited(r)
    /\ deleting' = deleting \ {r}
    /\ exists' = [exists EXCEPT ![r] = FALSE] /\ enabled' = [enabled EXCEPT ![r] = FALSE]
    /\ streak' = [streak EXCEPT ![r] = 0] /\ kept' = [kept EXCEPT ![r] = NoRun]
    /\ due' = [due EXCEPT ![r] = FALSE] /\ claimed' = [claimed EXCEPT ![r] = 0]
    /\ rows' = [rows EXCEPT ![r] = [k \in 1 .. MaxDue |-> 0]]
    /\ run' = [x \in Runs |->
                 IF run[x].routine # r THEN run[x]
                 ELSE [Empty EXCEPT !.status = "deleted", !.routine = IF x \in Live THEN r ELSE @]]
    /\ UNCHANGED <<loop, liveVars, stopped, up, boots, mix, todo, sessVars, histVars>>

-----------------------------------------------------------------------------
(* Sessions, as their owner and their agent use them.                         *)

AgentTurns(s) ==
    /\ Idle /\ turn[s] = "run"
    /\ turn' \in {[turn EXCEPT ![s] = t] : t \in {"idle", "parked"} \cup (IF Fault("vanish") THEN {"gone"} ELSE {})}
    /\ armed' = IF turn'[s] = "gone" THEN armed \ {s} ELSE armed
    /\ UNCHANGED <<rowVars, fireVars, run, loop, liveVars, procVars, todo, histVars>>

OwnerTalks(s) ==
    /\ Idle /\ turn[s] \in {"idle", "parked"} /\ asks < mix.asks
    /\ turn' = [turn EXCEPT ![s] = "owner"] /\ asks' = asks + 1
    /\ UNCHANGED <<rowVars, fireVars, run, loop, liveVars, procVars, todo, armed>>

OwnerDone(s) ==
    /\ Idle /\ turn[s] = "owner"
    /\ turn' = [turn EXCEPT ![s] = "idle"]
    /\ UNCHANGED <<rowVars, fireVars, run, loop, liveVars, procVars, todo, armed, histVars>>

-----------------------------------------------------------------------------
(* The process.                                                               *)

\* stop(): no pass begins any more, and live runs end as interrupted if they get to it.
StopDaemon ==
    /\ Idle /\ Fault("stop") /\ ~stopped /\ boots < MaxBoots
    /\ stopped' = TRUE
    /\ stop' = [x \in Runs |-> IF x \in Live THEN "interrupted" ELSE stop[x]]
    /\ UNCHANGED <<rowVars, fireVars, run, loop, pc, ends, home, deleting, up, boots, mix, todo, sessVars, histVars>>

\* The process ends, wherever it is; a session comes back at rest, and guarded.
Exit ==
    /\ up /\ boots < MaxBoots /\ (stopped \/ Fault("crash"))
    /\ up' = FALSE /\ todo' = <<>>
    /\ pc' = [x \in Runs |-> "off"] /\ stop' = [x \in Runs |-> "no"]
    /\ ends' = [x \in Runs |-> "none"] /\ home' = [x \in Runs |-> NoRun]
    /\ deleting' = {} /\ stopped' = FALSE /\ armed' = {}
    /\ turn' = [s \in Runs |-> IF turn[s] \in {"none", "gone"} THEN turn[s] ELSE "idle"]
    /\ UNCHANGED <<rowVars, fireVars, run, loop, boots, mix, histVars>>

(* start(): loops in progress are linked to the runs that started them, then   *)
(* every run that was under way and follows no loop is closed.                 *)
RelinkedIfClosed(x) ==
    loop[x] = "active" /\ ~run[x].loop /\ exists[run[x].routine] /\ run[x].status = "interrupted"
Relinked(x) ==
    /\ loop[x] = "active" /\ ~run[x].loop /\ exists[run[x].routine]
    /\ run[x].status \in Active \cup {"interrupted"}
Interrupted == {"checking", "running"}
Closed(x) == Row(x, "interrupted")
Boot ==
    /\ ~up
    /\ up' = TRUE /\ boots' = boots + 1
    /\ run' = [x \in Runs |->
                 IF run[x].status \in {"none", "deleted"} THEN run[x]
                 ELSE IF Relinked(x) THEN [run[x] EXCEPT !.status = "running", !.loop = TRUE]
                 ELSE IF run[x].status \in Interrupted /\ ~run[x].loop THEN Closed(x)
                 ELSE run[x]]
    /\ UNCHANGED <<rowVars, fireVars, loop, liveVars, deleting, stopped, mix, todo, sessVars, histVars>>

-----------------------------------------------------------------------------
Sync ==
    \/ ListDue \/ ClaimFire \/ RecordSkip \/ Admit \/ DrainEnds \/ DrainSkips \/ DrainStarts
    \/ Begin \/ Work \/ Finishing \/ LoopStart \/ PortStart \/ LoopRecord \/ FollowLoops
    \/ RecordOutcome \/ AutoPause \/ Forget
Executes(x) ==
    \/ CheckEnds(x) \/ CreateFails(x) \/ Created(x) \/ Sent(x) \/ SendFails(x)
    \/ WaitEnds(x) \/ WoundDown(x)
Next ==
    \/ Sync \/ Tick \/ StopDaemon \/ Exit \/ Boot
    \/ \E r \in Routines : FallsDue(r) \/ Pause(r) \/ Resume(r) \/ Delete(r) \/ Deleted(r)
    \/ \E r \in Routines, manual \in BOOLEAN : Fire(r, manual)
    \/ \E x \in Runs : Executes(x) \/ StartsWindDown(x) \/ CancelRun(x)
                        \/ AgentTurns(x) \/ OwnerTalks(x) \/ OwnerDone(x)
    \/ \E x \in Runs, end \in LoopEnds : LoopEnded(x, end)

Spec == Init /\ [][Next]_vars

(* The event loop runs what is ready; checks and backends answer, or their     *)
(* timeouts do; a turn ends, or the deadline finds it; a loop ends (its own    *)
(* limits); a stopped daemon exits and is started again.  No fairness for      *)
(* time, owners, faults or crashes.                                            *)
Fairness ==
    /\ WF_vars(Sync) /\ WF_vars(Tick) /\ WF_vars(Boot) /\ WF_vars(stopped /\ Exit)
    /\ \A r \in Routines : WF_vars(Deleted(r))
    /\ \A x \in Runs : WF_vars(Executes(x)) /\ WF_vars(StartsWindDown(x))
                       /\ WF_vars(\E end \in LoopEnds : LoopEnded(x, end))
FairSpec == Spec /\ Fairness

-----------------------------------------------------------------------------
(* Properties.                                                                *)

Frames == {<<op, r>> : op \in {"fire", "pause", "follow"}, r \in Routines}
          \cup {<<op, x>> : op \in {"begin", "work", "forget", "loopStart", "portStart", "loopRecord"}, x \in Runs}
          \cup {<<op, 0>> : op \in {"follow", "drain", "listDue"}}
          \cup {<<"skip", r, k>> : r \in Routines, k \in 0 .. MaxDue}
          \cup {<<"admit", r, k, m>> : r \in Routines, k \in 0 .. MaxDue, m \in BOOLEAN}
          \cup {<<"finish", x, result>> : x \in Runs, result \in Results}
          \cup {<<"outcome", x, failed>> : x \in Runs, failed \in BOOLEAN}

TypeOK ==
    /\ enabled \in [Routines -> BOOLEAN] /\ exists \in [Routines -> BOOLEAN]
    /\ streak \in [Routines -> Nat] /\ kept \in [Routines -> Runs \cup {NoRun}]
    /\ due \in [Routines -> BOOLEAN] /\ claimed \in [Routines -> 0 .. MaxDue]
    /\ rows \in [Routines -> [1 .. MaxDue -> Nat]]
    /\ run \in [Runs -> [status : Active \cup Ended \cup {"none", "deleted"},
                         routine : Routines \cup {"none"}, manual : BOOLEAN, loop : BOOLEAN]]
    /\ loop \in [Runs -> {"none", "active", "over"} \cup LoopEnds]
    /\ pc \in [Runs -> {"off", "begin", "check", "create", "send", "wait", "windDown"}]
    /\ stop \in [Runs -> {"no", "cancelled", "interrupted"}]
    /\ ends \in [Runs -> Results \cup {"none"}] /\ home \in [Runs -> Runs \cup {NoRun}]
    /\ deleting \subseteq Routines /\ stopped \in BOOLEAN /\ up \in BOOLEAN /\ boots \in 1 .. MaxBoots
    /\ mix \in Mixes
    /\ todo \in Seq(Frames)
    /\ turn \in [Runs -> {"none", "gone", "idle", "run", "owner", "parked"}]
    /\ armed \subseteq Runs /\ asks \in 0 .. MaxAsks

(* The overlap policy holds whatever was in flight when the process died: a    *)
(* routine that skips never has two runs open, one that queues never has three *)
(* (store rows live, waiting, or following a loop, together).                  *)
OverlapHolds ==
    \A r \in Routines : Cardinality(ActiveRuns(r)) <= IF r \in Queued THEN 2 ELSE 1

(* A loop in progress is its routine's only one, and some run follows it: the  *)
(* run that started it, open and naming it, unless the very statement that     *)
(* writes the name is still to come or the daemon has not linked it yet.       *)
LoopIsFollowed ==
    \A x \in Runs : loop[x] = "active" =>
        /\ \A y \in Runs \ {x} : loop[y] = "active" => run[y].routine # run[x].routine
        /\ Idle => run[x].status = "running" /\ run[x].loop /\ exists[run[x].routine]

(* Between handlers, a session acts without asking only while the run it was   *)
(* armed for is live and has it: no end of a run, by a throw of the store, a   *)
(* cancel during its creation, a deadline or a delete, leaves one armed.       *)
ArmedOnlyLive ==
    Idle => \A s \in armed : \E x \in Live : home[x] = s

Pending(r, k) == \E i \in DOMAIN todo : todo[i][1] \in {"admit", "skip"} /\ todo[i][2] = r /\ todo[i][3] = k
Lost == {f \in Routines \X (1 .. MaxDue) :
            f[2] <= claimed[f[1]] /\ rows[f[1]][f[2]] = 0 /\ ~Pending(f[1], f[2])}
Crashes == IF up THEN boots - 1 ELSE boots

(* A scheduled fire never becomes two rows, and a crash loses one fire at most *)
(* (the one it came upon between its claim and its row).                       *)
FiresAccounted ==
    /\ \A r \in Routines : \A k \in 1 .. MaxDue : rows[r][k] <= 1
    /\ Cardinality(Lost) <= Crashes

(* Every run that is queued ends: slots are given back, what waits behind a    *)
(* live run is started when it ends, and a following run ends with its loop.   *)
RunsEnd == \A x \in Runs : run[x].status \in Active ~> run[x].status \notin Active

=============================================================================
