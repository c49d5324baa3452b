------------------------------ MODULE DataLock ------------------------------
(* One daemon per data directory (src/src/daemon/data-lock.ts): the lock file  *)
(* of one directory, its takeover guard, and the starts that race for them.    *)
(*                                                                             *)
(* Grain.  One action per system call on a shared name: acquireDaemonLocks is  *)
(* synchronous, but any other process runs between two calls.  A file is the   *)
(* nonce in it, which names the start that made it; a hard link or a rename    *)
(* carries it along, so inode and nonce tell the same.  The name a file is     *)
(* moved aside to is the mover's own.                                          *)
EXTENDS Naturals, FiniteSets

CONSTANTS
    Starts,         \* processes that run `codeoid start` on the directory
    NoStart,
    Local,          \* starts whose process this machine can check
    MaxTries,       \* attempts of lockOne
    MaxCrashes,     \* bound: processes killed
    MaxRemovals     \* bound: lock files a person removes as a refusal says

ASSUME StartsAssumption == NoStart \notin Starts /\ Local \subseteq Starts
ASSUME TriesAssumption == MaxTries \in Nat \ {0} /\ MaxCrashes \in Nat /\ MaxRemovals \in Nat

VARIABLES
    file,       \* what the two shared names hold: the lock and the guard
    aside,      \* the file a process moved aside
    pc,         \* where each process is
    tries,      \* attempts of lockOne begun
    seen,       \* the holder lockOne judged, `stale` of takeOver
    want,       \* the file removeIfStill may remove
    job,        \* what the removal under way is for
    outcome,    \* what takeOver has come to, for its `finally`
    waited,     \* TAKEOVER_WAIT_MS has passed
    cleared,    \* takeGuard has cleared a guard
    alone,      \* history: no other process, and no person, interfered since this one started
    crashes, removals

vars == <<file, aside, pc, tries, seen, want, job, outcome, waited, cleared, alone, crashes, removals>>
local == <<tries, seen, want, job, outcome, waited, cleared>>

Names == {"lock", "guard"}
Over == {"off", "refused", "ended", "dead"}
Starting == {"create", "read", "judge", "guard", "readGuard", "judgeGuard", "reread", "moving",
             "moved", "place", "dropGuard"}
Daemon == {"running", "stopping"}
Steps == Over \cup Starting \cup Daemon

Alive(p) == pc[p] \notin Over
\* judgeHolder: gone only where this machine can tell.
Gone(h) == ~Alive(h) /\ h \in Local

PathOf(j) == IF j \in {"takeover", "release"} THEN "lock" ELSE "guard"

TypeOK ==
    /\ file \in [Names -> Starts \cup {NoStart}]
    /\ aside \in [Starts -> Starts \cup {NoStart}]
    /\ pc \in [Starts -> Steps]
    /\ tries \in [Starts -> 0..MaxTries]
    /\ seen \in [Starts -> Starts \cup {NoStart}]
    /\ want \in [Starts -> Starts \cup {NoStart}]
    /\ job \in [Starts -> {"none", "takeover", "clear", "unguard", "release"}]
    /\ outcome \in [Starts -> {"none", "running", "refused"}]
    /\ waited \in [Starts -> BOOLEAN] /\ cleared \in [Starts -> BOOLEAN] /\ alone \in [Starts -> BOOLEAN]
    /\ crashes \in 0..MaxCrashes /\ removals \in 0..MaxRemovals

Init ==
    /\ file = [n \in Names |-> NoStart]
    /\ aside = [p \in Starts |-> NoStart]
    /\ pc = [p \in Starts |-> "off"]
    /\ tries = [p \in Starts |-> 0]
    /\ seen = [p \in Starts |-> NoStart] /\ want = [p \in Starts |-> NoStart]
    /\ job = [p \in Starts |-> "none"] /\ outcome = [p \in Starts |-> "none"]
    /\ waited = [p \in Starts |-> FALSE] /\ cleared = [p \in Starts |-> FALSE]
    /\ alone = [p \in Starts |-> FALSE]
    /\ crashes = 0 /\ removals = 0

-----------------------------------------------------------------------------
At(p, here) == pc[p] = here
Goto(p, next) == pc' = [pc EXCEPT ![p] = next]
\* The process is through with the lock and nothing of it is left to say.
Forgets(p) ==
    /\ seen' = [seen EXCEPT ![p] = NoStart] /\ want' = [want EXCEPT ![p] = NoStart]
    /\ job' = [job EXCEPT ![p] = "none"] /\ outcome' = [outcome EXCEPT ![p] = "none"]
    /\ tries' = [tries EXCEPT ![p] = 0]
    /\ waited' = [waited EXCEPT ![p] = FALSE] /\ cleared' = [cleared EXCEPT ![p] = FALSE]
Ends(p, how) == Goto(p, how) /\ Forgets(p)
Others == <<alone, crashes, removals>>

Begin(p) ==
    /\ At(p, "off")
    /\ Goto(p, "create")
    /\ alone' = [q \in Starts |-> IF q = p THEN \A r \in Starts : ~Alive(r) ELSE FALSE]
    /\ UNCHANGED <<file, aside, local, crashes, removals>>

\* lockOne: createExclusive, up to three times.
CreateLock(p) ==
    /\ At(p, "create") /\ tries[p] < MaxTries
    /\ IF file["lock"] = NoStart
       THEN file' = [file EXCEPT !["lock"] = p] /\ Ends(p, "running")
       ELSE /\ tries' = [tries EXCEPT ![p] = @ + 1]
            /\ Goto(p, "read")
            /\ UNCHANGED <<file, seen, want, job, outcome, waited, cleared>>
    /\ UNCHANGED <<aside, Others>>

TriedEnough(p) ==
    /\ At(p, "create") /\ tries[p] = MaxTries
    /\ Ends(p, "refused")
    /\ UNCHANGED <<file, aside, Others>>

ReadLock(p) ==
    /\ At(p, "read")
    /\ IF file["lock"] = NoStart
       THEN Goto(p, "create") /\ UNCHANGED seen
       ELSE Goto(p, "judge") /\ seen' = [seen EXCEPT ![p] = file["lock"]]
    /\ UNCHANGED <<file, aside, tries, want, job, outcome, waited, cleared, Others>>

Judge(p) ==
    /\ At(p, "judge")
    /\ IF Gone(seen[p]) THEN Goto(p, "guard") /\ UNCHANGED local ELSE Ends(p, "refused")
    /\ UNCHANGED <<file, aside, Others>>

-----------------------------------------------------------------------------
(* takeGuard.                                                                  *)

CreateGuard(p) ==
    /\ At(p, "guard") /\ file["guard"] = NoStart
    /\ file' = [file EXCEPT !["guard"] = p]
    /\ Goto(p, "reread")
    /\ UNCHANGED <<aside, local, Others>>

\* sleepSync between two looks at the clock.
WaitPasses(p) ==
    /\ At(p, "guard") /\ file["guard"] # NoStart /\ ~waited[p]
    /\ waited' = [waited EXCEPT ![p] = TRUE]
    /\ UNCHANGED <<file, aside, pc, tries, seen, want, job, outcome, cleared, Others>>

GuardTakenNever(p) == At(p, "guard") /\ FALSE /\ UNCHANGED vars
GuardTaken(p) ==
    /\ At(p, "guard") /\ file["guard"] # NoStart /\ waited[p]
    /\ Goto(p, "readGuard")
    /\ UNCHANGED <<file, aside, local, Others>>

ReadGuard(p) ==
    /\ At(p, "readGuard")
    /\ want' = [want EXCEPT ![p] = file["guard"]]
    /\ Goto(p, "judgeGuard")
    /\ UNCHANGED <<file, aside, tries, seen, job, outcome, waited, cleared, Others>>

MayClearNever(p) == FALSE
MayClear(p) == ~cleared[p] /\ want[p] # NoStart /\ Gone(want[p])

JudgeGuard(p) ==
    /\ At(p, "judgeGuard")
    /\ IF MayClear(p)
       THEN /\ cleared' = [cleared EXCEPT ![p] = TRUE]
            /\ job' = [job EXCEPT ![p] = "clear"]
            /\ Goto(p, "moving")
            /\ UNCHANGED <<tries, seen, want, outcome, waited>>
       ELSE Ends(p, "refused")
    /\ UNCHANGED <<file, aside, Others>>

-----------------------------------------------------------------------------
(* takeOver, under the guard.                                                  *)

\* Refused or not, the guard goes last.
Leaves(p, result) ==
    /\ outcome' = [outcome EXCEPT ![p] = result]
    /\ Goto(p, "dropGuard")

RereadUnchecked(p) ==
    /\ At(p, "reread")
    /\ IF file["lock"] = NoStart
       THEN Goto(p, "place") /\ UNCHANGED <<want, job, outcome>>
       ELSE /\ want' = [want EXCEPT ![p] = file["lock"]]
            /\ job' = [job EXCEPT ![p] = "takeover"]
            /\ Goto(p, "moving") /\ UNCHANGED outcome
    /\ UNCHANGED <<file, aside, tries, seen, waited, cleared, Others>>
Reread(p) ==
    /\ At(p, "reread")
    /\ LET again == file["lock"]
       IN  IF again = NoStart
           THEN Goto(p, "place") /\ UNCHANGED <<want, job, outcome>>
           ELSE IF again = seen[p] \/ Gone(again)
           THEN /\ want' = [want EXCEPT ![p] = again]
                /\ job' = [job EXCEPT ![p] = "takeover"]
                /\ Goto(p, "moving")
                /\ UNCHANGED outcome
           ELSE Leaves(p, "refused") /\ UNCHANGED <<want, job>>
    /\ UNCHANGED <<file, aside, tries, seen, waited, cleared, Others>>

Place(p) ==
    /\ At(p, "place")
    /\ IF file["lock"] = NoStart
       THEN file' = [file EXCEPT !["lock"] = p] /\ Leaves(p, "running")
       ELSE Leaves(p, "refused") /\ UNCHANGED file
    /\ UNCHANGED <<aside, tries, seen, want, job, waited, cleared, Others>>

\* The `finally`: only a guard that is still its own.
DropGuard(p) ==
    /\ At(p, "dropGuard")
    /\ IF file["guard"] = p
       THEN /\ want' = [want EXCEPT ![p] = p]
            /\ job' = [job EXCEPT ![p] = "unguard"]
            /\ Goto(p, "moving")
            /\ UNCHANGED <<tries, seen, outcome, waited, cleared>>
       ELSE Ends(p, outcome[p])
    /\ UNCHANGED <<file, aside, Others>>

-----------------------------------------------------------------------------
(* removeIfStill: rename, look, then unlink or put back.                       *)

\* What comes after a removal, and whether it removed what it should.
Resumes(p, removed) ==
    \/ /\ job[p] = "takeover" /\ removed /\ Goto(p, "place") /\ UNCHANGED local
    \/ /\ job[p] = "takeover" /\ ~removed /\ Leaves(p, "refused")
       /\ UNCHANGED <<tries, seen, want, job, waited, cleared>>
    \/ job[p] = "clear" /\ Goto(p, "guard") /\ UNCHANGED local
    \/ job[p] = "unguard" /\ Ends(p, outcome[p])
    \/ job[p] = "release" /\ Ends(p, "ended")

MoveAside(p) ==
    /\ At(p, "moving")
    /\ LET path == PathOf(job[p])
       IN  IF file[path] = NoStart
           THEN Resumes(p, TRUE) /\ UNCHANGED <<file, aside>>
           ELSE /\ aside' = [aside EXCEPT ![p] = file[path]]
                /\ file' = [file EXCEPT ![path] = NoStart]
                /\ Goto(p, "moved") /\ UNCHANGED local
    /\ UNCHANGED Others

Unlink(p) ==
    /\ At(p, "moved") /\ aside[p] = want[p]
    /\ aside' = [aside EXCEPT ![p] = NoStart]
    /\ Resumes(p, TRUE)
    /\ UNCHANGED <<file, Others>>

\* linkSync fails with EEXIST when another took the name: the file is let go.
PutsBack(p) == file[PathOf(job[p])] = NoStart

PutBack(p) ==
    /\ At(p, "moved") /\ aside[p] # want[p]
    /\ file' = IF PutsBack(p) THEN [file EXCEPT ![PathOf(job[p])] = aside[p]] ELSE file
    /\ aside' = [aside EXCEPT ![p] = NoStart]
    /\ Resumes(p, FALSE)
    /\ UNCHANGED Others

-----------------------------------------------------------------------------
(* The daemon.                                                                 *)

\* A signal, or a shutdown verb.
Stop(p) ==
    /\ At(p, "running")
    /\ Goto(p, "stopping")
    /\ UNCHANGED <<file, aside, local, Others>>

\* The minute watch: the lock is not this daemon's any more.
WatchLost(p) ==
    /\ At(p, "running") /\ file["lock"] # p
    /\ Goto(p, "stopping")
    /\ UNCHANGED <<file, aside, local, Others>>

\* release, the last cleanup of the shutdown.
Release(p) ==
    /\ At(p, "stopping")
    /\ IF file["lock"] = p
       THEN /\ want' = [want EXCEPT ![p] = p]
            /\ job' = [job EXCEPT ![p] = "release"]
            /\ Goto(p, "moving")
            /\ UNCHANGED <<tries, seen, outcome, waited, cleared>>
       ELSE Ends(p, "ended")
    /\ UNCHANGED <<file, aside, Others>>

Crash(p) ==
    /\ Alive(p) /\ crashes < MaxCrashes
    /\ crashes' = crashes + 1
    /\ Ends(p, "dead")
    /\ aside' = [aside EXCEPT ![p] = NoStart]
    /\ UNCHANGED <<file, alone, removals>>

\* "Remove that file and start again", said of a lock that cannot be judged.
PersonRemoves ==
    /\ removals < MaxRemovals
    /\ \E p \in Starts : pc[p] = "refused"
    /\ file["lock"] # NoStart
    /\ file' = [file EXCEPT !["lock"] = NoStart]
    /\ removals' = removals + 1
    /\ alone' = [p \in Starts |-> FALSE]
    /\ UNCHANGED <<aside, pc, local, crashes>>

-----------------------------------------------------------------------------
Acquire(p) ==
    \/ CreateLock(p) \/ TriedEnough(p) \/ ReadLock(p) \/ Judge(p)
    \/ CreateGuard(p) \/ WaitPasses(p) \/ GuardTaken(p) \/ ReadGuard(p) \/ JudgeGuard(p)
    \/ Reread(p) \/ Place(p) \/ DropGuard(p)
Remove(p) == MoveAside(p) \/ Unlink(p) \/ PutBack(p)

Next ==
    \/ \E p \in Starts : Begin(p) \/ Acquire(p) \/ Remove(p) \/ Stop(p) \/ WatchLost(p) \/ Release(p)
                         \/ Crash(p)
    \/ PersonRemoves

Spec == Init /\ [][Next]_vars

-----------------------------------------------------------------------------
(* "Two starts racing for one stale lock can't both win" (data-lock.ts:33-35). *)
OneDaemon == removals = 0 => Cardinality({p \in Starts : pc[p] = "running"}) <= 1

(* A start that no other process disturbed is refused only for a lock or a     *)
(* guard whose holder this machine cannot check: what a killed daemon, or a    *)
(* start killed in the middle of a takeover, left behind never blocks.         *)
NoSpuriousRefusal ==
    \A p \in Starts : pc[p] = "refused" /\ alone[p] =>
        \E n \in Names : file[n] # NoStart /\ file[n] \notin Local

-----------------------------------------------------------------------------
(* Fairness: a process that lives goes on, and the minute watch fires.         *)
Fairness == \A p \in Starts : WF_vars(Acquire(p) \/ Remove(p) \/ WatchLost(p) \/ Release(p))
FairSpec == Spec /\ Fairness

(* Every start comes to an end: it holds the lock, or says why not.            *)
StartsDecide == \A p \in Starts : pc[p] = "create" ~> pc[p] \in Daemon \cup Over

=============================================================================
