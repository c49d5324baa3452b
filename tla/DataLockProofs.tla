--------------------------- MODULE DataLockProofs ---------------------------
(* What DataLock does for any number of starts, tries, crashes and removals:   *)
(*   NamesInv   a file names a start that has made one, and what a start is    *)
(*              about to remove is what it judged;                             *)
(*   GuardInv   whoever takes a lock over holds the guard, as long as a dead   *)
(*              guard's clearing moves no other aside;                         *)
(*   LockInv    a daemon holds the lock, under the same condition: from it no  *)
(*              two run (OneDaemonWhileClear);                                 *)
(*   AloneInv   a start with no rival finds everything as it last saw it:      *)
(*              from it nothing dead refuses one (Undisturbed).                *)
EXTENDS DataLock, FiniteSetTheorems, TLAPS

Clearing(p) == pc[p] \in {"moving", "moved"} /\ job[p] = "clear"

\* A start that has made no file yet.
Early(p) == pc[p] \in {"off", "create", "read", "judge", "guard", "readGuard", "judgeGuard"} \/ Clearing(p)
Judged(p) == pc[p] \in {"guard", "readGuard", "judgeGuard", "reread"} \/ Clearing(p)
Unnamed(p) ==
    /\ \A n \in Names : file[n] # p
    /\ \A q \in Starts : aside[q] # p /\ seen[q] # p /\ want[q] # p
NamesInv ==
    \A p \in Starts :
      /\ Early(p) => Unnamed(p)
      /\ Judged(p) => Gone(seen[p])
      /\ Clearing(p) => Gone(want[p])
      /\ pc[p] = "off" => tries[p] = 0 /\ ~cleared[p]
      /\ pc[p] \in {"moving", "moved"} /\ job[p] \in {"unguard", "release"} => want[p] = p
      /\ pc[p] \in {"moving", "moved"} => job[p] # "none"
      /\ outcome[p] # "none" <=> pc[p] = "dropGuard" \/ (pc[p] \in {"moving", "moved"} /\ job[p] = "unguard")

(* What a start that clears a dead guard moves aside is the guard it judged:   *)
(* removeIfStill moves first and looks afterwards, so it may be another.       *)
ClearsTheJudged == \A p \in Starts : pc[p] = "moved" /\ job[p] = "clear" => aside[p] = want[p]

\* Between its guard's making and its removal.
InGuard(p) ==
    \/ pc[p] \in {"reread", "place", "dropGuard"}
    \/ pc[p] \in {"moving", "moved"} /\ job[p] = "takeover"
    \/ pc[p] = "moving" /\ job[p] = "unguard"
GuardInv ==
    \A p \in Starts :
      /\ InGuard(p) => file["guard"] = p
      /\ pc[p] = "moved" /\ job[p] = "unguard" => aside[p] = p

\* Who says the lock is its own.
Holds(p) == pc[p] \in Daemon \/ outcome[p] = "running" \/ (pc[p] = "moving" /\ job[p] = "release")
LockInv ==
    \A p \in Starts :
      /\ Holds(p) => file["lock"] = p
      /\ pc[p] = "moving" /\ job[p] = "takeover" => want[p] = file["lock"] /\ Gone(want[p])
      /\ pc[p] = "moved" /\ job[p] \in {"takeover", "release"} => aside[p] = want[p]

NoRival(p) == pc[p] # "off" /\ \A q \in Starts \ {p} : ~Alive(q)
Blocked == \E n \in Names : file[n] # NoStart /\ file[n] \notin Local
AsSeen(p) ==
    /\ pc[p] \in {"create", "read", "judge", "readGuard", "judgeGuard"} => ~cleared[p]
    /\ pc[p] = "create" => tries[p] = 0
    /\ pc[p] = "read" => file["lock"] # NoStart
    /\ pc[p] = "judge" \/ Judged(p) => seen[p] = file["lock"] /\ seen[p] # NoStart
    /\ pc[p] = "guard" /\ cleared[p] => file["guard"] = NoStart
    /\ pc[p] = "readGuard" => file["guard"] # NoStart
    /\ pc[p] = "judgeGuard" => want[p] = file["guard"] /\ want[p] # NoStart
    /\ pc[p] = "moving" /\ job[p] = "clear" => want[p] = file["guard"]
    /\ pc[p] = "moved" /\ job[p] = "clear" => want[p] = aside[p] /\ file["guard"] = NoStart
    /\ pc[p] = "moving" /\ job[p] = "takeover" => want[p] = file["lock"]
    /\ pc[p] = "moved" /\ job[p] = "takeover" => want[p] = aside[p] /\ file["lock"] = NoStart
    /\ pc[p] = "place" => file["lock"] = NoStart
    /\ outcome[p] # "refused"
    /\ pc[p] = "refused" => Blocked
AloneInv == \A p \in Starts : alone[p] => NoRival(p) /\ AsSeen(p)

IInv == TypeOK /\ NamesInv /\ AloneInv

Acts(p) ==
    \/ Begin(p) \/ CreateLock(p) \/ TriedEnough(p) \/ ReadLock(p) \/ Judge(p)
    \/ CreateGuard(p) \/ WaitPasses(p) \/ GuardTaken(p) \/ ReadGuard(p) \/ JudgeGuard(p)
    \/ Reread(p) \/ Place(p) \/ DropGuard(p) \/ MoveAside(p) \/ Unlink(p) \/ PutBack(p)
    \/ Stop(p) \/ WatchLost(p) \/ Release(p) \/ Crash(p)

-----------------------------------------------------------------------------
LEMMA Moves ==
    ASSUME [Next]_vars
    PROVE  (\E p \in Starts : Acts(p)) \/ PersonRemoves \/ UNCHANGED vars
BY DEF Next, Acts, Acquire, Remove

\* The bounds that are used, and what cannot be told gone.
LEMMA Facts ==
    /\ NoStart \notin Starts /\ NoStart \notin Local /\ Local \subseteq Starts
    /\ MaxTries \in Nat /\ MaxTries # 0 /\ MaxCrashes \in Nat /\ MaxRemovals \in Nat
BY StartsAssumption, TriesAssumption

LEMMA InitTypes ==
    ASSUME Init
    PROVE  TypeOK
BY Facts DEF Init, TypeOK, Steps, Over, Names

\* Where a process may go.
LEMMA Places ==
    {"off", "refused", "ended", "dead", "create", "read", "judge", "guard", "readGuard", "judgeGuard", "reread",
     "moving", "moved", "place", "dropGuard", "running", "stopping"} = Steps
BY DEF Steps, Over, Starting, Daemon

LocalOK ==
    /\ tries \in [Starts -> 0..MaxTries]
    /\ seen \in [Starts -> Starts \cup {NoStart}]
    /\ want \in [Starts -> Starts \cup {NoStart}]
    /\ job \in [Starts -> {"none", "takeover", "clear", "unguard", "release"}]
    /\ outcome \in [Starts -> {"none", "running", "refused"}]
    /\ waited \in [Starts -> BOOLEAN] /\ cleared \in [Starts -> BOOLEAN]
SharedOK ==
    /\ file \in [Names -> Starts \cup {NoStart}]
    /\ aside \in [Starts -> Starts \cup {NoStart}]
    /\ alone \in [Starts -> BOOLEAN]
    /\ crashes \in 0..MaxCrashes /\ removals \in 0..MaxRemovals
PlaceOK == pc \in [Starts -> Steps]

LEMMA GoesOn ==
    ASSUME PlaceOK, NEW p \in Starts, NEW next \in Steps, Goto(p, next)
    PROVE  PlaceOK' /\ pc'[p] = next /\ \A q \in Starts \ {p} : pc'[q] = pc[q]
BY DEF PlaceOK, Goto

LEMMA Forgetting ==
    ASSUME LocalOK, NEW p \in Starts, Forgets(p)
    PROVE  LocalOK'
<1>1. 0 \in 0..MaxTries
  BY Facts
<1> QED
  BY <1>1 DEF LocalOK, Forgets

LEMMA TypeStep ==
    ASSUME TypeOK, NamesInv, [Next]_vars
    PROVE  TypeOK'
<1>0. LocalOK /\ SharedOK /\ PlaceOK
  BY DEF TypeOK, LocalOK, SharedOK, PlaceOK
<1>s. SUFFICES LocalOK' /\ SharedOK' /\ PlaceOK'
  BY DEF TypeOK, LocalOK, SharedOK, PlaceOK
<1>l. "lock" \in Names /\ "guard" \in Names /\ NoStart \in Starts \cup {NoStart}
  BY DEF Names
<1>1. CASE UNCHANGED vars
  BY <1>0, <1>1 DEF vars, LocalOK, SharedOK, PlaceOK
<1>2. CASE PersonRemoves
  <2>1. LocalOK' /\ PlaceOK'
    BY <1>0, <1>2 DEF PersonRemoves, local, LocalOK, PlaceOK
  <2>2. SharedOK'
    BY <1>0, <1>2, <1>l, Facts DEF PersonRemoves, SharedOK
  <2> QED
    BY <2>1, <2>2
<1>3. ASSUME NEW p \in Starts, Acts(p)
      PROVE  LocalOK' /\ SharedOK' /\ PlaceOK'
  <2>1. SharedOK'
    <3>1. \/ UNCHANGED <<file, aside, crashes, removals, alone>>
          \/ UNCHANGED <<aside, crashes, removals, alone>> /\ \E n \in Names : file' = [file EXCEPT ![n] = p]
          \/ Begin(p) \/ MoveAside(p) \/ Unlink(p) \/ PutBack(p) \/ Crash(p)
      BY <1>3, <1>l DEF Acts, CreateLock, TriedEnough, ReadLock, Judge, CreateGuard, WaitPasses, GuardTaken,
            ReadGuard, JudgeGuard, Reread, Place, DropGuard, Stop, WatchLost, Release, Others
    <3>2. CASE Begin(p)
      BY <1>0, <3>2 DEF SharedOK, Begin
    <3>3. CASE MoveAside(p) \/ Unlink(p) \/ PutBack(p)
      <4>1. PathOf(job[p]) \in Names
        BY DEF PathOf, Names
      <4> QED
        BY <1>0, <1>l, <3>3, <4>1 DEF SharedOK, MoveAside, Unlink, PutBack, Others
    <3>4. CASE Crash(p)
      BY <1>0, <3>4, Facts DEF SharedOK, Crash
    <3> QED
      BY <1>0, <3>1, <3>2, <3>3, <3>4 DEF SharedOK
  <2>2. PlaceOK'
    <3>1. \/ UNCHANGED pc
          \/ \E next \in Steps : Goto(p, next)
          \/ outcome[p] # "none" /\ Goto(p, outcome[p])
      BY <1>3, Places DEF Acts, Begin, CreateLock, TriedEnough, ReadLock, Judge, CreateGuard, WaitPasses, GuardTaken,
            ReadGuard, JudgeGuard, Reread, Place, DropGuard, Stop, WatchLost, Release, MoveAside, Unlink, PutBack,
            Crash, Ends, Leaves, Resumes, NamesInv, At
    <3>2. outcome[p] # "none" => outcome[p] \in Steps
      BY <1>0, Places DEF LocalOK
    <3> QED
      BY <1>0, <3>1, <3>2, GoesOn DEF PlaceOK
  <2>3. LocalOK'
    <3>1. \/ UNCHANGED local
          \/ Forgets(p)
          \/ CreateLock(p) \/ ReadLock(p) \/ WaitPasses(p) \/ ReadGuard(p) \/ JudgeGuard(p) \/ Reread(p)
          \/ \E result \in {"running", "refused"} :
                outcome' = [outcome EXCEPT ![p] = result] /\ UNCHANGED <<tries, seen, want, job, waited, cleared>>
          \/ DropGuard(p) \/ Release(p)
      <4>1. CASE \E removed \in BOOLEAN : Resumes(p, removed)
        BY <4>1 DEF Resumes, Ends, Leaves
      <4>2. CASE MoveAside(p) \/ Unlink(p) \/ PutBack(p)
        BY <4>1, <4>2 DEF MoveAside, Unlink, PutBack
      <4>3. CASE Place(p)
        BY <4>3 DEF Place, Leaves
      <4> QED
        BY <1>3, <4>2, <4>3 DEF Acts, Begin, TriedEnough, Judge, CreateGuard, GuardTaken, Stop, WatchLost, Crash, Ends, local
    <3>2. CASE CreateLock(p) \/ JudgeGuard(p) \/ DropGuard(p) \/ Release(p)
      <4>1. CASE Forgets(p)
        BY <1>0, <4>1, Forgetting
      <4>2. CASE ~Forgets(p) /\ CreateLock(p)
        <5>1. tries[p] + 1 \in 0..MaxTries
          BY <1>0, <4>2, Facts DEF LocalOK, CreateLock
        <5> QED
          BY <1>0, <4>2, <5>1 DEF LocalOK, CreateLock, Ends
      <4>3. CASE ~Forgets(p) /\ ~CreateLock(p)
        BY <1>0, <3>2, <4>3 DEF LocalOK, JudgeGuard, DropGuard, Release, Ends
      <4> QED
        BY <3>2, <4>1, <4>2, <4>3
    <3>3. CASE ReadLock(p) \/ WaitPasses(p) \/ ReadGuard(p) \/ Reread(p)
      BY <1>0, <1>l, <3>3 DEF LocalOK, SharedOK, ReadLock, WaitPasses, ReadGuard, Reread, Leaves
    <3>4. CASE \E result \in {"running", "refused"} :
                outcome' = [outcome EXCEPT ![p] = result] /\ UNCHANGED <<tries, seen, want, job, waited, cleared>>
      BY <1>0, <3>4 DEF LocalOK
    <3> QED
      BY <1>0, <3>1, <3>2, <3>3, <3>4, Forgetting DEF local, LocalOK
  <2> QED
    BY <2>1, <2>2, <2>3
<1> QED
  BY <1>0, <1>1, <1>2, <1>3, Moves

-----------------------------------------------------------------------------
(* What a process does is its own, but for the files it makes and moves.       *)
LEMMA Frame ==
    ASSUME TypeOK, NEW p \in Starts, Acts(p), NEW q \in Starts \ {p}
    PROVE  /\ pc'[q] = pc[q] /\ tries'[q] = tries[q] /\ seen'[q] = seen[q] /\ want'[q] = want[q]
           /\ job'[q] = job[q] /\ outcome'[q] = outcome[q] /\ cleared'[q] = cleared[q] /\ aside'[q] = aside[q]
           /\ alone'[q] => alone[q]
<1>0. LocalOK /\ SharedOK /\ PlaceOK
  BY DEF TypeOK, LocalOK, SharedOK, PlaceOK
<1>1. pc'[q] = pc[q]
  BY <1>0 DEF PlaceOK, Acts, Begin, CreateLock, TriedEnough, ReadLock, Judge, CreateGuard, WaitPasses, GuardTaken,
        ReadGuard, JudgeGuard, Reread, Place, DropGuard, Stop, WatchLost, Release, MoveAside, Unlink, PutBack,
        Crash, Ends, Leaves, Resumes, Goto
<1>2. tries'[q] = tries[q] /\ seen'[q] = seen[q]
  BY <1>0 DEF LocalOK, Acts, Begin, CreateLock, TriedEnough, ReadLock, Judge, CreateGuard, WaitPasses, GuardTaken,
        ReadGuard, JudgeGuard, Reread, Place, DropGuard, Stop, WatchLost, Release, MoveAside, Unlink, PutBack,
        Crash, Ends, Leaves, Resumes, Forgets, local
<1>3. want'[q] = want[q] /\ cleared'[q] = cleared[q]
  BY <1>0 DEF LocalOK, Acts, Begin, CreateLock, TriedEnough, ReadLock, Judge, CreateGuard, WaitPasses, GuardTaken,
        ReadGuard, JudgeGuard, Reread, Place, DropGuard, Stop, WatchLost, Release, MoveAside, Unlink, PutBack,
        Crash, Ends, Leaves, Resumes, Forgets, local
<1>4. job'[q] = job[q] /\ outcome'[q] = outcome[q]
  BY <1>0 DEF LocalOK, Acts, Begin, CreateLock, TriedEnough, ReadLock, Judge, CreateGuard, WaitPasses, GuardTaken,
        ReadGuard, JudgeGuard, Reread, Place, DropGuard, Stop, WatchLost, Release, MoveAside, Unlink, PutBack,
        Crash, Ends, Leaves, Resumes, Forgets, local
<1>5. aside'[q] = aside[q]
  BY <1>0 DEF SharedOK, Acts, Begin, CreateLock, TriedEnough, ReadLock, Judge, CreateGuard, WaitPasses, GuardTaken,
        ReadGuard, JudgeGuard, Reread, Place, DropGuard, Stop, WatchLost, Release, MoveAside, Unlink, PutBack,
        Crash
<1>6. alone'[q] => alone[q]
  BY <1>0 DEF SharedOK, Acts, Begin, CreateLock, TriedEnough, ReadLock, Judge, CreateGuard, WaitPasses, GuardTaken,
        ReadGuard, JudgeGuard, Reread, Place, DropGuard, Stop, WatchLost, Release, MoveAside, Unlink, PutBack,
        Crash, Others
<1> QED
  BY <1>1, <1>2, <1>3, <1>4, <1>5, <1>6

(* No step names a start that did not act and was not named.                   *)
LEMMA NewNames ==
    ASSUME TypeOK, NEW p \in Starts, Acts(p)
    PROVE  /\ \A n \in Names : file'[n] \in {file[n], p, NoStart, aside[p]}
           /\ aside'[p] \in {aside[p], NoStart} \cup {file[n] : n \in Names}
           /\ seen'[p] \in {seen[p], NoStart} \cup {file[n] : n \in Names}
           /\ want'[p] \in {want[p], NoStart, p} \cup {file[n] : n \in Names}
<1>0. LocalOK /\ SharedOK /\ PlaceOK
  BY DEF TypeOK, LocalOK, SharedOK, PlaceOK
<1>l. "lock" \in Names /\ "guard" \in Names /\ PathOf(job[p]) \in Names
  BY DEF Names, PathOf
<1>1. \A n \in Names : file'[n] \in {file[n], p, NoStart, aside[p]}
  BY <1>0 DEF SharedOK, Acts, Begin, CreateLock, TriedEnough, ReadLock, Judge, CreateGuard, WaitPasses, GuardTaken,
        ReadGuard, JudgeGuard, Reread, Place, DropGuard, Stop, WatchLost, Release, MoveAside, Unlink, PutBack,
        Crash
<1>2. aside'[p] \in {aside[p], NoStart} \cup {file[n] : n \in Names}
  BY <1>0, <1>l DEF SharedOK, Acts, Begin, CreateLock, TriedEnough, ReadLock, Judge, CreateGuard, WaitPasses, GuardTaken,
        ReadGuard, JudgeGuard, Reread, Place, DropGuard, Stop, WatchLost, Release, MoveAside, Unlink, PutBack,
        Crash
<1>3. seen'[p] \in {seen[p], NoStart} \cup {file[n] : n \in Names}
  BY <1>0, <1>l DEF LocalOK, Acts, Begin, CreateLock, TriedEnough, ReadLock, Judge, CreateGuard, WaitPasses, GuardTaken,
        ReadGuard, JudgeGuard, Reread, Place, DropGuard, Stop, WatchLost, Release, MoveAside, Unlink, PutBack,
        Crash, Ends, Leaves, Resumes, Forgets, local
<1>4. want'[p] \in {want[p], NoStart, p} \cup {file[n] : n \in Names}
  BY <1>0, <1>l DEF LocalOK, Acts, Begin, CreateLock, TriedEnough, ReadLock, Judge, CreateGuard, WaitPasses, GuardTaken,
        ReadGuard, JudgeGuard, Reread, Place, DropGuard, Stop, WatchLost, Release, MoveAside, Unlink, PutBack,
        Crash, Ends, Leaves, Resumes, Forgets, local
<1> QED
  BY <1>1, <1>2, <1>3, <1>4

(* The dead stay dead, once they have begun.                                   *)
LEMMA StaysGone ==
    ASSUME TypeOK, NEW p \in Starts, Acts(p), NEW h \in Starts, Gone(h), pc[h] # "off"
    PROVE  Gone(h)' /\ h # p
<1>1. pc[h] \in Over \ {"off"} /\ h \in Local
  BY DEF Gone, Alive
<1>2. h # p
  BY <1>1 DEF Over, Acts, Begin, CreateLock, TriedEnough, ReadLock, Judge, CreateGuard, WaitPasses, GuardTaken,
        ReadGuard, JudgeGuard, Reread, Place, DropGuard, Stop, WatchLost, Release, MoveAside, Unlink, PutBack,
        Crash, At, Alive
<1>3. pc'[h] = pc[h]
  BY <1>2, Frame
<1> QED
  BY <1>1, <1>2, <1>3 DEF Gone, Alive

\* A name in a file, or kept from one, is of a start that has begun.
LEMMA Named ==
    ASSUME NamesInv, NEW h \in Starts
    PROVE  /\ \A n \in Names : file[n] = h => ~Early(h)
           /\ \A q \in Starts : aside[q] = h \/ seen[q] = h \/ want[q] = h => ~Early(h)
           /\ ~Early(h) => pc[h] # "off"
BY DEF NamesInv, Unnamed, Early

\* Who has made no file yet, and acts, makes one or is early still.
LEMMA EarlyActs ==
    ASSUME TypeOK, NamesInv, NEW p \in Starts, Acts(p), Early(p)'
    PROVE  /\ Early(p) /\ \A n \in Names : file'[n] \in {file[n], NoStart, aside[p]}
           /\ want'[p] \in {want[p], NoStart} \cup {file[n] : n \in Names}
<1>0. LocalOK /\ SharedOK /\ PlaceOK
  BY DEF TypeOK, LocalOK, SharedOK, PlaceOK
<1>l. "lock" \in Names /\ "guard" \in Names /\ PathOf(job[p]) \in Names
  BY DEF Names, PathOf
<1>n. pc[p] = "dropGuard" \/ (pc[p] \in {"moving", "moved"} /\ job[p] = "unguard") => outcome[p] \in {"running", "refused"}
  BY <1>0 DEF NamesInv, LocalOK
<1>d. \/ Begin(p) \/ CreateLock(p) \/ ReadLock(p) \/ Judge(p) \/ WaitPasses(p) \/ GuardTaken(p)
      \/ ReadGuard(p) \/ JudgeGuard(p) \/ MoveAside(p) \/ Unlink(p) \/ PutBack(p)
  BY <1>0, <1>n DEF PlaceOK, Early, Clearing, LocalOK, Acts, TriedEnough, CreateGuard, Reread, Place, DropGuard,
       Stop, WatchLost, Release, Crash, Ends, Leaves, Forgets, Goto, At
<1>1. CASE Begin(p) \/ CreateLock(p) \/ ReadLock(p) \/ Judge(p) \/ WaitPasses(p) \/ GuardTaken(p)
      \/ ReadGuard(p) \/ JudgeGuard(p)
  <2>1. Early(p)
    BY <1>1 DEF Early, Begin, CreateLock, ReadLock, Judge, WaitPasses, GuardTaken, ReadGuard, JudgeGuard, At
  <2>2. CASE CreateLock(p)
    BY <1>0, <2>1, <2>2 DEF PlaceOK, CreateLock, Early, Clearing, Ends, Goto, LocalOK
  <2>3. CASE ~CreateLock(p)
    <3>1. UNCHANGED file
      BY <1>1, <2>3 DEF Begin, ReadLock, Judge, WaitPasses, GuardTaken, ReadGuard, JudgeGuard
    <3>2. want'[p] \in {want[p], NoStart} \cup {file[n] : n \in Names}
      BY <1>0, <1>1, <1>l, <2>3 DEF LocalOK, Begin, ReadLock, Judge, WaitPasses, GuardTaken, ReadGuard, JudgeGuard, local,
          Ends, Forgets
    <3> QED
      BY <2>1, <3>1, <3>2
  <2> QED
    BY <2>2, <2>3
<1>2. CASE MoveAside(p) \/ Unlink(p) \/ PutBack(p)
  <2>1. Early(p) /\ UNCHANGED want
    <3>1. CASE \E removed \in BOOLEAN : Resumes(p, removed)
      BY <1>0, <1>2, <1>n, <3>1 DEF PlaceOK, LocalOK, MoveAside, Unlink, PutBack, Resumes, Early, Clearing, Ends, Leaves,
         Goto, local, At
    <3>2. CASE ~\E removed \in BOOLEAN : Resumes(p, removed)
      BY <1>0, <1>2, <3>2 DEF PlaceOK, LocalOK, MoveAside, Unlink, PutBack, Early, Clearing, Goto, local, At
    <3> QED
      BY <3>1, <3>2
  <2>2. \A n \in Names : file'[n] \in {file[n], NoStart, aside[p]}
    BY <1>0, <1>2 DEF SharedOK, MoveAside, Unlink, PutBack
  <2> QED
    BY <2>1, <2>2
<1> QED
  BY <1>d, <1>1, <1>2

LEMMA UnnamedStep ==
    ASSUME TypeOK, NamesInv, NEW p \in Starts, Acts(p), NEW q \in Starts, Early(q)'
    PROVE  Early(q) /\ Unnamed(q)'
<1>1. Early(q)
  BY EarlyActs, Frame DEF Early, Clearing
<1>2. Unnamed(q) /\ q # NoStart
  BY <1>1, Facts DEF NamesInv
<1>3. /\ \A n \in Names : file'[n] \in {file[n], NoStart, aside[p]} \cup ({p} \ {q})
      /\ want'[p] \in {want[p], NoStart} \cup ({p} \ {q}) \cup {file[n] : n \in Names}
  BY EarlyActs, NewNames
<1>4. \A n \in Names : file'[n] # q
  BY <1>2, <1>3 DEF Unnamed
<1>5. aside'[p] # q /\ seen'[p] # q /\ want'[p] # q
  BY <1>2, <1>3, NewNames DEF Unnamed
<1>6. ASSUME NEW r \in Starts \ {p}
      PROVE  aside'[r] # q /\ seen'[r] # q /\ want'[r] # q
  BY <1>2, <1>6, Frame DEF Unnamed
<1> QED
  BY <1>1, <1>4, <1>5, <1>6 DEF Unnamed

\* What the start that acts has judged it goes on to deal with.
LEMMA JudgedActs ==
    ASSUME TypeOK, NamesInv, NEW p \in Starts, Acts(p)
    PROVE  /\ Judged(p)' => seen'[p] = seen[p] /\ Gone(seen[p])
           /\ Clearing(p)' => want'[p] = want[p] /\ Gone(want[p])
           /\ pc'[p] = "off" => tries'[p] = 0 /\ ~cleared'[p]
           /\ pc'[p] \in {"moving", "moved"} /\ job'[p] \in {"unguard", "release"} => want'[p] = p
           /\ pc'[p] \in {"moving", "moved"} => job'[p] # "none"
           /\ outcome'[p] # "none" <=> pc'[p] = "dropGuard" \/ (pc'[p] \in {"moving", "moved"} /\ job'[p] = "unguard")
<1>0. LocalOK /\ SharedOK /\ PlaceOK
  BY DEF TypeOK, LocalOK, SharedOK, PlaceOK
<1>n. /\ pc[p] = "dropGuard" \/ (pc[p] \in {"moving", "moved"} /\ job[p] = "unguard") => outcome[p] \in {"running", "refused"}
      /\ Judged(p) => Gone(seen[p])
      /\ Clearing(p) => Gone(want[p])
      /\ pc[p] \in {"moving", "moved"} /\ job[p] \in {"unguard", "release"} => want[p] = p
      /\ pc[p] \in {"moving", "moved"} => job[p] # "none"
      /\ outcome[p] = "none" \/ pc[p] = "dropGuard" \/ (pc[p] \in {"moving", "moved"} /\ job[p] = "unguard")
  BY <1>0 DEF NamesInv, LocalOK, Alive
<1> USE <1>0, <1>n DEF PlaceOK, LocalOK, Judged, Clearing, Goto, Over
<1>1. CASE Begin(p) \/ TriedEnough(p) \/ ReadLock(p) \/ Judge(p) \/ CreateGuard(p) \/ WaitPasses(p) \/ GuardTaken(p) \/ ReadGuard(p)
  BY <1>1 DEF Begin, TriedEnough, ReadLock, Judge, CreateGuard, WaitPasses, GuardTaken, ReadGuard, At, Ends, Forgets, local
<1>2. CASE CreateLock(p) \/ JudgeGuard(p)
  BY <1>2 DEF CreateLock, JudgeGuard, MayClear, At, Ends, Forgets
<1>3. CASE Reread(p) \/ Place(p) \/ DropGuard(p)
  BY <1>3 DEF Reread, Place, DropGuard, Leaves, At, Ends, Forgets
<1>4. CASE Stop(p) \/ WatchLost(p) \/ Release(p) \/ Crash(p)
  BY <1>4 DEF Stop, WatchLost, Release, Crash, At, Ends, Forgets, local
<1>5. CASE MoveAside(p) \/ Unlink(p) \/ PutBack(p)
  <2>1. CASE \E removed \in BOOLEAN : Resumes(p, removed)
    BY <1>5, <2>1 DEF MoveAside, Unlink, PutBack, Resumes, Leaves, At, Ends, Forgets, local
  <2>2. CASE ~\E removed \in BOOLEAN : Resumes(p, removed)
    BY <1>5, <2>2 DEF MoveAside, Unlink, PutBack, At, local
  <2> QED
    BY <2>1, <2>2
<1> QED
  BY <1>1, <1>2, <1>3, <1>4, <1>5 DEF Acts

LEMMA NamesStep ==
    ASSUME TypeOK, NamesInv, [Next]_vars
    PROVE  NamesInv'
<1>1. CASE UNCHANGED vars
  BY <1>1 DEF NamesInv, Unnamed, Early, Judged, Clearing, Gone, Alive, vars
<1>2. CASE PersonRemoves
  <2>1. UNCHANGED <<aside, pc, tries, seen, want, job, outcome, cleared>>
    BY <1>2 DEF PersonRemoves, local
  <2>2. \A n \in Names : file'[n] \in {file[n], NoStart}
    BY <1>2 DEF PersonRemoves, TypeOK
  <2> QED
    BY <2>1, <2>2, Facts DEF NamesInv, Unnamed, Early, Judged, Clearing, Gone, Alive
<1>3. ASSUME NEW p \in Starts, Acts(p), NEW q \in Starts
      PROVE  /\ Early(q)' => Unnamed(q)'
             /\ Judged(q)' => Gone(seen[q])'
             /\ Clearing(q)' => Gone(want[q])'
             /\ pc'[q] = "off" => tries'[q] = 0 /\ ~cleared'[q]
             /\ pc'[q] \in {"moving", "moved"} /\ job'[q] \in {"unguard", "release"} => want'[q] = q
             /\ pc'[q] \in {"moving", "moved"} => job'[q] # "none"
             /\ outcome'[q] # "none" <=> pc'[q] = "dropGuard" \/ (pc'[q] \in {"moving", "moved"} /\ job'[q] = "unguard")
  <2>1. Early(q)' => Unnamed(q)'
    BY <1>3, UnnamedStep
  <2>2. /\ Judged(q)' => seen'[q] = seen[q] /\ Gone(seen[q])
        /\ Clearing(q)' => want'[q] = want[q] /\ Gone(want[q])
        /\ pc'[q] = "off" => tries'[q] = 0 /\ ~cleared'[q]
        /\ pc'[q] \in {"moving", "moved"} /\ job'[q] \in {"unguard", "release"} => want'[q] = q
        /\ pc'[q] \in {"moving", "moved"} => job'[q] # "none"
        /\ outcome'[q] # "none" <=> pc'[q] = "dropGuard" \/ (pc'[q] \in {"moving", "moved"} /\ job'[q] = "unguard")
    <3>1. CASE q = p
      BY <1>3, <3>1, JudgedActs
    <3>2. CASE q # p
      BY <1>3, <3>2, Frame DEF NamesInv, Judged, Clearing, Alive
    <3> QED
      BY <3>1, <3>2
  <2>3. ASSUME NEW h, Gone(h), h = seen[q] \/ h = want[q]
        PROVE  Gone(h)'
    <3>1. h \in Starts
      BY <2>3, Facts DEF Gone
    <3>2. pc[h] # "off"
      BY <2>3, <3>1, Named
    <3> QED
      BY <1>3, <2>3, <3>1, <3>2, StaysGone
  <2>4. /\ Judged(q)' => Gone(seen[q])'
        /\ Clearing(q)' => Gone(want[q])'
    BY <2>2, <2>3 DEF Gone, Alive
  <2> QED
    BY <2>1, <2>2, <2>4
<1>4. CASE \E p \in Starts : Acts(p)
  BY <1>3, <1>4 DEF NamesInv, Alive
<1> QED
  BY <1>1, <1>2, <1>4, Moves

-----------------------------------------------------------------------------
(* The guard.                                                                  *)

\* Who holds the guard lives, and no two do.
LEMMA GuardHolder ==
    ASSUME GuardInv, NEW q \in Starts, InGuard(q)
    PROVE  Alive(q) /\ file["guard"] = q
BY DEF GuardInv, InGuard, Alive, Over

\* What the start that acts finds or makes under the guard.
LEMMA GuardActs ==
    ASSUME TypeOK, NamesInv, GuardInv, ClearsTheJudged, NEW p \in Starts, Acts(p)
    PROVE  /\ InGuard(p)' => \/ InGuard(p) /\ file'["guard"] = file["guard"]
                             \/ file["guard"] = NoStart /\ file'["guard"] = p
           /\ pc'[p] = "moved" /\ job'[p] = "unguard" => aside'[p] = p
           /\ \/ file'["guard"] = file["guard"]
              \/ file["guard"] = NoStart /\ file'["guard"] = p
              \/ InGuard(p) /\ file["guard"] = p
              \/ Clearing(p) /\ Clearing(p)' /\ pc'[p] = "moved" /\ aside'[p] = file["guard"]
<1>0. LocalOK /\ SharedOK /\ PlaceOK
  BY DEF TypeOK, LocalOK, SharedOK, PlaceOK
<1>n. /\ pc[p] = "dropGuard" \/ (pc[p] \in {"moving", "moved"} /\ job[p] = "unguard") => outcome[p] \in {"running", "refused"}
      /\ pc[p] \in {"moving", "moved"} /\ job[p] \in {"unguard", "release"} => want[p] = p
      /\ pc[p] \in {"moving", "moved"} => job[p] # "none"
      /\ InGuard(p) => file["guard"] = p
      /\ pc[p] = "moved" /\ job[p] = "unguard" => aside[p] = p
      /\ pc[p] = "moved" /\ job[p] = "clear" => aside[p] = want[p]
      /\ "lock" \in Names /\ "guard" \in Names
  BY <1>0 DEF NamesInv, LocalOK, GuardInv, ClearsTheJudged, Names
<1> USE <1>0, <1>n DEF PlaceOK, LocalOK, InGuard, Clearing, Goto
<1>1. CASE Begin(p) \/ TriedEnough(p) \/ ReadLock(p) \/ Judge(p) \/ WaitPasses(p) \/ GuardTaken(p) \/ ReadGuard(p)
  BY <1>1 DEF Begin, TriedEnough, ReadLock, Judge, WaitPasses, GuardTaken, ReadGuard, At, Ends, Forgets, local
<1>2. CASE CreateLock(p) \/ CreateGuard(p) \/ JudgeGuard(p)
  BY <1>2 DEF SharedOK, CreateLock, CreateGuard, JudgeGuard, At, Ends, Forgets, local
<1>3. CASE Reread(p) \/ Place(p) \/ DropGuard(p)
  BY <1>3 DEF SharedOK, Reread, Place, DropGuard, Leaves, At, Ends, Forgets
<1>4. CASE Stop(p) \/ WatchLost(p) \/ Release(p) \/ Crash(p)
  BY <1>4 DEF Stop, WatchLost, Release, Crash, At, Ends, Forgets, local, Alive, Over
<1>5. CASE MoveAside(p)
  <2>1. CASE Resumes(p, TRUE) /\ UNCHANGED <<file, aside>>
    BY <1>5, <2>1 DEF MoveAside, Resumes, Leaves, At, Ends, Forgets, local
  <2>2. CASE ~(Resumes(p, TRUE) /\ UNCHANGED <<file, aside>>)
    BY <1>5, <2>2, ZenonT(60) DEF SharedOK, MoveAside, At, local, PathOf
  <2> QED
    BY <2>1, <2>2
<1>6. CASE Unlink(p) \/ PutBack(p)
  <2>1. file'["guard"] = file["guard"]
    BY <1>6 DEF SharedOK, Unlink, PutBack, PathOf, At
  <2> QED
    BY <1>6, <2>1 DEF Unlink, PutBack, Resumes, Leaves, At, Ends, Forgets, local
<1> QED
  BY <1>1, <1>2, <1>3, <1>4, <1>5, <1>6 DEF Acts

LEMMA GuardStep ==
    ASSUME TypeOK, NamesInv, GuardInv, ClearsTheJudged, ClearsTheJudged', [Next]_vars
    PROVE  GuardInv'
<1>1. CASE UNCHANGED vars
  BY <1>1 DEF GuardInv, InGuard, vars
<1>2. CASE PersonRemoves
  <2>1. UNCHANGED <<aside, pc, job>>
    BY <1>2 DEF PersonRemoves, local
  <2>2. file'["guard"] = file["guard"]
    BY <1>2 DEF PersonRemoves, TypeOK, Names
  <2> QED
    BY <2>1, <2>2 DEF GuardInv, InGuard
<1>3. ASSUME NEW p \in Starts, Acts(p), NEW q \in Starts
      PROVE  (InGuard(q)' => file'["guard"] = q) /\ (pc'[q] = "moved" /\ job'[q] = "unguard" => aside'[q] = q)
  <2>1. CASE q = p
    BY <1>3, <2>1, GuardActs, GuardHolder
  <2>2. CASE q # p
    <3>1. (InGuard(q)' <=> InGuard(q)) /\ (pc'[q] = "moved" /\ job'[q] = "unguard" => aside'[q] = q)
      BY <1>3, <2>2, Frame DEF InGuard, GuardInv
    <3>2. ASSUME InGuard(q)
          PROVE  file'["guard"] = q
      <4>1. Alive(q) /\ file["guard"] = q /\ q # NoStart
        BY <3>2, GuardHolder, Facts
      <4>2. ~InGuard(p)
        BY <2>2, <4>1, GuardHolder
      <4>3. ~(Clearing(p) /\ Clearing(p)' /\ pc'[p] = "moved" /\ aside'[p] = file["guard"])
        <5>1. Clearing(p) /\ Clearing(p)' => want'[p] = want[p] /\ Gone(want[p])
          BY <1>3, JudgedActs
        <5>2. Clearing(p)' /\ pc'[p] = "moved" => aside'[p] = want'[p]
          BY DEF ClearsTheJudged, Clearing
        <5> QED
          BY <4>1, <5>1, <5>2 DEF Gone
      <4> QED
        BY <1>3, <4>1, <4>2, <4>3, GuardActs
    <3> QED
      BY <3>1, <3>2
  <2> QED
    BY <2>1, <2>2
<1>4. CASE \E p \in Starts : Acts(p)
  BY <1>3, <1>4 DEF GuardInv
<1> QED
  BY <1>1, <1>2, <1>4, Moves

-----------------------------------------------------------------------------
(* The lock.                                                                   *)

LEMMA LockHolder ==
    ASSUME TypeOK, NamesInv, NEW q \in Starts, Holds(q)
    PROVE  Alive(q)
BY DEF NamesInv, Holds, Alive, Over, Daemon

TakesOver(p) == pc[p] = "moving" /\ job[p] = "takeover"

\* What the start that acts does to the lock.
LEMMA LockActs ==
    ASSUME TypeOK, NamesInv, GuardInv, LockInv, ClearsTheJudged, NEW p \in Starts, Acts(p)
    PROVE  /\ Holds(p)' => \/ Holds(p) /\ file'["lock"] = file["lock"]
                           \/ file["lock"] = NoStart /\ file'["lock"] = p
           /\ TakesOver(p)' => want'[p] = file["lock"] /\ file'["lock"] = file["lock"] /\ Gone(want'[p])
           /\ pc'[p] = "moved" /\ job'[p] \in {"takeover", "release"} => aside'[p] = want'[p]
           /\ \/ file'["lock"] = file["lock"]
              \/ file["lock"] = NoStart /\ file'["lock"] = p
              \/ TakesOver(p)
              \/ Holds(p)
<1>0. LocalOK /\ SharedOK /\ PlaceOK
  BY DEF TypeOK, LocalOK, SharedOK, PlaceOK
<1>n. /\ pc[p] = "dropGuard" \/ (pc[p] \in {"moving", "moved"} /\ job[p] = "unguard") => outcome[p] \in {"running", "refused"}
      /\ pc[p] \in {"moving", "moved"} /\ job[p] \in {"unguard", "release"} => want[p] = p
      /\ pc[p] \in {"moving", "moved"} => job[p] # "none"
      /\ outcome[p] = "none" \/ pc[p] = "dropGuard" \/ (pc[p] \in {"moving", "moved"} /\ job[p] = "unguard")
      /\ pc[p] = "reread" => Gone(seen[p])
      /\ Holds(p) => file["lock"] = p
      /\ TakesOver(p) => want[p] = file["lock"] /\ Gone(want[p])
      /\ pc[p] = "moved" /\ job[p] \in {"takeover", "release"} => aside[p] = want[p]
      /\ pc[p] = "moved" /\ job[p] = "clear" => aside[p] = want[p]
      /\ "lock" \in Names /\ "guard" \in Names
  BY <1>0 DEF NamesInv, LocalOK, LockInv, TakesOver, ClearsTheJudged, Names, Judged
<1> USE <1>0, <1>n DEF PlaceOK, LocalOK, Holds, TakesOver, Goto, Daemon
<1>1. CASE Begin(p) \/ TriedEnough(p) \/ ReadLock(p) \/ Judge(p) \/ WaitPasses(p) \/ GuardTaken(p) \/ ReadGuard(p)
  BY <1>1 DEF Begin, TriedEnough, ReadLock, Judge, WaitPasses, GuardTaken, ReadGuard, At, Ends, Forgets, local
<1>2. CASE CreateLock(p) \/ CreateGuard(p) \/ JudgeGuard(p)
  BY <1>2 DEF SharedOK, CreateLock, CreateGuard, JudgeGuard, At, Ends, Forgets, local
<1>3. CASE Reread(p) \/ Place(p) \/ DropGuard(p)
  BY <1>3 DEF SharedOK, Reread, Place, DropGuard, Leaves, At, Ends, Forgets
<1>4. CASE Stop(p) \/ WatchLost(p) \/ Release(p) \/ Crash(p)
  BY <1>4 DEF Stop, WatchLost, Release, Crash, At, Ends, Forgets, local
<1>5. CASE MoveAside(p)
  <2>1. CASE Resumes(p, TRUE) /\ UNCHANGED <<file, aside>>
    BY <1>5, <2>1 DEF MoveAside, Resumes, Leaves, At, Ends, Forgets, local
  <2>2. CASE ~(Resumes(p, TRUE) /\ UNCHANGED <<file, aside>>)
    BY <1>5, <2>2 DEF SharedOK, MoveAside, At, local, PathOf
  <2> QED
    BY <2>1, <2>2
<1>6. CASE Unlink(p) \/ PutBack(p)
  <2>1. file'["lock"] = file["lock"]
    BY <1>6 DEF SharedOK, Unlink, PutBack, PathOf, At
  <2> QED
    BY <1>6, <2>1 DEF Unlink, PutBack, Resumes, Leaves, At, Ends, Forgets, local
<1> QED
  BY <1>1, <1>2, <1>3, <1>4, <1>5, <1>6 DEF Acts

LEMMA LockStep ==
    ASSUME TypeOK, NamesInv, GuardInv, LockInv, ClearsTheJudged, [Next]_vars, removals' = 0
    PROVE  LockInv'
<1>1. CASE UNCHANGED vars
  BY <1>1 DEF LockInv, Holds, Gone, Alive, vars
<1>2. ~PersonRemoves
  <2>1. removals \in Nat
    BY Facts DEF TypeOK
  <2> QED
    BY <2>1 DEF PersonRemoves
<1>3. ASSUME NEW p \in Starts, Acts(p), NEW q \in Starts
      PROVE  /\ Holds(q)' => file'["lock"] = q
             /\ TakesOver(q)' => want'[q] = file'["lock"] /\ Gone(want[q])'
             /\ pc'[q] = "moved" /\ job'[q] \in {"takeover", "release"} => aside'[q] = want'[q]
  <2>0. ASSUME NEW h, Gone(h), h = want[q] \/ h = file["lock"]
        PROVE  Gone(h)' /\ h # p
    <3>1. h \in Starts /\ "lock" \in Names
      BY <2>0, Facts DEF Gone, Names
    <3>2. pc[h] # "off"
      BY <2>0, <3>1, Named
    <3> QED
      BY <1>3, <2>0, <3>1, <3>2, StaysGone
  <2>1. CASE q = p
    <3>1. Holds(q)' => file'["lock"] = q
      BY <1>3, <2>1, LockActs DEF LockInv
    <3>2. TakesOver(q)' => want'[q] = file'["lock"] /\ Gone(want[q])'
      BY <1>3, <2>0, <2>1, LockActs DEF Gone, Alive
    <3>3. pc'[q] = "moved" /\ job'[q] \in {"takeover", "release"} => aside'[q] = want'[q]
      BY <1>3, <2>1, LockActs
    <3> QED
      BY <3>1, <3>2, <3>3
  <2>2. CASE q # p
    <3>1. /\ Holds(q)' <=> Holds(q)
          /\ TakesOver(q)' <=> TakesOver(q)
          /\ want'[q] = want[q]
          /\ pc'[q] = "moved" /\ job'[q] \in {"takeover", "release"} => aside'[q] = want'[q]
      BY <1>3, <2>2, Frame DEF Holds, TakesOver, LockInv
    <3>2. ASSUME Holds(q)
          PROVE  file'["lock"] = q
      <4>1. Alive(q) /\ file["lock"] = q /\ q # NoStart
        BY <3>2, LockHolder, Facts DEF LockInv
      <4>2. ~Holds(p) /\ ~TakesOver(p)
        BY <1>3, <2>2, <4>1 DEF LockInv, TakesOver, Gone
      <4> QED
        BY <1>3, <4>1, <4>2, LockActs
    <3>3. ASSUME TakesOver(q)
          PROVE  want[q] = file'["lock"] /\ Gone(want[q])'
      <4>1. want[q] = file["lock"] /\ Gone(want[q]) /\ want[q] # NoStart
        BY <3>3, Facts DEF LockInv, TakesOver, Gone
      <4>2. ~TakesOver(p)
        BY <1>3, <2>2, <3>3, GuardHolder DEF TakesOver, InGuard
      <4>3. ~Holds(p)
        BY <1>3, <4>1, LockHolder DEF LockInv, Gone
      <4>4. Gone(want[q])'
        BY <2>0, <3>1, <4>1 DEF Gone, Alive
      <4> QED
        BY <1>3, <4>1, <4>2, <4>3, <4>4, LockActs
    <3> QED
      BY <3>1, <3>2, <3>3 DEF Gone, Alive
  <2> QED
    BY <2>1, <2>2
<1>4. CASE \E p \in Starts : Acts(p)
  BY <1>3, <1>4 DEF LockInv, TakesOver
<1> QED
  BY <1>1, <1>2, <1>4, Moves

-----------------------------------------------------------------------------
(* A start with no rival.                                                      *)

\* Where it is refused, what refuses it cannot be told gone.
LEMMA CannotTell ==
    ASSUME TypeOK, NamesInv, NEW p \in Starts, NoRival(p), Early(p), NEW n \in Names, file[n] # NoStart, ~Gone(file[n])
    PROVE  Blocked
<1>1. file[n] \in Starts \ {p}
  BY Facts DEF TypeOK, NamesInv, Unnamed
<1> QED
  BY <1>1 DEF NoRival, Gone, Blocked

\* It finds the lock and the guard as it left them.
LEMMA AloneActs ==
    ASSUME TypeOK, NamesInv, NEW p \in Starts, Acts(p), ~Begin(p), NoRival(p), AsSeen(p)
    PROVE  AsSeen(p)'
<1>0. LocalOK /\ SharedOK /\ PlaceOK
  BY DEF TypeOK, LocalOK, SharedOK, PlaceOK
<1>n. /\ pc[p] = "dropGuard" \/ (pc[p] \in {"moving", "moved"} /\ job[p] = "unguard") => outcome[p] \in {"running", "refused"}
      /\ outcome[p] = "none" \/ pc[p] = "dropGuard" \/ (pc[p] \in {"moving", "moved"} /\ job[p] = "unguard")
      /\ pc[p] \in {"moving", "moved"} => job[p] # "none"
      /\ "lock" \in Names /\ "guard" \in Names
  BY <1>0 DEF NamesInv, LocalOK, Names
<1>b. ASSUME (pc[p] = "judge" /\ ~Gone(seen[p])) \/ (pc[p] = "judgeGuard" /\ ~MayClear(p))
      PROVE  Blocked
  <2>1. CASE pc[p] = "judge" /\ ~Gone(seen[p])
    BY <1>n, <2>1, CannotTell DEF AsSeen, Early
  <2>2. CASE pc[p] = "judgeGuard" /\ ~MayClear(p)
    BY <1>n, <2>2, CannotTell DEF AsSeen, Early, MayClear
  <2> QED
    BY <1>b, <2>1, <2>2
<1> USE <1>0, <1>n DEF PlaceOK, LocalOK, SharedOK, AsSeen, Judged, Clearing, Goto
<1>1. CASE CreateLock(p) \/ TriedEnough(p) \/ ReadLock(p)
  BY <1>1, Facts DEF CreateLock, TriedEnough, ReadLock, At, Ends, Forgets
<1>2. CASE Judge(p) \/ JudgeGuard(p)
  <2>1. pc'[p] = "refused" => Blocked'
    <3>1. UNCHANGED file
      BY <1>2 DEF Judge, JudgeGuard
    <3>2. pc'[p] = "refused" => Blocked
      BY <1>2, <1>b DEF Judge, JudgeGuard, At, Ends
    <3> QED
      BY <3>1, <3>2 DEF Blocked
  <2> QED
    BY <1>2, <2>1 DEF Judge, JudgeGuard, At, Ends, Forgets, local
<1>3. CASE CreateGuard(p) \/ WaitPasses(p) \/ GuardTaken(p) \/ ReadGuard(p)
  BY <1>3 DEF CreateGuard, WaitPasses, GuardTaken, ReadGuard, At, local
<1>4. CASE Reread(p) \/ Place(p) \/ DropGuard(p)
  BY <1>4 DEF Reread, Place, DropGuard, Leaves, At, Ends, Forgets
<1>5. CASE Stop(p) \/ WatchLost(p) \/ Release(p) \/ Crash(p)
  BY <1>5 DEF Stop, WatchLost, Release, Crash, At, Ends, Forgets, local
<1>6. CASE MoveAside(p)
  <2>1. CASE Resumes(p, TRUE) /\ UNCHANGED <<file, aside>>
    BY <1>6, <2>1, Facts DEF MoveAside, Resumes, PathOf, Leaves, At, Ends, Forgets, local
  <2>2. CASE ~(Resumes(p, TRUE) /\ UNCHANGED <<file, aside>>)
    BY <1>6, <2>2 DEF MoveAside, At, local, PathOf
  <2> QED
    BY <2>1, <2>2
<1>7. CASE Unlink(p)
  BY <1>7 DEF Unlink, Resumes, Leaves, At, Ends, Forgets, local
<1>8. CASE PutBack(p)
  BY <1>8 DEF PutBack, PathOf, Resumes, Leaves, At, Ends, Forgets, local
<1> QED
  BY <1>1, <1>2, <1>3, <1>4, <1>5, <1>6, <1>7, <1>8 DEF Acts

LEMMA AloneStep ==
    ASSUME TypeOK, NamesInv, AloneInv, [Next]_vars
    PROVE  AloneInv'
<1>1. CASE UNCHANGED vars
  BY <1>1 DEF AloneInv, NoRival, AsSeen, Blocked, Judged, Clearing, Alive, vars
<1>2. CASE PersonRemoves
  BY <1>2 DEF PersonRemoves, AloneInv
<1>3. ASSUME NEW p \in Starts, Acts(p), NEW q \in Starts, alone'[q]
      PROVE  NoRival(q)' /\ AsSeen(q)'
  <2>1. CASE Begin(p)
    <3>1. q = p /\ \A r \in Starts : ~Alive(r)
      BY <1>3, <2>1 DEF Begin, TypeOK
    <3>2. pc'[p] = "create" /\ pc[p] = "off" /\ UNCHANGED <<tries, cleared, outcome, job>>
      BY <2>1 DEF Begin, At, Goto, TypeOK, local
    <3>3. tries[p] = 0 /\ ~cleared[p] /\ outcome[p] = "none"
      BY <3>2 DEF NamesInv
    <3>4. \A r \in Starts \ {p} : ~Alive(r)'
      BY <1>3, <3>1, Frame DEF Alive
    <3> QED
      BY <3>1, <3>2, <3>3, <3>4 DEF NoRival, AsSeen, Judged, Clearing
  <2>2. CASE ~Begin(p)
    <3>1. Alive(p)
      BY <1>3, <2>2 DEF Acts, Alive, Over, CreateLock, TriedEnough, ReadLock, Judge, CreateGuard, WaitPasses, GuardTaken,
        ReadGuard, JudgeGuard, Reread, Place, DropGuard, Stop, WatchLost, Release, MoveAside, Unlink, PutBack,
        Crash, At
    <3>2. alone[q]
      <4>1. alone' = alone
        BY <1>3, <2>2 DEF Acts, CreateLock, TriedEnough, ReadLock, Judge, CreateGuard, WaitPasses, GuardTaken,
          ReadGuard, JudgeGuard, Reread, Place, DropGuard, Stop, WatchLost, Release, MoveAside, Unlink, PutBack,
          Crash, Others
      <4> QED
        BY <1>3, <4>1
    <3>3. q = p /\ NoRival(p) /\ AsSeen(p)
      BY <1>3, <3>1, <3>2 DEF AloneInv, NoRival
    <3>4. \A r \in Starts \ {p} : ~Alive(r)'
      BY <1>3, <3>3, Frame DEF NoRival, Alive
    <3>5. pc'[p] # "off"
      <4>1. SUFFICES ASSUME pc'[p] = "off"
                     PROVE  FALSE
        OBVIOUS
      <4>2. Early(p)
        BY <1>3, <4>1, EarlyActs DEF Early
      <4> QED
        BY <1>3, <2>2, <3>1, <4>1, <4>2 DEF Acts, CreateLock, TriedEnough, ReadLock, Judge, CreateGuard, WaitPasses, GuardTaken,
          ReadGuard, JudgeGuard, MoveAside, Unlink, PutBack, Stop, WatchLost, Release, Crash, Reread, Place, DropGuard,
          At, Goto, Ends, Resumes, Leaves, Early, Clearing, TypeOK, local
    <3> QED
      BY <1>3, <2>2, <3>3, <3>4, <3>5, AloneActs DEF NoRival
  <2> QED
    BY <2>1, <2>2
<1>4. CASE \E p \in Starts : Acts(p)
  BY <1>3, <1>4 DEF AloneInv
<1> QED
  BY <1>1, <1>2, <1>4, Moves

-----------------------------------------------------------------------------
(* The invariants.                                                             *)
LEMMA InitInv ==
    ASSUME Init
    PROVE  IInv /\ GuardInv /\ LockInv
<1>1. TypeOK
  BY InitTypes
<1>2. /\ \A p \in Starts : /\ pc[p] = "off" /\ tries[p] = 0 /\ ~cleared[p] /\ outcome[p] = "none" /\ ~alone[p]
                           /\ aside[p] = NoStart /\ seen[p] = NoStart /\ want[p] = NoStart
      /\ \A n \in Names : file[n] = NoStart
  BY DEF Init
<1>3. NamesInv
  BY <1>2, Facts DEF NamesInv, Unnamed, Early, Judged, Clearing
<1>4. AloneInv
  BY <1>2 DEF AloneInv
<1>5. GuardInv /\ LockInv
  BY <1>2 DEF GuardInv, InGuard, LockInv, Holds, Daemon
<1> QED
  BY <1>1, <1>3, <1>4, <1>5 DEF IInv

(* What the starts of one directory have made, judged and seen.                *)
THEOREM StartsHold == Spec => []IInv
<1>1. Init => IInv
  BY InitInv
<1>2. IInv /\ [Next]_vars => IInv'
  BY TypeStep, NamesStep, AloneStep DEF IInv
<1> QED
  BY <1>1, <1>2, PTL DEF Spec

(* Every variable keeps its type.                                              *)
THEOREM TypeCorrect == Spec => []TypeOK
<1>1. IInv => TypeOK
  BY DEF IInv
<1> QED
  BY <1>1, StartsHold, PTL

(* A start that nothing disturbs is refused only where a lock or a guard is of *)
(* a holder this machine cannot check (judgeHolder, takeGuard, takeOver).      *)
THEOREM Undisturbed == Spec => []NoSpuriousRefusal
<1>1. IInv => NoSpuriousRefusal
  BY DEF IInv, AloneInv, AsSeen, Blocked, NoSpuriousRefusal
<1> QED
  BY <1>1, StartsHold, PTL

LEMMA OneHolder ==
    ASSUME IInv, removals = 0 => LockInv
    PROVE  OneDaemon
<1>1. ASSUME removals = 0
      PROVE  Cardinality({p \in Starts : pc[p] = "running"}) <= 1
  <2> DEFINE R == {p \in Starts : pc[p] = "running"}
  <2>1. \A p, q \in R : p = q
    BY <1>1 DEF LockInv, Holds, Daemon
  <2>2. CASE R = {}
    BY <2>2, FS_EmptySet
  <2>3. CASE R # {}
    <3>1. PICK p : p \in R
      BY <2>3
    <3>2. R = {p}
      BY <2>1, <3>1
    <3>3. Cardinality({p}) = 1
      BY FS_Singleton
    <3> QED
      BY <3>2, <3>3
  <2> QED
    BY <2>2, <2>3
<1> QED
  BY <1>1 DEF OneDaemon

(* However many starts race and die, one daemon runs (lockOne, takeOver), as   *)
(* long as no start that clears a dead guard moves another one aside, as       *)
(* removeIfStill may, and nobody removes the lock by hand.                     *)
THEOREM OneDaemonWhileClear == Spec /\ []ClearsTheJudged => []OneDaemon
<1> DEFINE J == IInv /\ GuardInv /\ (removals = 0 => LockInv)
<1>1. Init => J
  BY InitInv
<1>2. J /\ ClearsTheJudged /\ ClearsTheJudged' /\ [Next]_vars => J'
  <2> SUFFICES ASSUME J, ClearsTheJudged, ClearsTheJudged', [Next]_vars
               PROVE  J'
    OBVIOUS
  <2>1. IInv' /\ GuardInv'
    BY TypeStep, NamesStep, AloneStep, GuardStep DEF IInv
  <2>2. removals' = 0 => removals = 0
    <3>1. removals \in Nat
      BY Facts DEF IInv, TypeOK
    <3>2. PersonRemoves => removals' # 0
      BY <3>1 DEF PersonRemoves
    <3>3. ASSUME NEW p \in Starts, Acts(p)
          PROVE  removals' = removals
      BY <3>3 DEF Acts, Begin, CreateLock, TriedEnough, ReadLock, Judge, CreateGuard, WaitPasses, GuardTaken,
        ReadGuard, JudgeGuard, Reread, Place, DropGuard, Stop, WatchLost, Release, MoveAside, Unlink, PutBack,
        Crash, Others
    <3>4. UNCHANGED vars => removals' = removals
      BY DEF vars
    <3> QED
      BY <3>2, <3>3, <3>4, Moves
  <2>3. removals' = 0 => LockInv'
    BY <2>2, LockStep DEF IInv
  <2> QED
    BY <2>1, <2>3
<1>3. J => OneDaemon
  BY OneHolder
<1> QED
  BY <1>1, <1>2, <1>3, PTL DEF Spec
=============================================================================
