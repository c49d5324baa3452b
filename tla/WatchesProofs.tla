---------------------------- MODULE WatchesProofs ----------------------------
(* What Watches does for any number of watches, comments, heads and logins:    *)
(*   PollInv    what a poll read of its watch is what the watch still is, or   *)
(*              the watch was changed since;                                   *)
(*   TrustInv   what is remembered as trusted, or judged so by a poll whose    *)
(*              watch was not changed, is sound: from it a run starts only on  *)
(*              a trusted head (TrustedStarts);                                *)
(*   RunsInv    ties the recorded runs to their events: from it an event gets  *)
(*              one run and the branch one at a time (OneRun);                 *)
(*   ViewInv    accounts for a comment a poll has passed: from it none is      *)
(*              behind what the next poll reads (InView).                      *)
EXTENDS Watches, FiniteSetTheorems, TLAPS

(* A poll and the watch it read.  Once it listed the branch it has a head, and *)
(* a pull request that is still open was open then.                            *)
Past == {"judge", "checks", "comments", "act", "vouch"}
PollSays(w) ==
    poll[w] # NoPoll =>
      /\ poll[w].was.changed <= watch[w].changed
      /\ poll[w].was.changed = watch[w].changed => poll[w].was.trust = watch[w].trust
      /\ poll[w].was.ok = watch[w].ok /\ poll[w].was.floor <= watch[w].floor
      /\ poll[w].now <= now
      /\ IF poll[w].at \in Past THEN poll[w].head \in 1..Branch /\ (open => poll[w].pr) ELSE poll[w].verdict = "?"
WatchTimes(w) == watch[w].ok <= now /\ watch[w].floor <= now
PollInv ==
    /\ \A w \in Watchers : PollSays(w) /\ WatchTimes(w) /\ edit[w].head <= Branch
    /\ \A c \in Comments : asked[c] <= now

(* What a watch remembers, and what its poll judged.                           *)
Remembers(w) ==
    trusted[w].head # 0 => /\ trusted[w].head <= Branch
                           /\ Sound(trusted[w].head, trusted[w].under, vouched[w])
Judged(w) ==
    poll[w] # NoPoll /\ poll[w].at \in Past /\ poll[w].verdict = "yes" /\ Fresh(w)
      => Sound(poll[w].head, watch[w].trust, vouched[w])
TrustInv == \A w \in Watchers : Remembers(w) /\ Judged(w)

(* A run that works is the one its event has, unsettled while it is at it; and *)
(* an event has had as many runs as it counts tries, and the one it has.       *)
Of(k) == {r \in Recorded : runs[r].key = k}
Tally(k) == row[k].tries + IF row[k].outcome = "run" /\ row[k].run # 0 THEN 1 ELSE 0
InTries(k) == row[k].tries <= SetupTries /\ (row[k].tries = SetupTries => row[k].outcome = "ignored")
Counted(k) == IsFiniteSet(Of(k)) /\ Cardinality(Of(k)) = Tally(k) /\ InTries(k)
Owns(r) ==
    /\ Worked(r) => row[runs[r].key].run = r /\ row[runs[r].key].outcome = "run"
    /\ Active(r) => ~row[runs[r].key].settled
RunsInv ==
    /\ \A r \in Recorded : Owns(r)
    /\ \A r, s \in Recorded : Active(r) /\ Active(s) => r = s
    /\ \A k \in Keys : Counted(k)

(* A comment nobody took up is as late as the last complete poll, or held; and *)
(* one a poll in its last stage passes by is among what it read, or held in a  *)
(* way that the end of this poll does not undo.                                *)
Unclaimed(w, c) ==
    /\ \A r \in DOMAIN runs : runs[r].key = Review(c) => runs[r].bound
    /\ open /\ asked[c] # Never /\ watch[w].on # "gone" /\ asked[c] >= watch[w].floor
    /\ row[Review(c)].outcome = "none"
HeldFor(w, c) == held[w] # NotHeld /\ held[w] <= asked[c]
Covered(w, c) ==
    Unclaimed(w, c) => watch[w].ok = Never \/ asked[c] >= watch[w].ok \/ HeldFor(w, c)
Carried(w, c) ==
    poll[w] # NoPoll /\ poll[w].at \in {"act", "vouch"} /\ poll[w].ok /\ Unclaimed(w, c) /\ asked[c] < poll[w].now
      => \/ Review(c) \in poll[w].todo
         \/ HeldFor(w, c) /\ (poll[w].holds \/ ~poll[w].released)
ViewInv == \A w \in Watchers, c \in Comments : Covered(w, c) /\ Carried(w, c)

IInv == TypeOK /\ PollInv /\ TrustInv /\ RunsInv /\ ViewInv

-----------------------------------------------------------------------------
(* The data.                                                                   *)
LEMMA Constants ==
    /\ MaxHeads \in Nat /\ MaxHeads # 0 /\ MaxTime \in Nat /\ MaxTime # 0 /\ SetupTries \in Nat /\ SetupTries # 0
    /\ Me \in Logins /\ \E w : w \in Watchers
<1>1. MaxHeads \in Nat \ {0} /\ MaxTime \in Nat \ {0} /\ SetupTries \in Nat \ {0}
  BY ConstantsAssumption
<1> QED
  BY <1>1, ConstantsAssumption

LEMMA KeysType ==
    /\ \A h \in HeadIds : Ci(h) \in Keys
    /\ \A c \in Comments : Review(c) \in Keys
    /\ Ci(1) \in Keys
    /\ \A k \in Keys : k[1] = "review" => \E c \in Comments : k = Review(c)
    /\ \A c, d \in Comments : Review(c) = Review(d) => c = d
    /\ \A c \in Comments : Review(c)[1] = "review"
    /\ \A h \in HeadIds, c \in Comments : Ci(h) # Review(c)
<1>1. 1 \in HeadIds
  BY Constants DEF HeadIds
<1> QED
  BY <1>1 DEF Keys, Ci, Review

LEMMA PollType ==
    ASSUME TypeOK, NEW w \in Watchers
    PROVE  /\ poll[w] \in Polled \/ poll[w] = NoPoll
           /\ poll[w].at = "no" <=> poll[w] = NoPoll
           /\ \A at \in Places : Polling(w, at) => poll[w] \in Polled
<1>1. poll[w] \in Polled \/ poll[w] = NoPoll
  BY DEF TypeOK
<1>2. poll[w] \in Polled => poll[w].at \in Places
  BY DEF Polled
<1>3. NoPoll.at = "no" /\ "no" \notin Places
  BY DEF NoPoll, Places
<1> QED
  BY <1>1, <1>2, <1>3 DEF Polling

LEMMA NoRowType == NoRow \in Events /\ NoRow.run = 0 /\ NoRow.outcome = "none" /\ NoRow.tries = 0
<1>1. (CHOOSE w \in Watchers : TRUE) \in Watchers
  BY Constants
<1> QED
  BY <1>1 DEF NoRow, Events

LEMMA InitTypes ==
    ASSUME Init
    PROVE  TypeOK
<1>0. PICK l \in Logins : heads = <<[how |-> "push", by |-> l, listed |-> TRUE]>>
  BY DEF Init
<1>1. now \in Time \ {Never} /\ Branch \in HeadIds /\ red \subseteq 1..Branch
  BY <1>0, Constants DEF Init, Branch, HeadIds, Time, Never
<1>2. heads \in Seq(Commits)
  <2>1. [how |-> "push", by |-> l, listed |-> TRUE] \in Commits
    BY DEF Commits
  <2> QED
    BY <1>0, <2>1
<1>3. asked \in [Comments -> Time] /\ open \in BOOLEAN
  BY Constants DEF Init, Time, Never
<1>4. watch \in [Watchers -> Records]
  <2>1. mix.trust \in Lists
    BY ConstantsAssumption DEF Init
  <2>2. 0 \in Time /\ 1 \in Time
    BY Constants DEF Time
  <2> QED
    BY <2>1, <2>2 DEF Init, Records, Never
<1>5. row \in [Keys -> Events] /\ \A k \in Keys : row[k].run \in 0..Len(runs)
  BY NoRowType DEF Init
<1>6. runs \in Seq(RunRecords)
  BY DEF Init
<1>7. /\ refused \in [Watchers -> SUBSET HeadIds]
      /\ trusted \in [Watchers -> [head : 0..MaxHeads, under : SUBSET Logins]]
      /\ held \in [Watchers -> Time \cup {NotHeld}]
      /\ poll \in [Watchers -> Polled \cup {NoPoll}]
      /\ unlisted \in [Watchers -> SUBSET HeadIds]
      /\ edit \in [Watchers -> [head : HeadIds, trust : Lists] \cup {NoEdit}]
      /\ vouched \in [Watchers -> SUBSET HeadIds] /\ stopping \in BOOLEAN
  <2>1. 0 \in 0..MaxHeads
    BY Constants
  <2>2. [head |-> 0, under |-> {}] \in [head : 0..MaxHeads, under : SUBSET Logins]
    BY <2>1
  <2> QED
    BY <2>2 DEF Init
<1> QED
  BY <1>1, <1>2, <1>3, <1>4, <1>5, <1>6, <1>7 DEF TypeOK

LEMMA GoesType ==
    ASSUME TypeOK, NEW w \in Watchers, NEW next \in Polled \cup {NoPoll}, Goes(w, next)
    PROVE  poll' \in [Watchers -> Polled \cup {NoPoll}]
BY DEF Goes, TypeOK

LEMMA VerdictType ==
    ASSUME NEW w \in Watchers, poll[w] \in Polled
    PROVE  /\ \A h, T : Verdict(w, h, T) \in {"yes", "no", "lag"}
           /\ Ruling(w) \in {"yes", "no", "lag"}
<1>1. \A h, T : Verdict(w, h, T) \in {"yes", "no", "lag"}
  BY DEF Verdict
<1>2. poll[w].verdict \in {"?", "yes", "no", "lag"}
  BY DEF Polled
<1> QED
  BY <1>1, <1>2 DEF Ruling

LEMMA ActedType ==
    ASSUME TypeOK, NEW w \in Watchers, poll[w] \in Polled
    PROVE  /\ Acted(w) \in Polled /\ Acted(w).at = "act" /\ Acted(w).was = poll[w].was /\ Acted(w).now = poll[w].now
           /\ Acted(w).head = poll[w].head /\ Acted(w).pr = poll[w].pr /\ Acted(w).todo = poll[w].todo \ {poll[w].key}
           /\ Acted(w).holds = poll[w].holds /\ Acted(w).released = poll[w].released /\ Acted(w).ok = poll[w].ok
           /\ Acted(w).verdict = poll[w].verdict
BY KeysType DEF Acted, Polled, Places

(* The poll a step leaves is typed.                                            *)
PollTyped == poll' \in [Watchers -> Polled \cup {NoPoll}]

LEMMA ReadsTyped ==
    ASSUME TypeOK, NEW w \in Watchers,
           \/ Begin(w) \/ CannotRead(w) \/ Known(w) \/ OtherLogin(w) \/ Targets(w) \/ Judge(w)
           \/ Errs(w) \/ ReadChecks(w) \/ ReadComments(w) \/ Finish(w)
    PROVE  PollTyped
<1> USE DEF PollTyped
<1>1. CASE Begin(w)
  <2> DEFINE p == [at |-> "me", was |-> watch[w], now |-> now, head |-> 0, pr |-> FALSE, todo |-> {}, key |-> Ci(1),
                   verdict |-> "?", busy |-> FALSE, holds |-> FALSE, released |-> FALSE, ok |-> TRUE]
  <2>1. watch[w] \in Records /\ now \in Time /\ 0 \in 0..MaxHeads /\ Ci(1) \in Keys
    BY Constants, KeysType DEF TypeOK
  <2>2. p \in Polled
    BY <2>1 DEF Polled, Places
  <2>3. Goes(w, p)
    BY <1>1 DEF Begin
  <2> HIDE DEF p
  <2> QED
    BY <2>2, <2>3, GoesType
<1>2. CASE CannotRead(w) \/ OtherLogin(w) \/ Finish(w)
  BY <1>2, GoesType DEF CannotRead, OtherLogin, Finish
<1>3. CASE Known(w)
  <2> DEFINE p == [poll[w] EXCEPT !.at = "list"]
  <2>1. poll[w] \in Polled
    BY <1>3, PollType DEF Known, Places
  <2>2. p \in Polled
    BY <2>1 DEF Polled, Places
  <2>3. Goes(w, p)
    BY <1>3 DEF Known
  <2> HIDE DEF p
  <2> QED
    BY <2>2, <2>3, GoesType
<1>4. CASE Targets(w)
  <2> DEFINE p == [poll[w] EXCEPT !.head = Branch, !.pr = open, !.at = IF Branch = lastTrusted(w, poll[w].was.trust) \/ Branch \in refused[w]
                                                                           THEN "checks" ELSE "judge"]
  <2>1. poll[w] \in Polled
    BY <1>4, PollType DEF Targets, Places
  <2>2. Branch \in 0..MaxHeads /\ open \in BOOLEAN
    BY Constants DEF TypeOK, HeadIds
  <2>3. p \in Polled
    BY <2>1, <2>2 DEF Polled, Places
  <2>4. Goes(w, p)
    BY <1>4 DEF Targets
  <2> HIDE DEF p
  <2> QED
    BY <2>3, <2>4, GoesType
<1>5. CASE Judge(w)
  <2> DEFINE p == [poll[w] EXCEPT !.at = "checks", !.verdict = Verdict(w, poll[w].head, poll[w].was.trust)]
             q == [p EXCEPT !.holds = poll[w].pr]
  <2>1. poll[w] \in Polled
    BY <1>5, PollType DEF Judge, Places
  <2>0. Verdict(w, poll[w].head, poll[w].was.trust) \in {"yes", "no", "lag"} /\ poll[w].pr \in BOOLEAN
    BY <2>1, VerdictType DEF Polled
  <2>5. p \in Polled
    BY <2>0, <2>1 DEF Polled, Places
  <2>2. p \in Polled /\ q \in Polled
    <3> HIDE DEF p
    <3> QED
      BY <2>0, <2>5 DEF Polled
  <2>3. Goes(w, p) \/ Goes(w, q)
    BY <1>5 DEF Judge
  <2> HIDE DEF p, q
  <2> QED
    BY <2>2, <2>3, GoesType
<1>6. CASE Errs(w)
  <2> DEFINE p == [poll[w] EXCEPT !.ok = FALSE, !.at = IF @ = "judge" THEN "checks" ELSE AfterChecks(w, @)]
  <2>1. poll[w] \in Polled
    BY <1>6, PollType DEF Errs, Polling, Places
  <2>2. p \in Polled
    BY <2>1 DEF Polled, Places, AfterChecks
  <2>3. Goes(w, p)
    BY <1>6 DEF Errs
  <2> HIDE DEF p
  <2> QED
    BY <2>2, <2>3, GoesType
<1>7. CASE ReadChecks(w)
  <2> DEFINE p == [poll[w] EXCEPT !.at = "act", !.holds = poll[w].pr]
             q == [poll[w] EXCEPT !.todo = {Ci(poll[w].head)} \cap {k \in Keys : poll[w].head \in red /\ Unseen(k)}, !.at = AfterChecks(w, @)]
  <2>1. poll[w] \in Polled
    BY <1>7, PollType DEF ReadChecks, Places
  <2>2. p \in Polled /\ q \in Polled
    BY <2>1 DEF Polled, Places, AfterChecks
  <2>3. Goes(w, p) \/ Goes(w, q)
    BY <1>7 DEF ReadChecks
  <2> HIDE DEF p, q
  <2> QED
    BY <2>2, <2>3, GoesType
<1>8. CASE ReadComments(w)
  <2> PICK cs \in SUBSET Comments :
        Goes(w, [poll[w] EXCEPT !.at = "act", !.released = held[w] # NotHeld, !.todo = @ \cup {Review(c) : c \in cs}])
    BY <1>8 DEF ReadComments
  <2> DEFINE p == [poll[w] EXCEPT !.at = "act", !.released = held[w] # NotHeld, !.todo = @ \cup {Review(c) : c \in cs}]
  <2>1. poll[w] \in Polled
    BY <1>8, PollType DEF ReadComments, Places
  <2>2. {Review(c) : c \in cs} \subseteq Keys
    BY KeysType
  <2>3. p \in Polled
    BY <2>1, <2>2 DEF Polled, Places
  <2> HIDE DEF p
  <2> QED
    BY <2>3, GoesType DEF p
<1> QED
  BY <1>1, <1>2, <1>3, <1>4, <1>5, <1>6, <1>7, <1>8

LEMMA ActsTyped ==
    ASSUME TypeOK, NEW w \in Watchers,
           \/ Pick(w) \/ CannotVouch(w) \/ NotYet(w) \/ Refuse(w) \/ GivesUp(w) \/ Loses(w)
           \/ Start(w) \/ StartRefused(w) \/ StartUnbound(w)
    PROVE  PollTyped
<1> USE DEF PollTyped
<1>1. poll[w] \in Polled
  BY PollType DEF Pick, CannotVouch, NotYet, Refuse, GivesUp, Loses, Start, StartRefused, StartUnbound, Wins, Ready, Clear, Places
<1> DEFINE a == Acted(w)
<1>2. a \in Polled
  BY <1>1, ActedType
<1>3. \A v \in {"?", "yes", "no", "lag"}, b, h \in BOOLEAN :
        /\ [a EXCEPT !.verdict = v] \in Polled /\ [a EXCEPT !.ok = b] \in Polled
        /\ [a EXCEPT !.ok = b, !.verdict = v] \in Polled /\ [a EXCEPT !.busy = b, !.verdict = v] \in Polled
        /\ [a EXCEPT !.holds = h, !.verdict = v] \in Polled
  <2> HIDE DEF a
  <2> QED
    BY <1>2, ZenonT(60) DEF Polled
<1>4. CASE Incomplete(w)
  <2>1. [poll[w] EXCEPT !.at = "act", !.todo = {}, !.ok = FALSE] \in Polled
    BY <1>1 DEF Polled, Places
  <2> QED
    BY <1>4, <2>1, GoesType DEF Incomplete
<1>5. CASE Pick(w)
  <2>1. \A k \in Keys : /\ [poll[w] EXCEPT !.at = "vouch", !.key = k] \in Polled
                        /\ [poll[w] EXCEPT !.todo = @ \ {k}, !.busy = Busy(w)] \in Polled
    <3>1. Busy(w) \in BOOLEAN
      BY <1>1 DEF Busy, Polled
    <3> QED
      BY <1>1, <3>1 DEF Polled, Places
  <2>2. poll[w].todo \subseteq Keys
    BY <1>1 DEF Polled
  <2> QED
    BY <1>4, <1>5, <2>1, <2>2, GoesType DEF Pick
<1>6. Ruling(w) \in {"yes", "no", "lag"} /\ poll[w].pr \in BOOLEAN /\ Busy(w) \in BOOLEAN
  BY <1>1, VerdictType DEF Busy, Polled
<1> HIDE DEF a
<1>7. \/ Pick(w) \/ Incomplete(w)
      \/ Goes(w, [a EXCEPT !.ok = FALSE]) \/ Goes(w, [a EXCEPT !.verdict = "lag"])
      \/ Goes(w, [a EXCEPT !.holds = poll[w].pr, !.verdict = Ruling(w)])
      \/ Goes(w, [a EXCEPT !.busy = Busy(w), !.verdict = "yes"])
      \/ Goes(w, [a EXCEPT !.busy = TRUE, !.verdict = "yes"])
      \/ Goes(w, [a EXCEPT !.verdict = "yes"])
      \/ Goes(w, [a EXCEPT !.ok = FALSE, !.verdict = "yes"])
  BY DEF CannotVouch, NotYet, Refuse, GivesUp, Loses, Start, StartRefused, StartUnbound, a
<1> QED
  BY <1>3, <1>4, <1>5, <1>6, <1>7, GoesType

(* The events a step leaves are typed.                                         *)
RowTyped == row' \in [Keys -> Events] /\ \A k \in Keys : row'[k].run \in 0..Len(runs')

LEMMA LedgerType ==
    ASSUME TypeOK, NEW w \in Watchers, NEW k \in Keys
    PROVE  /\ row[k] \in Events /\ row[k].run \in 0..Len(runs) /\ Len(runs) \in Nat
           /\ Deferred(k, w) \in Events /\ Deferred(k, w).run = row[k].run
           /\ Skipped(k, w) \in [Keys -> Events] /\ \A j \in Keys : Skipped(k, w)[j].run = row[j].run
           /\ Bound(k, w) \in [Keys -> Events] /\ \A j \in Keys : Bound(k, w)[j].run = IF j = k THEN Len(runs) + 1 ELSE row[j].run
           /\ Claimed(k, w) \in [Keys -> Events] /\ \A j \in Keys : Claimed(k, w)[j].run = IF j = k THEN 0 ELSE row[j].run
           /\ Released(k, w) \in Events /\ Released(k, w).run = 0
<1>1. row[k] \in Events /\ row[k].run \in 0..Len(runs) /\ Len(runs) \in Nat /\ row \in [Keys -> Events]
  BY DEF TypeOK
<1>2. Deferred(k, w) \in Events /\ Deferred(k, w).run = row[k].run
  BY <1>1 DEF Deferred, Events
<1>3. Skipped(k, w) \in [Keys -> Events] /\ \A j \in Keys : Skipped(k, w)[j].run = row[j].run
  BY <1>1, <1>2 DEF Skipped
<1>4. Bound(k, w) \in [Keys -> Events] /\ \A j \in Keys : Bound(k, w)[j].run = IF j = k THEN Len(runs) + 1 ELSE row[j].run
  <2> DEFINE e == [row[k] EXCEPT !.outcome = "run", !.run = Len(runs) + 1, !.settled = FALSE, !.by = w]
  <2>0. Len(runs) + 1 \in Nat
    BY <1>1
  <2>1. e \in Events /\ e.run = Len(runs) + 1
    BY <1>1, <2>0 DEF Events
  <2>2. Bound(k, w) = [row EXCEPT ![k] = e]
    BY DEF Bound
  <2> HIDE DEF e
  <2> QED
    BY <1>1, <2>1, <2>2
<1>5. Claimed(k, w) \in [Keys -> Events] /\ \A j \in Keys : Claimed(k, w)[j].run = IF j = k THEN 0 ELSE row[j].run
  <2> DEFINE e == [row[k] EXCEPT !.outcome = "run", !.run = 0, !.settled = FALSE, !.by = w]
  <2>1. e \in Events /\ e.run = 0
    BY <1>1 DEF Events
  <2>2. Claimed(k, w) = [row EXCEPT ![k] = e]
    BY DEF Claimed
  <2> HIDE DEF e
  <2> QED
    BY <1>1, <2>1, <2>2
<1>6. Released(k, w) \in Events /\ Released(k, w).run = 0
  <2>1. Claimed(k, w)[k] \in Events /\ Claimed(k, w)[k].run = 0
    BY <1>5
  <2>2. [Claimed(k, w)[k] EXCEPT !.outcome = "retry"] \in Events /\ [Claimed(k, w)[k] EXCEPT !.outcome = "retry"].run = 0
    BY <2>1 DEF Events
  <2> QED
    BY <2>2, NoRowType DEF Released
<1> QED
  BY <1>1, <1>2, <1>3, <1>4, <1>5, <1>6

LEMMA SettledType ==
    ASSUME TypeOK, NEW w \in Watchers, NEW k \in Keys
    PROVE  /\ Settled(w)[k] \in Events /\ Settled(w)[k].run \in {row[k].run, 0}
           /\ expireRetries(w)[k] \in Events /\ expireRetries(w)[k].run = row[k].run
<1>1. row[k] \in Events
  BY DEF TypeOK
<1>2. expireRetries(w)[k] \in Events /\ expireRetries(w)[k].run = row[k].run
  BY <1>1 DEF expireRetries, Events
<1> DEFINE e == row[k]
           gone == runs[e.run].status = "hopeless" \/ e.tries + 1 >= SetupTries
           tried == [e EXCEPT !.tries = @ + 1, !.settled = TRUE,
                              !.outcome = IF gone THEN "ignored" ELSE "retry", !.run = IF gone THEN @ ELSE 0]
<1>3. Settled(w)[k] = IF ~(e.by = w /\ e.run # 0 /\ ~e.settled /\ e.outcome = "run") \/ Active(e.run) THEN e
                      ELSE IF runs[e.run].status = "over" THEN [e EXCEPT !.settled = TRUE] ELSE tried
  BY DEF Settled
<1>4. tried \in Events /\ tried.run \in {e.run, 0}
  <2>1. e.tries + 1 \in Nat /\ e \in Events
    BY <1>1 DEF Events
  <2> HIDE DEF e, gone
  <2> QED
    BY <2>1 DEF Events
<1>5. [e EXCEPT !.settled = TRUE] \in Events /\ [e EXCEPT !.settled = TRUE].run = e.run
  BY <1>1 DEF Events
<1> HIDE DEF tried
<1> QED
  BY <1>1, <1>2, <1>3, <1>4, <1>5

LEMMA RowsTyped ==
    ASSUME TypeOK, NEW w \in Watchers,
           \/ UNCHANGED <<row, runs>> \/ Known(w) \/ Targets(w) \/ Pick(w) \/ NotYet(w) \/ Loses(w)
           \/ Start(w) \/ StartRefused(w) \/ StartUnbound(w) \/ CutStart(w, TRUE) \/ CutStart(w, FALSE)
    PROVE  RowTyped
<1> USE DEF RowTyped
<1>1. row \in [Keys -> Events] /\ \A k \in Keys : row[k].run \in 0..Len(runs)
  BY DEF TypeOK
<1>2. CASE UNCHANGED <<row, runs>>
  BY <1>1, <1>2
<1>3. CASE Known(w)
  <2>1. row' = [k \in Keys |-> Settled(w)[k]] /\ runs' = runs
    BY <1>3 DEF Known, Settled, StaysPut
  <2> QED
    BY <1>1, <2>1, SettledType
<1>4. CASE Targets(w)
  <2>1. row' = [k \in Keys |-> expireRetries(w)[k]] /\ runs' = runs
    BY <1>4 DEF Targets, expireRetries, StaysPut
  <2> QED
    BY <1>1, <2>1, SettledType
<1>5. ASSUME Polling(w, "act") \/ Polling(w, "vouch")
      PROVE  poll[w].todo \subseteq Keys /\ poll[w].key \in Keys
  BY <1>5, PollType DEF Places, Polled
<1>6. CASE Pick(w) \/ NotYet(w) \/ Loses(w)
  <2>1. runs' = runs /\ (row' = row \/ \E k \in Keys : row' = Skipped(k, w))
    BY <1>5, <1>6 DEF Pick, NotYet, Loses, Clear, StaysPut
  <2>2. ASSUME NEW k \in Keys, row' = Skipped(k, w)
        PROVE  RowTyped
    <3>1. Skipped(k, w) \in [Keys -> Events] /\ \A j \in Keys : Skipped(k, w)[j].run = row[j].run
      BY LedgerType
    <3> QED
      BY <1>1, <2>1, <2>2, <3>1
  <2> QED
    BY <1>1, <2>1, <2>2
<1>7. CASE Start(w) \/ StartRefused(w) \/ StartUnbound(w) \/ CutStart(w, TRUE) \/ CutStart(w, FALSE)
  <2> DEFINE k == poll[w].key
  <2>1. k \in Keys
    BY <1>5, <1>7 DEF Start, StartRefused, StartUnbound, CutStart, Wins, Ready, Clear
  <2>2. Len(runs) \in Nat /\ (runs' = runs \/ \E b \in BOOLEAN : runs' = Append(runs, Run(w, b)))
    <3>1. Len(runs) \in Nat
      BY DEF TypeOK
    <3> QED
      BY <1>7, <3>1 DEF Start, StartRefused, StartUnbound, CutStart, Starts, StaysPut
  <2>3. Len(runs') \in {Len(runs), Len(runs) + 1}
    BY <2>2 DEF TypeOK
  <2>4. CASE Start(w)
    <3>1. runs' = Append(runs, Run(w, TRUE)) /\ row' = Bound(k, w)
      BY <2>4 DEF Start, Starts
    <3>2. Len(runs') = Len(runs) + 1
      BY <3>1 DEF TypeOK
    <3> HIDE DEF k
    <3>3. Bound(k, w) \in [Keys -> Events] /\ \A j \in Keys : Bound(k, w)[j].run = IF j = k THEN Len(runs) + 1 ELSE row[j].run
      BY <2>1, LedgerType
    <3> QED
      BY <1>1, <2>2, <3>1, <3>2, <3>3
  <2>5. CASE CutStart(w, TRUE) \/ CutStart(w, FALSE)
    <3>1. row' = Claimed(k, w)
      BY <2>5 DEF CutStart
    <3> HIDE DEF k
    <3>2. Claimed(k, w) \in [Keys -> Events] /\ \A j \in Keys : Claimed(k, w)[j].run = IF j = k THEN 0 ELSE row[j].run
      BY <2>1, LedgerType
    <3> QED
      BY <1>1, <2>2, <2>3, <3>1, <3>2
  <2>6. CASE StartUnbound(w)
    <3>1. row' = [row EXCEPT ![k] = Released(k, w)]
      BY <2>6 DEF StartUnbound
    <3> HIDE DEF k
    <3> QED
      BY <1>1, <2>1, <2>2, <2>3, <3>1, LedgerType
  <2>7. CASE StartRefused(w)
    <3> DEFINE back == [row EXCEPT ![k] = Released(k, w)]
    <3>1. runs' = runs /\ row' = IF k[1] = "review" THEN [back EXCEPT ![k].outcome = "retry", ![k].by = w] ELSE back
      BY <2>7 DEF StartRefused, StaysPut
    <3>2. back \in [Keys -> Events] /\ \A j \in Keys : back[j].run \in 0..Len(runs)
      BY <1>1, <2>1, <2>2, LedgerType
    <3> HIDE DEF back, k
    <3>3. [back[k] EXCEPT !.outcome = "retry", !.by = w] \in Events /\ [back[k] EXCEPT !.outcome = "retry", !.by = w].run = back[k].run
      BY <2>1, <3>2 DEF Events
    <3>4. [back EXCEPT ![k].outcome = "retry", ![k].by = w] = [back EXCEPT ![k] = [back[k] EXCEPT !.outcome = "retry", !.by = w]]
      BY <2>1, <3>2
    <3> QED
      BY <2>1, <3>1, <3>2, <3>3, <3>4
  <2> QED
    BY <1>7, <2>4, <2>5, <2>6, <2>7
<1> QED
  BY <1>2, <1>3, <1>4, <1>6, <1>7

-----------------------------------------------------------------------------
(* Type correctness.                                                           *)
LEMMA HeadType ==
    ASSUME TypeOK, PollInv, NEW w \in Watchers
    PROVE  /\ Branch \in HeadIds /\ Branch \in Nat
           /\ poll[w].at \in Past => poll[w].head \in HeadIds /\ poll[w].head \in 1..Branch
<1>1. poll[w].at \in Past => poll[w] # NoPoll
  BY PollType DEF Past
<1>2. Branch \in HeadIds /\ Branch \in Nat
  BY DEF TypeOK, HeadIds
<1>3. poll[w].at \in Past => poll[w].head \in 1..Branch
  BY <1>1 DEF PollInv, PollSays
<1> QED
  BY <1>2, <1>3, Constants DEF HeadIds

LEMMA TimesType ==
    ASSUME TypeOK, NEW w \in Watchers, poll[w] \in Polled
    PROVE  /\ poll[w].was \in Records /\ poll[w].now \in Time /\ watch[w] \in Records
           /\ held[w] \in Nat /\ commentsSince(w, poll[w].was) \in Time
           /\ Earlier(held[w], commentsSince(w, poll[w].was)) \in Time
           /\ NotHeld \in Nat /\ \A t \in Time : t \in Nat /\ t < NotHeld
<1>1. /\ poll[w].was \in Records /\ poll[w].now \in Time /\ watch[w] \in Records /\ held[w] \in Time \cup {NotHeld}
      /\ MaxTime \in Nat
  BY Constants DEF TypeOK, Polled
<1>2. poll[w].was.floor \in Time /\ poll[w].was.ok \in Time
  BY <1>1 DEF Records
<1>3. commentsSince(w, poll[w].was) \in Time
  BY <1>2 DEF commentsSince, Later
<1>4. NotHeld \in Nat /\ \A t \in Time : t \in Nat /\ t < NotHeld
  BY <1>1 DEF NotHeld, Time
<1> QED
  BY <1>1, <1>3, <1>4 DEF Earlier, NotHeld

LEMMA WatchStepTypes ==
    ASSUME TypeOK, PollInv, NEW w \in Watchers, Polls(w) \/ Fault(w)
    PROVE  TypeOK'
<1>1. UNCHANGED <<github, vouched>>
  BY DEF Polls, Answered, Fault, StaysPut, Starts, Begin, Known, Targets, Judge, ReadChecks, ReadComments, NotYet, Refuse,
     GivesUp, Loses, Start, Pick, Finish, CannotRead, Errs, CannotVouch, OtherLogin, StartRefused, StartUnbound, CutStart
<1>2. PollTyped
  <2>1. CASE CutStart(w, TRUE) \/ CutStart(w, FALSE)
    BY <2>1 DEF CutStart, Forgets, PollTyped
  <2> QED
    BY <2>1, ReadsTyped, ActsTyped DEF Polls, Answered, Fault
<1>3. RowTyped
  <2>1. \/ Begin(w) \/ Judge(w) \/ ReadChecks(w) \/ ReadComments(w) \/ Refuse(w) \/ GivesUp(w) \/ Finish(w)
        \/ CannotRead(w) \/ Errs(w) \/ CannotVouch(w) \/ OtherLogin(w)
        => UNCHANGED <<row, runs>>
    BY DEF Begin, Judge, ReadChecks, ReadComments, Refuse, GivesUp, Finish, CannotRead, Errs, CannotVouch, OtherLogin, StaysPut
  <2> QED
    BY <2>1, RowsTyped DEF Polls, Answered, Fault
<1>4. watch' \in [Watchers -> Records]
  <2>1. watch \in [Watchers -> Records] /\ watch[w] \in Records
    BY DEF TypeOK
  <2>2. CASE Finish(w)
    <3>1. poll[w] \in Polled /\ (watch' = watch \/ watch' = [watch EXCEPT ![w].ok = poll[w].now])
      BY <2>2, PollType DEF Finish, Places
    <3>2. [watch[w] EXCEPT !.ok = poll[w].now] \in Records
      BY <2>1, <3>1 DEF Polled, Records
    <3> QED
      BY <2>1, <3>1, <3>2
  <2>3. CASE OtherLogin(w)
    <3>1. watch' = [watch EXCEPT ![w] = [watch[w] EXCEPT !.on = "paused", !.changed = @ + 1]]
      BY <2>3 DEF OtherLogin, Changed
    <3>2. watch[w].changed + 1 \in Nat
      BY <2>1 DEF Records
    <3>3. [watch[w] EXCEPT !.on = "paused", !.changed = @ + 1] \in Records
      BY <2>1, <3>2 DEF Records
    <3> QED
      BY <2>1, <3>1, <3>3
  <2>4. \/ Finish(w) \/ OtherLogin(w) \/ watch' = watch
    BY DEF Polls, Answered, Fault, Starts, Begin, Known, Targets, Judge, ReadChecks, ReadComments, NotYet, Refuse, Wins, Vouch,
       GivesUp, Loses, Start, Pick, CannotRead, Errs, CannotVouch, StartRefused, StartUnbound, CutStart
  <2> QED
    BY <2>1, <2>2, <2>3, <2>4
<1>5. runs' \in Seq(RunRecords)
  <2>1. runs \in Seq(RunRecords)
    BY DEF TypeOK
  <2>2. ASSUME Polling(w, "vouch"), NEW b \in BOOLEAN
        PROVE  Run(w, b) \in RunRecords
    <3>1. poll[w] \in Polled /\ poll[w].head \in HeadIds /\ poll[w].key \in Keys
      BY <2>2, PollType, HeadType DEF Places, Past, Polling, Polled
    <3> QED
      BY <3>1 DEF Run, RunRecords
  <2>3. \/ runs' = runs
        \/ Polling(w, "vouch") /\ \E b \in BOOLEAN : runs' = Append(runs, Run(w, b))
    BY DEF Polls, Answered, Fault, Starts, StaysPut, Begin, Known, Targets, Judge, ReadChecks, ReadComments, NotYet, Refuse, Wins, Ready, Clear,
       GivesUp, Loses, Start, Pick, Finish, OtherLogin, CannotRead, Errs, CannotVouch, StartRefused, StartUnbound, CutStart
  <2> QED
    BY <2>1, <2>2, <2>3
<1>6. refused' \in [Watchers -> SUBSET HeadIds] /\ unlisted' \in [Watchers -> SUBSET HeadIds]
  <2>1. refused \in [Watchers -> SUBSET HeadIds] /\ unlisted \in [Watchers -> SUBSET HeadIds]
    BY DEF TypeOK
  <2>2. Polling(w, "judge") \/ Polling(w, "vouch") => poll[w].head \in HeadIds
    BY HeadType DEF Past, Polling
  <2>3. \/ refused' = refused
        \/ (Polling(w, "judge") \/ Polling(w, "vouch")) /\ ignoreHead(w, poll[w].head)
    BY DEF Polls, Answered, Fault, judgments, Starts, StaysPut, Begin, Known, Targets, Judge, ReadChecks, ReadComments, NotYet, Refuse, Wins, Ready,
       Clear, Vouch, Forgets, GivesUp, Loses, Start, Pick, Finish, OtherLogin, CannotRead, Errs, CannotVouch, StartRefused, StartUnbound, CutStart
  <2>7. \/ unlisted' = unlisted \/ unlisted' = [v \in Watchers |-> {}]
        \/ unlisted' = [unlisted EXCEPT ![w] = @ \ {poll[w].head}]
        \/ (Polling(w, "judge") \/ Polling(w, "vouch")) /\ unlisted' = [unlisted EXCEPT ![w] = @ \cup {poll[w].head}]
    BY DEF Polls, Answered, Fault, judgments, Starts, StaysPut, Begin, Known, Targets, Judge, ReadChecks, ReadComments, NotYet, Refuse, Wins, Ready,
       Clear, Vouch, Forgets, GivesUp, Loses, Start, Pick, Finish, OtherLogin, CannotRead, Errs, CannotVouch, StartRefused, StartUnbound, CutStart
  <2>4. refused' = refused \/ (poll[w].head \in HeadIds /\ refused' = [refused EXCEPT ![w] = refused[w] \cup {poll[w].head}])
    BY <2>2, <2>3 DEF ignoreHead
  <2>5. refused' \in [Watchers -> SUBSET HeadIds]
    BY <2>1, <2>4
  <2>6. unlisted' \in [Watchers -> SUBSET HeadIds]
    BY <2>1, <2>2, <2>7
  <2> QED
    BY <2>5, <2>6
<1>7. trusted' \in [Watchers -> [head : 0..MaxHeads, under : SUBSET Logins]]
  <2>1. trusted \in [Watchers -> [head : 0..MaxHeads, under : SUBSET Logins]]
    BY DEF TypeOK
  <2>2. ASSUME poll[w] \in Polled
        PROVE  poll[w].head \in 0..MaxHeads /\ poll[w].was.trust \in SUBSET Logins
    BY <2>2 DEF Polled, Records, Lists
  <2>3. Polling(w, "judge") \/ Polling(w, "vouch") => poll[w] \in Polled
    BY PollType DEF Places
  <2>4. \/ trusted' = trusted
        \/ (Polling(w, "judge") \/ Polling(w, "vouch")) /\ remember(w, poll[w].head, poll[w].was.trust)
    BY DEF Polls, Answered, Fault, judgments, Starts, StaysPut, Begin, Known, Targets, Judge, ReadChecks, ReadComments, NotYet, Refuse, Wins, Ready,
       Clear, Vouch, Forgets, GivesUp, Loses, Start, Pick, Finish, OtherLogin, CannotRead, Errs, CannotVouch, StartRefused, StartUnbound, CutStart
  <2> QED
    BY <2>1, <2>2, <2>3, <2>4 DEF remember
<1>8. held' \in [Watchers -> Time \cup {NotHeld}]
  <2>1. held \in [Watchers -> Time \cup {NotHeld}]
    BY DEF TypeOK
  <2>2. \/ held' = held \/ held' = [held EXCEPT ![w] = NotHeld]
        \/ (Polling(w, "judge") \/ Polling(w, "checks") \/ Polling(w, "vouch")) /\ hold(w)
    BY DEF Polls, Answered, Fault, judgments, Starts, StaysPut, Begin, Known, Targets, Judge, ReadChecks, ReadComments, NotYet, Refuse, Wins, Ready,
       Clear, Vouch, Forgets, GivesUp, Loses, Start, Pick, Finish, OtherLogin, CannotRead, Errs, CannotVouch, StartRefused, StartUnbound, CutStart
  <2>3. Polling(w, "judge") \/ Polling(w, "checks") \/ Polling(w, "vouch") => poll[w] \in Polled
    BY PollType DEF Places
  <2>4. poll[w] \in Polled => Earlier(held[w], commentsSince(w, poll[w].was)) \in Time
    BY TimesType
  <2>5. \/ held' = held \/ held' = [held EXCEPT ![w] = NotHeld]
        \/ held' = [held EXCEPT ![w] = IF poll[w].pr THEN Earlier(held[w], commentsSince(w, poll[w].was)) ELSE held[w]]
    BY <2>1, <2>2 DEF hold
  <2> QED
    BY <2>1, <2>2, <2>3, <2>4, <2>5
<1>9. edit' \in [Watchers -> [head : HeadIds, trust : Lists] \cup {NoEdit}] /\ stopping' \in BOOLEAN
  <2>1. edit \in [Watchers -> [head : HeadIds, trust : Lists] \cup {NoEdit}] /\ stopping \in BOOLEAN
    BY DEF TypeOK
  <2>2. UNCHANGED <<edit, stopping>> \/ Forgets
    BY DEF Polls, Answered, Fault, Starts, StaysPut, Begin, Known, Targets, Judge, ReadChecks, ReadComments, NotYet, Refuse,
       GivesUp, Loses, Start, Pick, Finish, OtherLogin, CannotRead, Errs, CannotVouch, StartRefused, StartUnbound, CutStart
  <2> QED
    BY <2>1, <2>2 DEF Forgets
<1>10. /\ now' \in Time \ {Never} /\ Branch' \in HeadIds /\ red' \subseteq 1..Branch'
       /\ heads' \in Seq(Commits)
       /\ asked' \in [Comments -> Time] /\ open' \in BOOLEAN /\ vouched' \in [Watchers -> SUBSET HeadIds]
  BY <1>1 DEF TypeOK, github, Branch
<1> QED
  BY <1>2, <1>3, <1>4, <1>5, <1>6, <1>7, <1>8, <1>9, <1>10 DEF TypeOK, PollTyped, RowTyped

LEMMA OwnerStepTypes ==
    ASSUME TypeOK, NEW w \in Watchers, Owner(w)
    PROVE  TypeOK'
<1>1. UNCHANGED <<github, row, runs, poll, unlisted, stopping>> /\ (held' = held \/ held' = [held EXCEPT ![w] = NotHeld])
  BY DEF Owner, OwnerDoes, Pause, Resume, Trusts, EditBegins, EditApplies, Delete
<1>2. watch' \in [Watchers -> Records]
  <2>1. watch \in [Watchers -> Records] /\ watch[w] \in Records /\ watch[w].changed + 1 \in Nat /\ now \in Time
    BY DEF TypeOK, Records
  <2>2. /\ [watch[w] EXCEPT !.on = "paused"] \in Records
        /\ [watch[w] EXCEPT !.on = "on", !.floor = now] \in Records
        /\ [watch[w] EXCEPT !.on = "gone"] \in Records
        /\ \A T \in Lists : [watch[w] EXCEPT !.trust = T] \in Records
    BY <2>1 DEF Records
  <2>3. edit[w] # NoEdit => edit[w].trust \in Lists
    BY DEF TypeOK
  <2>5. ASSUME NEW rec \in Records, Changed(w, rec)
        PROVE  watch' \in [Watchers -> Records]
    <3>1. rec.changed + 1 \in Nat
      BY DEF Records
    <3>2. [rec EXCEPT !.changed = @ + 1] \in Records
      BY <3>1 DEF Records
    <3> QED
      BY <2>1, <2>5, <3>2 DEF Changed
  <2>4. \/ watch' = watch \/ watch' = [watch EXCEPT ![w] = [watch[w] EXCEPT !.on = "gone"]]
        \/ Changed(w, [watch[w] EXCEPT !.on = "paused"]) \/ Changed(w, [watch[w] EXCEPT !.on = "on", !.floor = now])
        \/ \E T \in Lists : Changed(w, [watch[w] EXCEPT !.trust = T])
    BY <2>3 DEF Owner, Pause, Resume, Trusts, EditBegins, EditApplies, Delete
  <2> QED
    BY <2>1, <2>2, <2>4, <2>5
<1>3. edit[w] # NoEdit => edit[w].head \in HeadIds /\ edit[w].trust \in Lists
  BY DEF TypeOK
<1>4. edit' \in [Watchers -> [head : HeadIds, trust : Lists] \cup {NoEdit}]
  <2>1. edit \in [Watchers -> [head : HeadIds, trust : Lists] \cup {NoEdit}] /\ Branch \in HeadIds
    BY DEF TypeOK
  <2>2. \A T \in Lists : [head |-> Branch, trust |-> T] \in [head : HeadIds, trust : Lists]
    BY <2>1
  <2>3. \/ edit' = edit \/ edit' = [edit EXCEPT ![w] = NoEdit]
        \/ \E T \in Lists : edit' = [edit EXCEPT ![w] = [head |-> Branch, trust |-> T]]
    BY DEF Owner, Pause, Resume, Trusts, EditBegins, EditApplies, Delete
  <2> QED
    BY <2>1, <2>2, <2>3
<1>5. refused' \in [Watchers -> SUBSET HeadIds]
  <2>1. refused \in [Watchers -> SUBSET HeadIds]
    BY DEF TypeOK
  <2>2. \/ refused' = refused \/ refused' = [refused EXCEPT ![w] = {}]
        \/ \E h : refused' = [refused EXCEPT ![w] = refused[w] \ {h}]
    BY <2>1 DEF Owner, Retrusts, Pause, Resume, Trusts, EditBegins, EditApplies, Delete
  <2> QED
    BY <2>1, <2>2
<1>6. trusted' \in [Watchers -> [head : 0..MaxHeads, under : SUBSET Logins]]
  <2>1. trusted \in [Watchers -> [head : 0..MaxHeads, under : SUBSET Logins]] /\ 0 \in 0..MaxHeads
    BY Constants DEF TypeOK
  <2>2. HeadIds \subseteq 0..MaxHeads /\ Lists \subseteq SUBSET Logins
    BY Constants DEF HeadIds, Lists
  <2>3. /\ [head |-> 0, under |-> {}] \in [head : 0..MaxHeads, under : SUBSET Logins]
        /\ \A T \in Lists : [trusted[w] EXCEPT !.under = T] \in [head : 0..MaxHeads, under : SUBSET Logins]
        /\ \A h \in HeadIds, T \in Lists : [head |-> h, under |-> T] \in [head : 0..MaxHeads, under : SUBSET Logins]
    BY <2>1, <2>2
  <2>4. \/ trusted' = trusted
        \/ trusted' = [trusted EXCEPT ![w] = [head |-> 0, under |-> {}]]
        \/ \E T \in Lists : trusted' = [trusted EXCEPT ![w] = [trusted[w] EXCEPT !.under = T]]
        \/ \E h \in HeadIds, T \in Lists : trusted' = [trusted EXCEPT ![w] = [head |-> h, under |-> T]]
    BY <1>3, <2>1 DEF Owner, Retrusts, Pause, Resume, Trusts, EditBegins, EditApplies, Delete, remember
  <2> QED
    BY <2>1, <2>3, <2>4
<1>7. vouched' \in [Watchers -> SUBSET HeadIds]
  <2>1. vouched \in [Watchers -> SUBSET HeadIds]
    BY DEF TypeOK
  <2>2. \/ vouched' = vouched \/ vouched' = [vouched EXCEPT ![w] = {}]
        \/ \E h \in HeadIds : \E V \in {vouched[w], {}} : vouched' = [vouched EXCEPT ![w] = {h} \cup V]
    BY <1>3, <2>1 DEF Owner, Retrusts, Pause, Resume, Trusts, EditBegins, EditApplies, Delete
  <2> QED
    BY <2>1, <2>2
<1> QED
  BY <1>1, <1>2, <1>4, <1>5, <1>6, <1>7 DEF TypeOK, github, Branch

LEMMA WorldStepTypes ==
    ASSUME TypeOK, Outside \/ Stop \/ Restart \/ UNCHANGED vars
    PROVE  TypeOK'
<1>1. UNCHANGED <<watch, row, judgments, vouched>>
  BY DEF Outside, Stop, Restart, vars, Tick, Listed, CheckFails, Closes, Arrives, Asks, RunEnds
<1>2. UNCHANGED volatile \/ (Forgets /\ UNCHANGED <<github, runs>>) \/ Stop
  BY DEF Outside, Restart, vars, Tick, Listed, CheckFails, Closes, Arrives, Asks, RunEnds
<1>3. /\ poll' \in [Watchers -> Polled \cup {NoPoll}] /\ unlisted' \in [Watchers -> SUBSET HeadIds]
      /\ edit' \in [Watchers -> [head : HeadIds, trust : Lists] \cup {NoEdit}] /\ stopping' \in BOOLEAN
  BY <1>2 DEF TypeOK, volatile, Forgets, Stop
<1>4. runs' \in Seq(RunRecords) /\ Len(runs') = Len(runs)
  <2>1. runs \in Seq(RunRecords)
    BY DEF TypeOK
  <2>2. CASE \E r \in DOMAIN runs, s \in {"over", "unready", "hopeless"} : RunEnds(r, s)
    <3>1. PICK r \in DOMAIN runs, s \in {"over", "unready", "hopeless"} : runs' = [runs EXCEPT ![r].status = s]
      BY <2>2 DEF RunEnds
    <3>2. runs[r] \in RunRecords
      BY <2>1
    <3>3. [runs[r] EXCEPT !.status = s] \in RunRecords
      BY <3>2 DEF RunRecords
    <3> QED
      BY <2>1, <3>1, <3>3
  <2>3. runs' = runs \/ \E r \in DOMAIN runs, s \in {"over", "unready", "hopeless"} : RunEnds(r, s)
    BY DEF Outside, Stop, Restart, vars, Tick, Listed, CheckFails, Closes, Arrives, Asks
  <2> QED
    BY <2>1, <2>2, <2>3
<1>9. /\ \A x \in Commits : [x EXCEPT !.listed = TRUE] \in Commits
      /\ \A how \in {"push", "merge"}, l \in Logins : [how |-> how, by |-> l, listed |-> FALSE] \in Commits
  BY DEF Commits
<1>10. heads \in Seq(Commits)
  BY DEF TypeOK
<1>5. heads' \in Seq(Commits) /\ Branch' \in HeadIds /\ Branch <= Branch' /\ Branch \in Nat
  <2>1. heads \in Seq(Commits) /\ Len(heads) \in 1..MaxHeads /\ MaxHeads \in Nat
    BY <1>10, Constants DEF TypeOK, Branch, HeadIds
  <2>2. CASE heads' = heads
    BY <2>1, <2>2 DEF Branch, HeadIds
  <2>3. CASE Listed
    <3>1. heads[Branch] \in Commits
      BY <2>1 DEF Branch
    <3>2. [heads[Branch] EXCEPT !.listed = TRUE] \in Commits
      BY <1>9, <3>1
    <3>3. heads' = [heads EXCEPT ![Branch] = [heads[Branch] EXCEPT !.listed = TRUE]]
      BY <2>3 DEF Listed
    <3>4. heads' \in Seq(Commits) /\ Len(heads') = Len(heads)
      <4>1. \A x \in Commits : [heads EXCEPT ![Branch] = x] \in Seq(Commits) /\ Len([heads EXCEPT ![Branch] = x]) = Len(heads)
        <5>1. DOMAIN heads = 1..Len(heads) /\ Len(heads) \in Nat /\ heads \in [1..Len(heads) -> Commits]
          BY <2>1
        <5>2. \A x \in Commits : [heads EXCEPT ![Branch] = x] \in [1..Len(heads) -> Commits]
          BY <5>1
        <5> QED
          BY <5>1, <5>2
      <4> QED
        BY <3>2, <3>3, <4>1
    <3> QED
      BY <2>1, <3>4 DEF Branch, HeadIds
  <2>4. CASE \E how \in {"push", "merge"}, l \in Logins : Arrives(how, l)
    <3> DEFINE old == [i \in DOMAIN heads |-> [heads[i] EXCEPT !.listed = TRUE]]
    <3>1. PICK how \in {"push", "merge"}, l \in Logins :
            Len(heads) < MaxHeads /\ heads' = Append(old, [how |-> how, by |-> l, listed |-> FALSE])
      BY <2>4 DEF Arrives, Branch
    <3>2. [how |-> how, by |-> l, listed |-> FALSE] \in Commits
      BY <1>9
    <3>3. \A i \in 1..Len(heads) : [heads[i] EXCEPT !.listed = TRUE] \in Commits
      BY <1>9, <2>1
    <3>4. old \in Seq(Commits) /\ Len(old) = Len(heads)
      <4>1. DOMAIN heads = 1..Len(heads) /\ Len(heads) \in Nat
        BY <2>1
      <4>2. old \in [1..Len(heads) -> Commits]
        BY <3>3, <4>1
      <4> HIDE DEF old
      <4> QED
        BY <4>1, <4>2
    <3> HIDE DEF old
    <3>5. heads' \in Seq(Commits) /\ Len(heads') = Len(heads) + 1
      BY <3>1, <3>2, <3>4
    <3> QED
      BY <2>1, <3>1, <3>5 DEF Branch, HeadIds
  <2>5. heads' = heads \/ Listed \/ \E how \in {"push", "merge"}, l \in Logins : Arrives(how, l)
    BY DEF Outside, Stop, Restart, vars, github, Tick, CheckFails, Closes, Asks, RunEnds
  <2> QED
    BY <2>2, <2>3, <2>4, <2>5
<1>6. now' \in Time \ {Never}
  <2>1. now \in Time \ {Never} /\ (now' = now \/ (now < MaxTime /\ now' = now + 1))
    BY DEF TypeOK, Outside, Stop, Restart, vars, github, Tick, Listed, CheckFails, Closes, Arrives, Asks, RunEnds
  <2> QED
    BY <2>1, Constants DEF Time, Never
<1>7. red' \subseteq 1..Branch'
  <2>3. red \subseteq 1..Branch /\ Branch \in HeadIds
    BY DEF TypeOK
  <2>4. red' = red \/ red' = red \cup {Branch}
    BY DEF Outside, Stop, Restart, vars, github, Tick, Listed, CheckFails, Closes, Arrives, Asks, RunEnds
  <2>1. red \subseteq 1..Branch /\ red' \subseteq red \cup {Branch} /\ Branch \in 1..Branch'
    BY <1>5, <2>3, <2>4, Constants DEF HeadIds
  <2>2. Branch' \in Nat
    BY <1>5, Constants DEF HeadIds
  <2> QED
    BY <1>5, <2>1, <2>2
<1>8. asked' \in [Comments -> Time] /\ open' \in BOOLEAN
  BY DEF TypeOK, Outside, Stop, Restart, vars, github, Tick, Listed, CheckFails, Closes, Arrives, Asks, RunEnds
<1> QED
  BY <1>1, <1>3, <1>4, <1>5, <1>6, <1>7, <1>8 DEF TypeOK, judgments

-----------------------------------------------------------------------------
(* What any step may do.                                                       *)
HeadsKept ==
    /\ Branch' \in Nat /\ Branch <= Branch'
    /\ \A h \in 1..Branch : heads'[h].how = heads[h].how /\ heads'[h].by = heads[h].by

LEMMA StepKeepsHeads ==
    ASSUME TypeOK, [Next]_vars
    PROVE  HeadsKept /\ Branch \in Nat
<1>1. heads \in Seq(Commits) /\ Len(heads) \in Nat
  BY DEF TypeOK
<1>2. CASE heads' = heads
  BY <1>1, <1>2 DEF HeadsKept, Branch
<1>3. CASE Listed
  <2>1. heads' = [heads EXCEPT ![Len(heads)] = [heads[Len(heads)] EXCEPT !.listed = TRUE]]
    BY <1>3 DEF Listed, Branch
  <2>2. PICK x : heads' = [heads EXCEPT ![Len(heads)] = x] /\ x = [heads[Len(heads)] EXCEPT !.listed = TRUE]
    BY <2>1
  <2>3. DOMAIN heads = 1..Len(heads) /\ heads = [h \in 1..Len(heads) |-> heads[h]]
    BY <1>1
  <2>4. Len(heads') = Len(heads) /\ \A h \in 1..Len(heads) : heads'[h] = IF h = Len(heads) THEN x ELSE heads[h]
    <3>1. heads' = [h \in 1..Len(heads) |-> IF h = Len(heads) THEN x ELSE heads[h]]
      BY <2>2, <2>3
    <3>2. heads' \in [1..Len(heads) -> {heads[h] : h \in 1..Len(heads)} \cup {x}]
      BY <3>1
    <3>3. Len(heads') = Len(heads)
      BY <1>1, <3>2
    <3>4. ASSUME NEW h \in 1..Len(heads)
          PROVE  heads'[h] = IF h = Len(heads) THEN x ELSE heads[h]
      BY <3>1, Zenon
    <3> QED
      BY <3>3, <3>4
  <2>5. ASSUME NEW h \in 1..Len(heads)
        PROVE  heads'[h].how = heads[h].how /\ heads'[h].by = heads[h].by
    <3>1. heads[h] \in Commits
      BY <1>1
    <3> QED
      BY <2>2, <2>4, <3>1 DEF Commits
  <2> QED
    BY <1>1, <2>4, <2>5 DEF HeadsKept, Branch
<1>4. CASE \E how \in {"push", "merge"}, l \in Logins : Arrives(how, l)
  <2> DEFINE old == [i \in DOMAIN heads |-> [heads[i] EXCEPT !.listed = TRUE]]
  <2>1. PICK x : heads' = Append(old, x)
    BY <1>4 DEF Arrives
  <2>2. DOMAIN heads = 1..Len(heads)
    BY <1>1
  <2>3. ASSUME NEW h \in 1..Len(heads)
        PROVE  old[h].how = heads[h].how /\ old[h].by = heads[h].by
    <3>1. heads[h] \in Commits
      BY <1>1
    <3>2. h \in DOMAIN heads
      BY <2>2
    <3>3. old[h] = [heads[h] EXCEPT !.listed = TRUE]
      BY <3>2, Zenon
    <3> HIDE DEF old
    <3> QED
      BY <3>1, <3>3 DEF Commits
  <2>4. old \in Seq({old[h] : h \in 1..Len(heads)}) /\ Len(old) = Len(heads)
    <3>1. old \in [1..Len(heads) -> {old[h] : h \in 1..Len(heads)}]
      BY <2>2
    <3> HIDE DEF old
    <3> QED
      BY <1>1, <3>1
  <2> HIDE DEF old
  <2>5. Len(heads') = Len(heads) + 1 /\ \A h \in 1..Len(heads) : heads'[h] = old[h]
    BY <1>1, <2>1, <2>4
  <2> QED
    BY <1>1, <2>3, <2>5 DEF HeadsKept, Branch
<1>5. ASSUME NEW w \in Watchers, Polls(w) \/ Fault(w)
      PROVE  heads' = heads
  BY <1>5 DEF github, Polls, Answered, Fault, judgments, Starts, StaysPut, Begin, Known, Targets, Judge, ReadChecks, ReadComments, NotYet, Refuse, Wins, Ready,
       Clear, Vouch, Forgets, GivesUp, Loses, Start, Pick, Finish, OtherLogin, CannotRead, Errs, CannotVouch, StartRefused, StartUnbound, CutStart
<1>6. ASSUME NEW w \in Watchers, Owner(w)
      PROVE  heads' = heads
  BY <1>6 DEF github, Owner, OwnerDoes, Pause, Resume, Trusts, EditBegins, EditApplies, Delete
<1>7. heads' = heads \/ Listed \/ \E how \in {"push", "merge"}, l \in Logins : Arrives(how, l)
  BY <1>5, <1>6 DEF Next, Outside, Stop, Restart, vars, github, Tick, CheckFails, Closes, Asks, RunEnds
<1> QED
  BY <1>1, <1>2, <1>3, <1>4, <1>7 DEF Branch

LEMMA WatchKeepsGithub ==
    ASSUME NEW w \in Watchers, Polls(w) \/ Fault(w) \/ Owner(w)
    PROVE  UNCHANGED github
BY DEF Owner, OwnerDoes, Pause, Resume, Trusts, EditBegins, EditApplies, Delete,
   Polls, Answered, Fault, StaysPut, Starts, Begin, Known, Targets, Judge, ReadChecks, ReadComments, NotYet, Refuse,
   GivesUp, Loses, Start, Pick, Finish, CannotRead, Errs, CannotVouch, OtherLogin, StartRefused, StartUnbound, CutStart

LEMMA GithubMoves ==
    ASSUME [Next]_vars
    PROVE  /\ now' = now \/ now' = now + 1
           /\ open' => open
           /\ asked' = asked \/ \E c \in Comments : Asks(c)
<1>1. CASE UNCHANGED github
  BY <1>1 DEF github
<1>2. CASE Outside \/ Stop \/ Restart
  <2>1. now' = now \/ now' = now + 1
    BY <1>2 DEF Outside, Stop, Restart, github, Tick, Listed, CheckFails, Closes, Arrives, Asks, RunEnds
  <2>2. open' => open
    BY <1>2 DEF Outside, Stop, Restart, github, Tick, Listed, CheckFails, Closes, Arrives, Asks, RunEnds
  <2>3. asked' = asked \/ \E c \in Comments : Asks(c)
    BY <1>2 DEF Outside, Stop, Restart, github, Tick, Listed, CheckFails, Closes, Arrives, RunEnds
  <2> QED
    BY <2>1, <2>2, <2>3
<1>3. UNCHANGED vars => UNCHANGED github
  BY DEF vars
<1>4. UNCHANGED github \/ Outside \/ Stop \/ Restart
  BY <1>3, WatchKeepsGithub DEF Next
<1> QED
  BY <1>1, <1>2, <1>4

(* A step of one watch leaves the others'.                                     *)
Untouched(v) ==
    /\ watch'[v] = watch[v] /\ trusted'[v] = trusted[v] /\ held'[v] = held[v] /\ refused'[v] = refused[v] /\ vouched'[v] = vouched[v]
    /\ poll'[v] \in {poll[v], NoPoll} /\ edit'[v] \in {edit[v], NoEdit}

LEMMA OthersUntouched ==
    ASSUME TypeOK, NEW w \in Watchers, Polls(w) \/ Fault(w) \/ Owner(w), NEW v \in Watchers \ {w}
    PROVE  Untouched(v)
<1>1. /\ watch \in [Watchers -> Records] /\ trusted \in [Watchers -> [head : 0..MaxHeads, under : SUBSET Logins]]
      /\ held \in [Watchers -> Time \cup {NotHeld}] /\ refused \in [Watchers -> SUBSET HeadIds] /\ vouched \in [Watchers -> SUBSET HeadIds]
      /\ poll \in [Watchers -> Polled \cup {NoPoll}] /\ edit \in [Watchers -> [head : HeadIds, trust : Lists] \cup {NoEdit}]
  BY DEF TypeOK
<1>2. watch'[v] = watch[v]
  <2>1. watch' = watch \/ \E x : watch' = [watch EXCEPT ![w] = x] \/ watch' = [watch EXCEPT ![w].ok = x] \/ watch' = [watch EXCEPT ![w].on = x]
    BY DEF Owner, Changed, Pause, Resume, Trusts, EditBegins, EditApplies, Delete,
       Polls, Answered, Fault, judgments, Starts, StaysPut, Begin, Known, Targets, Judge, ReadChecks, ReadComments, NotYet, Refuse, Wins, Ready,
       Clear, Vouch, Forgets, GivesUp, Loses, Start, Pick, Finish, OtherLogin, CannotRead, Errs, CannotVouch, StartRefused, StartUnbound, CutStart
  <2> QED
    BY <1>1, <2>1
<1>3. trusted'[v] = trusted[v] /\ refused'[v] = refused[v] /\ held'[v] = held[v] /\ vouched'[v] = vouched[v]
  BY <1>1 DEF Owner, OwnerDoes, Retrusts, Pause, Resume, Trusts, EditBegins, EditApplies, Delete, remember, ignoreHead, hold,
     Polls, Answered, Fault, judgments, Starts, StaysPut, Begin, Known, Targets, Judge, ReadChecks, ReadComments, NotYet, Refuse, Wins, Ready,
     Clear, Vouch, Forgets, GivesUp, Loses, Start, Pick, Finish, OtherLogin, CannotRead, Errs, CannotVouch, StartRefused, StartUnbound, CutStart
<1>4. poll'[v] \in {poll[v], NoPoll} /\ edit'[v] \in {edit[v], NoEdit}
  <2>1. poll' = poll \/ (\E x : Goes(w, x)) \/ poll' = [u \in Watchers |-> NoPoll]
    BY DEF Owner, OwnerDoes, Pause, Resume, Trusts, EditBegins, EditApplies, Delete, Incomplete,
       Polls, Answered, Fault, judgments, Starts, StaysPut, Begin, Known, Targets, Judge, ReadChecks, ReadComments, NotYet, Refuse, Wins, Ready,
       Clear, Vouch, Forgets, GivesUp, Loses, Start, Pick, Finish, OtherLogin, CannotRead, Errs, CannotVouch, StartRefused, StartUnbound, CutStart
  <2>2. edit' = edit \/ edit' = [u \in Watchers |-> NoEdit] \/ \E x : edit' = [edit EXCEPT ![w] = x]
    BY DEF Owner, OwnerDoes, Pause, Resume, Trusts, EditBegins, EditApplies, Delete,
       Polls, Answered, Fault, judgments, Starts, StaysPut, Begin, Known, Targets, Judge, ReadChecks, ReadComments, NotYet, Refuse, Wins, Ready,
       Clear, Vouch, Forgets, GivesUp, Loses, Start, Pick, Finish, OtherLogin, CannotRead, Errs, CannotVouch, StartRefused, StartUnbound, CutStart
  <2> QED
    BY <1>1, <2>1, <2>2 DEF Goes
<1> QED
  BY <1>2, <1>3, <1>4 DEF Untouched

LEMMA WorldUntouched ==
    ASSUME TypeOK, Outside \/ Stop \/ Restart \/ UNCHANGED vars, NEW v \in Watchers
    PROVE  Untouched(v)
BY DEF Untouched, Outside, Stop, Restart, Forgets, vars, judgments, volatile, Tick, Listed, CheckFails, Closes, Arrives, Asks, RunEnds

(* A poll that goes on keeps what it read of its watch; and, once it listed    *)
(* the branch, the head.                                                       *)
Kept(w) ==
    /\ poll[w] \in Polled /\ poll'[w] \in Polled
    /\ poll'[w].was = poll[w].was /\ poll'[w].now = poll[w].now
GoesOn(w) ==
    /\ Kept(w) /\ poll[w].at \in Past /\ poll'[w].at \in Past
    /\ poll'[w].head = poll[w].head /\ poll'[w].pr = poll[w].pr
Same(w) == poll'[w].verdict = poll[w].verdict
\* What is left of a poll after one event.
Drops(w, k) ==
    /\ GoesOn(w) /\ poll'[w].at = "act" /\ poll'[w].todo = poll[w].todo \ {k}
    /\ poll'[w].released = poll[w].released /\ poll'[w].ok = poll[w].ok
Aborts(w) == GoesOn(w) /\ poll'[w].ok = FALSE

LEMMA GoesTo ==
    ASSUME TypeOK, NEW w \in Watchers, NEW x, Goes(w, x)
    PROVE  poll'[w] = x
BY DEF TypeOK, Goes

LEMMA KnownFields ==
    ASSUME TypeOK, NEW w \in Watchers, Known(w)
    PROVE  Kept(w) /\ poll'[w].at = "list" /\ Same(w) /\ poll[w].at = "me"
<1> DEFINE p == [poll[w] EXCEPT !.at = "list"]
<1>1. poll[w] \in Polled /\ Goes(w, p) /\ poll[w].at = "me"
  BY PollType DEF Known, Polling, Places
<1>2. p \in Polled /\ p.at = "list" /\ p.was = poll[w].was /\ p.now = poll[w].now /\ p.verdict = poll[w].verdict
  BY <1>1 DEF Polled, Places
<1> HIDE DEF p
<1> QED
  BY <1>1, <1>2, GoesTo DEF Kept, Same

LEMMA TargetsFields ==
    ASSUME TypeOK, NEW w \in Watchers, Targets(w)
    PROVE  /\ Kept(w) /\ poll'[w].at \in {"judge", "checks"} /\ Same(w) /\ poll[w].at = "list"
           /\ poll'[w].head = Branch /\ poll'[w].pr = open
<1> DEFINE p == [poll[w] EXCEPT !.head = Branch, !.pr = open, !.at = IF Branch = lastTrusted(w, poll[w].was.trust) \/ Branch \in refused[w]
                                                                         THEN "checks" ELSE "judge"]
<1>1. poll[w] \in Polled /\ Goes(w, p) /\ poll[w].at = "list"
  BY PollType DEF Targets, Polling, Places
<1>2. Branch \in 0..MaxHeads /\ open \in BOOLEAN
  BY Constants DEF TypeOK, HeadIds
<1>3. p \in Polled /\ p.at \in {"judge", "checks"} /\ p.was = poll[w].was /\ p.now = poll[w].now /\ p.verdict = poll[w].verdict
      /\ p.head = Branch /\ p.pr = open
  BY <1>1, <1>2 DEF Polled, Places
<1> HIDE DEF p
<1> QED
  BY <1>1, <1>3, GoesTo DEF Kept, Same

LEMMA JudgeFields ==
    ASSUME TypeOK, NEW w \in Watchers, Judge(w)
    PROVE  GoesOn(w) /\ poll'[w].at = "checks" /\ poll'[w].verdict = Verdict(w, poll[w].head, poll[w].was.trust)
<1> DEFINE v == Verdict(w, poll[w].head, poll[w].was.trust)
           p == [poll[w] EXCEPT !.at = "checks", !.verdict = v]
           q == [p EXCEPT !.holds = poll[w].pr]
<1>1. poll[w] \in Polled /\ poll[w].at = "judge" /\ (Goes(w, p) \/ Goes(w, q))
  BY PollType DEF Judge, Polling, Places
<1>2. v \in {"yes", "no", "lag"} /\ poll[w].pr \in BOOLEAN
  BY <1>1, VerdictType DEF Polled
<1> HIDE DEF v
<1>3. p \in Polled /\ p.at = "checks" /\ p.verdict = v /\ p.was = poll[w].was /\ p.now = poll[w].now /\ p.head = poll[w].head /\ p.pr = poll[w].pr
  BY <1>1, <1>2 DEF Polled, Places
<1> HIDE DEF p
<1>4. q \in Polled /\ q.at = "checks" /\ q.verdict = v /\ q.was = poll[w].was /\ q.now = poll[w].now /\ q.head = poll[w].head /\ q.pr = poll[w].pr
  BY <1>2, <1>3 DEF Polled
<1> HIDE DEF q
<1>5. poll'[w] = p \/ poll'[w] = q
  BY <1>1, GoesTo
<1> QED
  BY <1>1, <1>3, <1>4, <1>5 DEF GoesOn, Kept, Past, v

LEMMA ErrsFields ==
    ASSUME TypeOK, NEW w \in Watchers, Errs(w)
    PROVE  Aborts(w) /\ Same(w)
<1> DEFINE p == [poll[w] EXCEPT !.ok = FALSE, !.at = IF @ = "judge" THEN "checks" ELSE AfterChecks(w, @)]
<1>1. poll[w] \in Polled /\ Goes(w, p) /\ poll[w].at \in {"judge", "comments", "checks"}
  BY PollType DEF Errs, Polling, Places
<1>2. p \in Polled /\ p.at \in {"checks", "comments", "act"} /\ p.ok = FALSE /\ p.verdict = poll[w].verdict /\ p.was = poll[w].was
      /\ p.now = poll[w].now /\ p.head = poll[w].head /\ p.pr = poll[w].pr
  BY <1>1 DEF Polled, Places, AfterChecks
<1> HIDE DEF p
<1> QED
  BY <1>1, <1>2, GoesTo DEF Aborts, GoesOn, Kept, Past, Same

LEMMA ChecksFields ==
    ASSUME TypeOK, NEW w \in Watchers, ReadChecks(w)
    PROVE  /\ GoesOn(w) /\ Same(w) /\ poll'[w].ok = poll[w].ok
           /\ IF poll[w].head \in refused[w] THEN hold(w) /\ poll'[w].holds = poll[w].pr
              ELSE held' = held /\ (poll'[w].at = "comments" \/ (poll'[w].at = "act" /\ ~poll[w].pr))
<1> DEFINE todo == {Ci(poll[w].head)} \cap {k \in Keys : poll[w].head \in red /\ Unseen(k)}
           p == [poll[w] EXCEPT !.at = "act", !.holds = poll[w].pr]
           q == [poll[w] EXCEPT !.todo = todo, !.at = AfterChecks(w, @)]
<1>1. poll[w] \in Polled /\ poll[w].at = "checks"
  BY PollType DEF ReadChecks, Polling, Places
<1>2. IF poll[w].head \in refused[w] THEN hold(w) /\ Goes(w, p) ELSE Goes(w, q) /\ held' = held
  BY DEF ReadChecks
<1>3. p \in Polled /\ p.at = "act" /\ p.holds = poll[w].pr /\ p.verdict = poll[w].verdict /\ p.was = poll[w].was /\ p.now = poll[w].now
      /\ p.head = poll[w].head /\ p.pr = poll[w].pr /\ p.ok = poll[w].ok
  BY <1>1 DEF Polled, Places
<1>4. todo \in SUBSET Keys
  OBVIOUS
<1> HIDE DEF todo
<1>5. /\ q \in Polled /\ q.verdict = poll[w].verdict /\ q.was = poll[w].was /\ q.now = poll[w].now
      /\ q.head = poll[w].head /\ q.pr = poll[w].pr /\ q.ok = poll[w].ok
      /\ q.at = "comments" \/ (q.at = "act" /\ ~poll[w].pr)
  BY <1>1, <1>4 DEF Polled, Places, AfterChecks
<1> HIDE DEF p, q
<1>6. IF poll[w].head \in refused[w] THEN hold(w) /\ poll'[w] = p ELSE poll'[w] = q /\ held' = held
  BY <1>2, GoesTo
<1> QED
  BY <1>1, <1>3, <1>5, <1>6 DEF GoesOn, Kept, Past, Same

LEMMA CommentsFields ==
    ASSUME TypeOK, NEW w \in Watchers, ReadComments(w)
    PROVE  /\ GoesOn(w) /\ Same(w) /\ poll'[w].at = "act" /\ poll'[w].ok = poll[w].ok
           /\ \A c \in Comments :
                asked[c] # Never /\ asked[c] >= Later(Since(w, poll[w].was), poll[w].was.floor) /\ Unseen(Review(c))
                  => Review(c) \in poll'[w].todo
<1> DEFINE cs == {c \in Comments : asked[c] # Never /\ asked[c] >= Later(Since(w, poll[w].was), poll[w].was.floor) /\ Unseen(Review(c))}
           keys == {Review(c) : c \in cs}
           p == [poll[w] EXCEPT !.at = "act", !.released = held[w] # NotHeld, !.todo = @ \cup keys]
<1>1. poll[w] \in Polled /\ poll[w].at = "comments" /\ Goes(w, p)
  BY PollType DEF ReadComments, Polling, Places
<1>2. keys \subseteq Keys
  BY KeysType
<1>3. \A c \in Comments :
        asked[c] # Never /\ asked[c] >= Later(Since(w, poll[w].was), poll[w].was.floor) /\ Unseen(Review(c)) => Review(c) \in keys
  OBVIOUS
<1> HIDE DEF keys
<1>4. /\ p \in Polled /\ p.verdict = poll[w].verdict /\ p.was = poll[w].was /\ p.now = poll[w].now /\ keys \subseteq p.todo
      /\ p.head = poll[w].head /\ p.pr = poll[w].pr /\ p.ok = poll[w].ok /\ p.at = "act"
  BY <1>1, <1>2 DEF Polled, Places
<1> HIDE DEF p
<1> QED
  BY <1>1, <1>3, <1>4, GoesTo DEF GoesOn, Kept, Past, Same

LEMMA IncompleteFields ==
    ASSUME TypeOK, NEW w \in Watchers, poll[w] \in Polled, poll[w].at \in Past, Incomplete(w)
    PROVE  Aborts(w) /\ Same(w) /\ poll'[w].at = "act"
<1> DEFINE p == [poll[w] EXCEPT !.at = "act", !.todo = {}, !.ok = FALSE]
<1>1. Goes(w, p)
  BY DEF Incomplete
<1>2. p \in Polled /\ p.at = "act" /\ p.ok = FALSE /\ p.verdict = poll[w].verdict /\ p.was = poll[w].was
      /\ p.now = poll[w].now /\ p.head = poll[w].head /\ p.pr = poll[w].pr
  BY DEF Polled, Places
<1> HIDE DEF p
<1> QED
  BY <1>1, <1>2, GoesTo DEF Aborts, GoesOn, Kept, Past, Same

LEMMA PickFields ==
    ASSUME TypeOK, NEW w \in Watchers, Pick(w)
    PROVE  /\ poll[w].at = "act" /\ GoesOn(w) /\ Same(w)
           /\ \/ Aborts(w) /\ row' = row
              \/ /\ poll'[w].at = "vouch" /\ poll'[w].todo = poll[w].todo /\ poll'[w].ok = poll[w].ok /\ poll'[w].holds = poll[w].holds
                 /\ poll'[w].released = poll[w].released /\ row' = row
              \/ \E k \in Keys : Drops(w, k) /\ poll'[w].holds = poll[w].holds /\ row' = Skipped(k, w)
<1>1. poll[w] \in Polled /\ poll[w].at = "act" /\ poll[w].todo \subseteq Keys
  BY PollType DEF Pick, Polling, Places, Polled
<1>2. CASE Incomplete(w) /\ row' = row
  BY <1>1, <1>2, IncompleteFields DEF Aborts, Past
<1>3. ASSUME NEW k \in Keys, Goes(w, [poll[w] EXCEPT !.at = "vouch", !.key = k]), row' = row
      PROVE  /\ GoesOn(w) /\ Same(w)
             /\ poll'[w].at = "vouch" /\ poll'[w].todo = poll[w].todo /\ poll'[w].ok = poll[w].ok /\ poll'[w].holds = poll[w].holds
             /\ poll'[w].released = poll[w].released
  <2> DEFINE p == [poll[w] EXCEPT !.at = "vouch", !.key = k]
  <2>1. /\ p \in Polled /\ p.verdict = poll[w].verdict /\ p.was = poll[w].was /\ p.now = poll[w].now /\ p.todo = poll[w].todo
        /\ p.head = poll[w].head /\ p.pr = poll[w].pr /\ p.ok = poll[w].ok /\ p.at = "vouch" /\ p.holds = poll[w].holds
        /\ p.released = poll[w].released
    BY <1>1 DEF Polled, Places
  <2>2. poll'[w] = p
    BY <1>3, GoesTo
  <2> HIDE DEF p
  <2> QED
    BY <1>1, <2>1, <2>2 DEF GoesOn, Kept, Past, Same
<1>4. ASSUME NEW k \in Keys, Goes(w, [poll[w] EXCEPT !.todo = @ \ {k}, !.busy = Busy(w)])
      PROVE  Drops(w, k) /\ Same(w) /\ poll'[w].holds = poll[w].holds
  <2> DEFINE p == [poll[w] EXCEPT !.todo = @ \ {k}, !.busy = Busy(w)]
  <2>0. Busy(w) \in BOOLEAN
    BY <1>1 DEF Busy, Polled
  <2>1. /\ p \in Polled /\ p.verdict = poll[w].verdict /\ p.was = poll[w].was /\ p.now = poll[w].now /\ p.todo = poll[w].todo \ {k}
        /\ p.head = poll[w].head /\ p.pr = poll[w].pr /\ p.ok = poll[w].ok /\ p.at = "act" /\ p.holds = poll[w].holds
        /\ p.released = poll[w].released
    BY <1>1, <2>0 DEF Polled, Places
  <2>2. poll'[w] = p
    BY <1>4, GoesTo
  <2> HIDE DEF p
  <2> QED
    BY <1>1, <2>1, <2>2 DEF Drops, GoesOn, Kept, Past, Same
<1>5. \/ Incomplete(w) /\ row' = row
      \/ \E k \in Keys : \/ Goes(w, [poll[w] EXCEPT !.at = "vouch", !.key = k]) /\ row' = row
                         \/ Goes(w, [poll[w] EXCEPT !.todo = @ \ {k}, !.busy = Busy(w)]) /\ row' = Skipped(k, w)
  BY <1>1 DEF Pick
<1>6. \A k : Drops(w, k) => GoesOn(w)
  BY DEF Drops
<1> QED
  BY <1>1, <1>2, <1>3, <1>4, <1>5, <1>6

(* What the acts on one event leave of the poll.                               *)
LEMMA ActFields ==
    ASSUME TypeOK, NEW w \in Watchers, poll[w] \in Polled, poll[w].at = "vouch"
    PROVE  LET a == Acted(w)
               k == poll[w].key
               Done(v) == Drops(w, k) /\ poll'[w].verdict = v
           IN  /\ k \in Keys /\ k \in Keys
               /\ Goes(w, [a EXCEPT !.ok = FALSE]) => Aborts(w) /\ Same(w)
               /\ Goes(w, [a EXCEPT !.verdict = "lag"]) => Done("lag") /\ poll'[w].holds = poll[w].holds
               /\ Goes(w, [a EXCEPT !.holds = poll[w].pr, !.verdict = Ruling(w)]) => Done(Ruling(w)) /\ poll'[w].holds = poll[w].pr
               /\ \A b \in BOOLEAN :
                    Goes(w, [a EXCEPT !.busy = b, !.verdict = "yes"]) => Done("yes") /\ poll'[w].holds = poll[w].holds
               /\ Goes(w, [a EXCEPT !.verdict = "yes"]) => Done("yes") /\ poll'[w].holds = poll[w].holds
               /\ Goes(w, [a EXCEPT !.ok = FALSE, !.verdict = "yes"]) => Aborts(w) /\ poll'[w].verdict = "yes"
<1> DEFINE a == Acted(w)
           k == poll[w].key
<1>1. /\ a \in Polled /\ a.at = "act" /\ a.was = poll[w].was /\ a.now = poll[w].now
      /\ a.head = poll[w].head /\ a.pr = poll[w].pr /\ a.todo = poll[w].todo \ {k}
      /\ a.holds = poll[w].holds /\ a.released = poll[w].released /\ a.ok = poll[w].ok /\ a.verdict = poll[w].verdict
  BY ActedType
<1>2. k \in Keys /\ poll[w].pr \in BOOLEAN /\ Ruling(w) \in {"yes", "no", "lag"}
  BY VerdictType DEF Polled
<1> HIDE DEF a, k
<1>3. ASSUME NEW x \in Polled, Goes(w, x), x.at = "act", x.was = a.was, x.now = a.now, x.head = a.head, x.pr = a.pr
      PROVE  /\ GoesOn(w) /\ poll'[w] = x
             /\ x.ok = FALSE => Aborts(w)
             /\ x.todo = a.todo /\ x.released = a.released /\ x.ok = a.ok => Drops(w, k)
  <2>1. poll'[w] = x
    BY <1>3, GoesTo
  <2>2. GoesOn(w)
    BY <1>1, <1>3, <2>1 DEF GoesOn, Kept, Past
  <2> QED
    BY <1>1, <1>3, <2>1, <2>2 DEF Drops, Aborts
<1>4. /\ Goes(w, [a EXCEPT !.ok = FALSE]) => Aborts(w) /\ Same(w)
      /\ Goes(w, [a EXCEPT !.ok = FALSE, !.verdict = "yes"]) => Aborts(w) /\ poll'[w].verdict = "yes"
  <2> DEFINE x == [a EXCEPT !.ok = FALSE]
             y == [a EXCEPT !.ok = FALSE, !.verdict = "yes"]
  <2>1. /\ x \in Polled /\ x.at = "act" /\ x.was = a.was /\ x.now = a.now /\ x.head = a.head /\ x.pr = a.pr /\ x.ok = FALSE /\ x.verdict = a.verdict
        /\ y \in Polled /\ y.at = "act" /\ y.was = a.was /\ y.now = a.now /\ y.head = a.head /\ y.pr = a.pr /\ y.ok = FALSE /\ y.verdict = "yes"
    BY <1>1 DEF Polled
  <2> HIDE DEF x, y
  <2>2. (Goes(w, x) => Aborts(w) /\ Same(w)) /\ (Goes(w, y) => Aborts(w) /\ poll'[w].verdict = "yes")
    BY <1>1, <1>3, <2>1 DEF Same
  <2> QED
    BY <2>2 DEF x, y
<1>5. ASSUME NEW v \in {"yes", "no", "lag"}
      PROVE  /\ Goes(w, [a EXCEPT !.verdict = v]) => Drops(w, k) /\ poll'[w].verdict = v /\ poll'[w].holds = poll[w].holds
             /\ \A b \in BOOLEAN : Goes(w, [a EXCEPT !.busy = b, !.verdict = v])
                                     => Drops(w, k) /\ poll'[w].verdict = v /\ poll'[w].holds = poll[w].holds
             /\ \A h \in BOOLEAN : Goes(w, [a EXCEPT !.holds = h, !.verdict = v])
                                     => Drops(w, k) /\ poll'[w].verdict = v /\ poll'[w].holds = h
  <2>1. ASSUME NEW b \in BOOLEAN, NEW x, x = [a EXCEPT !.verdict = v] \/ x = [a EXCEPT !.busy = b, !.verdict = v], Goes(w, x)
        PROVE  Drops(w, k) /\ poll'[w].verdict = v /\ poll'[w].holds = poll[w].holds
    <3>1. /\ x \in Polled /\ x.at = "act" /\ x.was = a.was /\ x.now = a.now /\ x.head = a.head /\ x.pr = a.pr /\ x.ok = a.ok
          /\ x.todo = a.todo /\ x.released = a.released /\ x.holds = a.holds /\ x.verdict = v
      BY <1>1, <2>1, ZenonT(60) DEF Polled
    <3> QED
      BY <1>1, <1>3, <2>1, <3>1
  <2>2. ASSUME NEW h \in BOOLEAN, NEW x, x = [a EXCEPT !.holds = h, !.verdict = v], Goes(w, x)
        PROVE  Drops(w, k) /\ poll'[w].verdict = v /\ poll'[w].holds = h
    <3>1. /\ x \in Polled /\ x.at = "act" /\ x.was = a.was /\ x.now = a.now /\ x.head = a.head /\ x.pr = a.pr /\ x.ok = a.ok
          /\ x.todo = a.todo /\ x.released = a.released /\ x.holds = h /\ x.verdict = v
      BY <1>1, <2>2 DEF Polled
    <3> QED
      BY <1>1, <1>3, <2>2, <3>1
  <2> QED
    BY <2>1, <2>2
<1> QED
  BY <1>2, <1>4, <1>5 DEF a, k

(* A poll begins, is over, lists the branch, or goes on.                       *)
Begun(w) ==
    /\ poll'[w] \in Polled /\ poll'[w].at = "me" /\ poll'[w].verdict = "?"
    /\ poll'[w].was = watch[w] /\ poll'[w].now = now
Moves(w) ==
    \/ Begun(w) /\ watch' = watch
    \/ poll'[w] = NoPoll /\ (Finish(w) \/ OtherLogin(w) \/ watch' = watch)
    \/ Known(w) /\ watch' = watch
    \/ Targets(w) /\ watch' = watch
    \/ /\ GoesOn(w) /\ watch' = watch
       /\ \/ Same(w) \/ poll'[w].verdict \in {"lag", Ruling(w)}
          \/ poll'[w].verdict = Verdict(w, poll[w].head, poll[w].was.trust)

LEMMA PollMoves ==
    ASSUME TypeOK, NEW w \in Watchers, Polls(w) \/ Fault(w)
    PROVE  Moves(w)
<1>1. CASE Begin(w)
  <2> DEFINE p == [at |-> "me", was |-> watch[w], now |-> now, head |-> 0, pr |-> FALSE, todo |-> {}, key |-> Ci(1),
                   verdict |-> "?", busy |-> FALSE, holds |-> FALSE, released |-> FALSE, ok |-> TRUE]
  <2>1. watch[w] \in Records /\ now \in Time /\ 0 \in 0..MaxHeads /\ Ci(1) \in Keys
    BY Constants, KeysType DEF TypeOK
  <2>2. p \in Polled /\ p.at = "me" /\ p.was = watch[w] /\ p.now = now /\ p.verdict = "?"
    BY <2>1 DEF Polled, Places
  <2>3. Goes(w, p) /\ watch' = watch
    BY <1>1 DEF Begin
  <2> HIDE DEF p
  <2> QED
    BY <2>2, <2>3, GoesTo DEF Moves, Begun
<1>2. CASE CannotRead(w) \/ OtherLogin(w) \/ Finish(w)
  <2>1. poll'[w] = NoPoll
    BY <1>2, GoesTo DEF CannotRead, OtherLogin, Finish
  <2> QED
    BY <1>2, <2>1 DEF Moves, CannotRead
<1>3. CASE CutStart(w, TRUE) \/ CutStart(w, FALSE)
  BY <1>3 DEF CutStart, Forgets, Moves
<1>4. CASE Known(w) \/ Targets(w)
  BY <1>4 DEF Known, Targets, Moves
<1>5. CASE Judge(w) \/ Errs(w) \/ ReadChecks(w) \/ ReadComments(w) \/ Pick(w)
  <2>1. GoesOn(w) /\ (Same(w) \/ poll'[w].verdict = Verdict(w, poll[w].head, poll[w].was.trust))
    BY <1>5, JudgeFields, ErrsFields, ChecksFields, CommentsFields, PickFields DEF Aborts
  <2>2. watch' = watch
    BY <1>5 DEF Judge, Errs, ReadChecks, ReadComments, Pick
  <2> QED
    BY <2>1, <2>2 DEF Moves
<1>6. CASE CannotVouch(w) \/ NotYet(w) \/ Refuse(w) \/ GivesUp(w) \/ Loses(w) \/ Start(w) \/ StartRefused(w) \/ StartUnbound(w)
  <2>1. poll[w] \in Polled /\ poll[w].at = "vouch" /\ poll[w].at \in Past
    BY <1>6, PollType DEF Polling, Places, Past, CannotVouch, NotYet, Refuse, GivesUp, Loses, Start, StartRefused, StartUnbound, Wins, Ready, Clear
  <2>2. watch' = watch
    BY <1>6 DEF CannotVouch, NotYet, Refuse, GivesUp, Loses, Start, StartRefused, StartUnbound, Wins, Vouch
  <2>3. Busy(w) \in BOOLEAN /\ \A k : Drops(w, k) => GoesOn(w)
    BY <2>1 DEF Busy, Polled, Drops
  <2>4. CASE Incomplete(w)
    BY <2>1, <2>2, <2>4, IncompleteFields DEF Moves, Aborts
  <2>5. CASE CannotVouch(w)
    BY <2>1, <2>2, <2>5, ActFields DEF CannotVouch, Moves, Aborts
  <2>6. CASE NotYet(w)
    <3>1. Goes(w, [Acted(w) EXCEPT !.verdict = "lag"])
      BY <2>6 DEF NotYet
    <3> QED
      BY <2>1, <2>2, <2>3, <3>1, ActFields DEF Moves
  <2>7. CASE Refuse(w) /\ ~Incomplete(w)
    <3>1. Goes(w, [Acted(w) EXCEPT !.holds = poll[w].pr, !.verdict = Ruling(w)])
      BY <2>7 DEF Refuse
    <3> QED
      BY <2>1, <2>2, <2>3, <3>1, ActFields DEF Moves
  <2>8. CASE Loses(w) \/ Start(w) \/ StartRefused(w) \/ StartUnbound(w)
    <3>1. /\ Ruling(w) = "yes"
          /\ \/ \E b \in BOOLEAN : Goes(w, [Acted(w) EXCEPT !.busy = b, !.verdict = "yes"])
             \/ Goes(w, [Acted(w) EXCEPT !.verdict = "yes"])
             \/ Goes(w, [Acted(w) EXCEPT !.ok = FALSE, !.verdict = "yes"])
      BY <2>3, <2>8 DEF Loses, Start, StartRefused, StartUnbound, Wins, Ready, Clear
    <3>2. GoesOn(w) /\ poll'[w].verdict = "yes"
      BY <2>1, <2>3, <3>1, ActFields DEF Aborts
    <3> QED
      BY <2>2, <3>1, <3>2 DEF Moves
  <2> QED
    BY <1>6, <2>4, <2>5, <2>6, <2>7, <2>8 DEF GivesUp
<1> QED
  BY <1>1, <1>2, <1>3, <1>4, <1>5, <1>6 DEF Polls, Answered, Fault

LEMMA TypeStep ==
    ASSUME TypeOK, PollInv, [Next]_vars
    PROVE  TypeOK'
BY WatchStepTypes, OwnerStepTypes, WorldStepTypes DEF Next

-----------------------------------------------------------------------------
(* What a poll read of its watch.                                              *)
LEMMA OwnerOfWatch ==
    ASSUME TypeOK, NEW w \in Watchers, Owner(w)
    PROVE  /\ watch[w].on # "gone"
           /\ watch'[w].ok = watch[w].ok /\ watch'[w].floor \in {watch[w].floor, now}
           /\ \/ watch'[w].changed = watch[w].changed /\ watch'[w].trust = watch[w].trust
              \/ watch'[w].changed = watch[w].changed + 1
<1>1. watch \in [Watchers -> Records] /\ watch[w] \in Records
  BY DEF TypeOK
<1>2. ASSUME NEW rec \in Records, Changed(w, rec)
      PROVE  watch'[w].ok = rec.ok /\ watch'[w].floor = rec.floor /\ watch'[w].changed = rec.changed + 1
  BY <1>1, <1>2 DEF Changed, Records
<1>3. ASSUME NEW T \in Lists
      PROVE  /\ [watch[w] EXCEPT !.trust = T] \in Records /\ [watch[w] EXCEPT !.trust = T].ok = watch[w].ok
             /\ [watch[w] EXCEPT !.trust = T].floor = watch[w].floor /\ [watch[w] EXCEPT !.trust = T].changed = watch[w].changed
  BY <1>1 DEF Records
<1>4. /\ [watch[w] EXCEPT !.on = "paused"] \in Records /\ [watch[w] EXCEPT !.on = "paused"].ok = watch[w].ok
      /\ [watch[w] EXCEPT !.on = "paused"].floor = watch[w].floor /\ [watch[w] EXCEPT !.on = "paused"].changed = watch[w].changed
  BY <1>1 DEF Records
<1>5. /\ [watch[w] EXCEPT !.on = "on", !.floor = now] \in Records /\ [watch[w] EXCEPT !.on = "on", !.floor = now].ok = watch[w].ok
      /\ [watch[w] EXCEPT !.on = "on", !.floor = now].floor = now /\ [watch[w] EXCEPT !.on = "on", !.floor = now].changed = watch[w].changed
  <2>1. now \in Time
    BY DEF TypeOK
  <2> QED
    BY <1>1, <2>1 DEF Records
<1>6. watch' = watch \/ watch' = [watch EXCEPT ![w].on = "gone"]
      \/ Changed(w, [watch[w] EXCEPT !.on = "paused"]) \/ Changed(w, [watch[w] EXCEPT !.on = "on", !.floor = now])
      \/ \E T \in Lists : Changed(w, [watch[w] EXCEPT !.trust = T])
  <2>1. edit[w] # NoEdit => edit[w].trust \in Lists
    BY DEF TypeOK
  <2> QED
    BY <2>1 DEF Owner, Pause, Resume, Trusts, EditBegins, EditApplies, Delete
<1>7. watch[w].on # "gone"
  BY DEF Owner, Pause, Resume, Trusts, EditBegins, EditApplies, Delete
<1>8. CASE watch' = watch \/ watch' = [watch EXCEPT ![w].on = "gone"]
  BY <1>1, <1>7, <1>8 DEF Records
<1> QED
  BY <1>2, <1>3, <1>4, <1>5, <1>6, <1>7, <1>8

LEMMA PollStep ==
    ASSUME TypeOK, PollInv, [Next]_vars
    PROVE  PollInv'
<1>1. now \in Nat /\ now' \in Nat /\ now <= now' /\ Branch \in Nat /\ Branch' \in Nat /\ Branch <= Branch'
  <2>1. now \in Nat /\ (now' = now \/ now' = now + 1)
    BY Constants, GithubMoves DEF TypeOK, Time
  <2> QED
    BY <2>1, StepKeepsHeads DEF HeadsKept
<1>2. open' => open
  BY GithubMoves
<1>3. \A w \in Watchers : PollSays(w) /\ WatchTimes(w) /\ edit[w].head <= Branch
  BY DEF PollInv
<1>4. ASSUME NEW v \in Watchers, Untouched(v)
      PROVE  (PollSays(v) /\ WatchTimes(v) /\ edit[v].head <= Branch)'
  <2>1. watch[v] \in Records /\ (poll[v] \in Polled \/ poll[v] = NoPoll) /\ watch'[v] = watch[v]
    BY <1>4 DEF TypeOK, Untouched
  <2>2. WatchTimes(v)'
    <3>1. watch[v].ok \in Nat /\ watch[v].floor \in Nat /\ watch[v].ok <= now /\ watch[v].floor <= now
      BY <1>3, <2>1, Constants DEF WatchTimes, Records, Time
    <3> QED
      BY <1>1, <2>1, <3>1 DEF WatchTimes
  <2>3. (edit[v].head <= Branch)'
    <3>1. edit[v].head \in Nat /\ NoEdit.head = 0
      BY Constants DEF TypeOK, NoEdit, HeadIds
    <3> QED
      BY <1>1, <1>3, <1>4, <3>1 DEF Untouched
  <2>4. PollSays(v)'
    <3>1. CASE poll'[v] = NoPoll
      BY <3>1 DEF PollSays
    <3>2. CASE poll'[v] = poll[v] /\ poll[v] # NoPoll
      <4>1. poll[v].now \in Nat /\ poll[v].head \in Nat
        BY <2>1, <3>2, Constants DEF Polled, Time
      <4> QED
        BY <1>1, <1>2, <1>3, <2>1, <3>2, <4>1 DEF PollSays
    <3> QED
      BY <1>4, <3>1, <3>2 DEF Untouched
  <2> QED
    BY <2>2, <2>3, <2>4
<1>5. \A c \in Comments : (asked[c] <= now)'
  <2>1. \A c \in Comments : asked[c] \in Nat /\ asked[c] <= now
    BY Constants DEF TypeOK, Time, PollInv
  <2>2. asked' = asked \/ (\E c \in Comments : asked' = [asked EXCEPT ![c] = now])
    BY GithubMoves DEF Asks
  <2>3. \A c \in Comments : asked'[c] \in {asked[c], now}
    BY <2>2 DEF TypeOK
  <2> QED
    BY <1>1, <2>1, <2>3
<1>6. ASSUME NEW w \in Watchers, Polls(w) \/ Fault(w)
      PROVE  (PollSays(w) /\ WatchTimes(w) /\ edit[w].head <= Branch)'
  <2>1. watch[w] \in Records /\ PollSays(w) /\ WatchTimes(w) /\ edit[w].head <= Branch /\ edit[w].head \in Nat
    BY <1>3, Constants DEF TypeOK, NoEdit, HeadIds
  <2>2. poll[w] \in Polled => poll[w] # NoPoll /\ poll[w].now \in Nat /\ poll[w].now <= now /\ poll[w].head \in Nat
    BY <2>1, Constants, PollType DEF Polled, Time, PollSays, NoPoll, Places
  <2>3. WatchTimes(w)'
    <3>1. watch[w].ok \in Nat /\ watch[w].floor \in Nat /\ watch[w].ok <= now /\ watch[w].floor <= now
      BY <2>1, Constants DEF WatchTimes, Records, Time
    <3>2. CASE watch' = watch
      BY <1>1, <3>1, <3>2 DEF WatchTimes
    <3>3. CASE Finish(w)
      <4>1. poll[w] \in Polled /\ (watch' = watch \/ watch' = [watch EXCEPT ![w].ok = poll[w].now])
        BY <3>3, PollType DEF Finish, Places
      <4>2. (watch'[w].ok = watch[w].ok \/ watch'[w].ok = poll[w].now) /\ watch'[w].floor = watch[w].floor
        BY <2>1, <4>1 DEF TypeOK, Records
      <4> QED
        BY <1>1, <2>2, <3>1, <4>1, <4>2 DEF WatchTimes
    <3>4. CASE OtherLogin(w)
      <4>1. watch'[w].ok = watch[w].ok /\ watch'[w].floor = watch[w].floor
        BY <2>1, <3>4 DEF OtherLogin, Changed, TypeOK, Records
      <4> QED
        BY <1>1, <3>1, <4>1 DEF WatchTimes
    <3> QED
      BY <1>6, <3>2, <3>3, <3>4, PollMoves DEF Moves
  <2>4. (edit[w].head <= Branch)'
    <3>1. edit' = edit \/ (\A v \in Watchers : edit'[v] = NoEdit)
      BY <1>6 DEF Starts, StaysPut, Polls, Answered, Fault, Forgets,
         Begin, Known, Targets, Judge, ReadChecks, ReadComments, NotYet, Refuse, GivesUp, Loses, Start, Pick, Finish, OtherLogin,
         CannotRead, Errs, CannotVouch, StartRefused, StartUnbound, CutStart
    <3>2. NoEdit.head = 0
      BY DEF NoEdit
    <3> QED
      BY <1>1, <2>1, <3>1, <3>2
  <2>5. PollSays(w)'
    <3>1. CASE poll'[w] = NoPoll
      BY <3>1 DEF PollSays
    <3>2. CASE Begun(w) /\ watch' = watch
      <4>1. watch[w].changed \in Nat /\ watch[w].floor \in Nat /\ "me" \notin Past
        BY <2>1, Constants DEF Records, Time, Past
      <4> QED
        BY <1>1, <3>2, <4>1 DEF Begun, PollSays
    <3>3. CASE Known(w) /\ watch' = watch
      <4>1. Kept(w) /\ poll'[w].at = "list" /\ Same(w) /\ poll[w].at = "me" /\ {"list", "me"} \cap Past = {}
        BY <3>3, KnownFields DEF Past
      <4> QED
        BY <1>1, <2>1, <2>2, <3>3, <4>1 DEF Kept, Same, PollSays
    <3>4. CASE Targets(w) /\ watch' = watch
      <4>1. /\ Kept(w) /\ poll'[w].at \in {"judge", "checks"} /\ poll'[w].head = Branch /\ poll'[w].pr = open /\ Branch' = Branch
            /\ Branch \in 1..Branch
        <5>1. Branch \in 1..Branch
          BY <1>1, HeadType DEF HeadIds
        <5>2. Branch' = Branch
          BY <3>4 DEF Targets, StaysPut, github, Branch
        <5> QED
          BY <3>4, <5>1, <5>2, TargetsFields
      <4> QED
        BY <1>1, <1>2, <2>1, <2>2, <3>4, <4>1 DEF Kept, PollSays, Past
    <3>5. CASE GoesOn(w) /\ watch' = watch
      BY <1>1, <1>2, <2>1, <2>2, <3>5 DEF Kept, GoesOn, PollSays
    <3> QED
      BY <1>6, <3>1, <3>2, <3>3, <3>4, <3>5, PollMoves DEF Moves
  <2> QED
    BY <2>3, <2>4, <2>5
<1>7. ASSUME NEW w \in Watchers, Owner(w)
      PROVE  (PollSays(w) /\ WatchTimes(w) /\ edit[w].head <= Branch)'
  <2>1. /\ watch[w] \in Records /\ PollSays(w) /\ WatchTimes(w) /\ edit[w].head <= Branch /\ edit[w].head \in Nat
        /\ watch[w].changed \in Nat /\ watch[w].ok \in Nat /\ watch[w].floor \in Nat
    BY <1>3, Constants DEF TypeOK, NoEdit, HeadIds, Records, Time
  <2>2. UNCHANGED <<poll, now, heads, open>>
    BY <1>7 DEF Owner, OwnerDoes, github, Pause, Resume, Trusts, EditBegins, EditApplies, Delete
  <2>3. /\ watch'[w].ok = watch[w].ok /\ watch'[w].floor \in {watch[w].floor, now}
        /\ \/ watch'[w].changed = watch[w].changed /\ watch'[w].trust = watch[w].trust
           \/ watch'[w].changed = watch[w].changed + 1
    BY <1>7, OwnerOfWatch
  <2>4. WatchTimes(w)'
    BY <1>1, <2>1, <2>2, <2>3 DEF WatchTimes
  <2>5. (edit[w].head <= Branch)'
    <3>1. edit'[w] \in {edit[w], NoEdit} \/ edit'[w].head = Branch
      <4>1. edit \in [Watchers -> [head : HeadIds, trust : Lists] \cup {NoEdit}]
        BY DEF TypeOK
      <4>2. edit' = edit \/ edit' = [edit EXCEPT ![w] = NoEdit] \/ \E T : edit' = [edit EXCEPT ![w] = [head |-> Branch, trust |-> T]]
        BY <1>7 DEF Owner, Pause, Resume, Trusts, EditBegins, EditApplies, Delete
      <4> QED
        BY <4>1, <4>2
    <3>2. NoEdit.head = 0
      BY DEF NoEdit
    <3> QED
      BY <1>1, <2>1, <3>1, <3>2
  <2>6. PollSays(w)'
    <3>1. CASE poll[w] = NoPoll
      BY <2>2, <3>1 DEF PollSays
    <3>2. CASE poll[w] \in Polled
      <4>1. poll[w].was.changed \in Nat /\ poll[w].was.floor \in Nat /\ poll[w].now \in Nat /\ Branch' = Branch /\ poll[w] # NoPoll
        BY <2>2, <3>2, Constants, PollType DEF Polled, Records, Time, Branch, NoPoll, Places
      <4>2. watch[w].floor <= now
        BY <2>1 DEF WatchTimes
      <4>3. /\ poll[w].was.changed <= watch'[w].changed /\ poll[w].was.ok = watch'[w].ok /\ poll[w].was.floor <= watch'[w].floor
            /\ poll[w].was.changed = watch'[w].changed => poll[w].was.trust = watch'[w].trust
        BY <1>1, <2>1, <2>3, <4>1, <4>2 DEF PollSays
      <4> QED
        BY <2>1, <2>2, <4>1, <4>3 DEF PollSays
    <3> QED
      BY <3>1, <3>2, PollType
  <2> QED
    BY <2>4, <2>5, <2>6
<1>8. \A v \in Watchers : (PollSays(v) /\ WatchTimes(v) /\ edit[v].head <= Branch)'
  BY <1>4, <1>6, <1>7, OthersUntouched, WorldUntouched DEF Next
<1> QED
  BY <1>5, <1>8 DEF PollInv

-----------------------------------------------------------------------------
(* Trust.  What was sound stays so under a longer list: the branch only grows. *)
SoundThen(h, T, V) ==
    \E k \in 1..h : /\ k \in V \/ (heads'[k].how = "push" /\ heads'[k].by \in T)
                    /\ \A j \in (k + 1)..h : heads'[j].how = "merge" /\ heads'[j].by \in T

LEMMA SoundKept ==
    ASSUME HeadsKept, Branch \in Nat, NEW h \in 1..Branch, NEW T, NEW U, T \subseteq U, NEW V, Sound(h, T, V)
    PROVE  SoundThen(h, U, V)
<1>1. PICK k \in 1..h : /\ k \in V \/ (heads[k].how = "push" /\ heads[k].by \in T)
                        /\ \A j \in (k + 1)..h : heads[j].how = "merge" /\ heads[j].by \in T
  BY DEF Sound
<1>2. k \in 1..Branch /\ \A j \in (k + 1)..h : j \in 1..Branch
  OBVIOUS
<1>3. k \in V \/ (heads'[k].how = "push" /\ heads'[k].by \in U)
  BY <1>1, <1>2 DEF HeadsKept
<1>4. \A j \in (k + 1)..h : heads'[j].how = "merge" /\ heads'[j].by \in U
  BY <1>1, <1>2 DEF HeadsKept
<1> QED
  BY <1>3, <1>4 DEF SoundThen

(* A head judged trusted is, if what the watch remembers is.                   *)
LEMMA VerdictSound ==
    ASSUME TypeOK, NEW w \in Watchers, Remembers(w), NEW h \in 1..Branch, Branch \in Nat,
           Verdict(w, h, watch[w].trust) = "yes"
    PROVE  Sound(h, watch[w].trust, vouched[w])
<1> DEFINE T == watch[w].trust
           l == lastTrusted(w, T)
<1>1. l # 0 => l = trusted[w].head /\ Sound(l, T, vouched[w])
  BY DEF lastTrusted, Remembers
<1>2. CASE l = h
  BY <1>1, <1>2
<1>3. CASE l # h
  <2>1. Chained(w, T, h)
    BY <1>3 DEF Verdict
  <2>2. PICK k \in 1..h : /\ k = l \/ (heads[k].how = "push" /\ heads[k].by \in T)
                          /\ \A j \in (k + 1)..h : heads[j].how = "merge" /\ heads[j].by \in T
    BY <2>1 DEF Chained
  <2>3. CASE k = l
    <3> HIDE DEF T, l
    <3>1. PICK i \in 1..k : /\ i \in vouched[w] \/ (heads[i].how = "push" /\ heads[i].by \in T)
                            /\ \A j \in (i + 1)..k : heads[j].how = "merge" /\ heads[j].by \in T
      BY <1>1, <2>3 DEF Sound
    <3>2. i \in 1..h /\ \A j \in (i + 1)..h : j \in (i + 1)..k \/ j \in (k + 1)..h
      OBVIOUS
    <3> QED
      BY <2>2, <3>1, <3>2 DEF Sound, T
  <2> QED
    BY <2>2, <2>3 DEF Sound
<1> QED
  BY <1>2, <1>3

LEMMA RulingSound ==
    ASSUME TypeOK, PollInv, TrustInv, NEW w \in Watchers, poll[w].at \in Past, Fresh(w)
    PROVE  /\ poll[w].was.trust = watch[w].trust /\ poll[w].head \in 1..Branch
           /\ Verdict(w, poll[w].head, poll[w].was.trust) = "yes" => Sound(poll[w].head, watch[w].trust, vouched[w])
           /\ Ruling(w) = "yes" => Sound(poll[w].head, watch[w].trust, vouched[w])
<1>1. poll[w] # NoPoll /\ Branch \in Nat /\ poll[w].head \in 1..Branch
  BY HeadType, PollType DEF Past
<1>2. poll[w].was.trust = watch[w].trust
  BY <1>1 DEF PollInv, PollSays, Fresh
<1>3. Remembers(w) /\ Judged(w)
  BY DEF TrustInv
<1>4. Verdict(w, poll[w].head, poll[w].was.trust) = "yes" => Sound(poll[w].head, watch[w].trust, vouched[w])
  BY <1>1, <1>2, <1>3, VerdictSound
<1>5. Ruling(w) = "yes" => Sound(poll[w].head, watch[w].trust, vouched[w])
  BY <1>1, <1>3, <1>4 DEF Ruling, Judged
<1> QED
  BY <1>1, <1>2, <1>4, <1>5

(* Only a fresh poll remembers, and only a head it judged trusted.             *)
LEMMA Remembered ==
    ASSUME TypeOK, NEW w \in Watchers, Polls(w) \/ Fault(w)
    PROVE  /\ vouched' = vouched /\ heads' = heads
           /\ \/ trusted' = trusted
              \/ /\ Fresh(w) /\ poll[w].at \in Past /\ remember(w, poll[w].head, poll[w].was.trust)
                 /\ Ruling(w) = "yes" \/ Verdict(w, poll[w].head, poll[w].was.trust) = "yes"
<1>1. vouched' = vouched
  BY DEF Polls, Answered, Fault, StaysPut, Starts, Begin, Known, Targets, Judge, ReadChecks, ReadComments, NotYet, Refuse,
     GivesUp, Loses, Start, Pick, Finish, CannotRead, Errs, CannotVouch, OtherLogin, StartRefused, StartUnbound, CutStart
<1>2. trusted' = trusted \/ Judge(w) \/ (Clear(w) /\ Unchanged(w) /\ remember(w, poll[w].head, poll[w].was.trust))
  BY DEF Polls, Answered, Fault, judgments, Begin, Known, Targets, ReadChecks, ReadComments, NotYet, Refuse, Wins, Ready, Vouch,
     GivesUp, Loses, Start, Pick, Finish, CannotRead, Errs, CannotVouch, OtherLogin, StartRefused, StartUnbound, CutStart
<1>3. CASE Judge(w)
  BY <1>1, <1>3, WatchKeepsGithub DEF Judge, judgments, github, Polling, Past
<1>4. CASE Clear(w) /\ Unchanged(w) /\ remember(w, poll[w].head, poll[w].was.trust)
  BY <1>1, <1>4, WatchKeepsGithub DEF Clear, Unchanged, github, Polling, Past
<1> QED
  BY <1>1, <1>2, <1>3, <1>4, WatchKeepsGithub DEF github

LEMMA TrustOfOthers ==
    ASSUME TypeOK, PollInv, TrustInv, HeadsKept, NEW v \in Watchers, Untouched(v)
    PROVE  Remembers(v)' /\ Judged(v)'
<1>1. Branch \in Nat /\ Branch' \in Nat /\ Branch <= Branch' /\ trusted[v].head \in Nat
  BY HeadType, Constants DEF HeadsKept, TypeOK
<1>2. Remembers(v)'
  <2>1. CASE trusted[v].head = 0
    BY <2>1 DEF Untouched, Remembers
  <2>2. CASE trusted[v].head # 0
    <3>1. trusted[v].head \in 1..Branch /\ Sound(trusted[v].head, trusted[v].under, vouched[v])
      BY <1>1, <2>2 DEF TrustInv, Remembers
    <3>2. SoundThen(trusted[v].head, trusted[v].under, vouched[v])
      BY <1>1, <3>1, SoundKept
    <3> QED
      BY <1>1, <3>1, <3>2 DEF Untouched, Remembers, Sound, SoundThen
  <2> QED
    BY <2>1, <2>2
<1>3. Judged(v)'
  <2>1. CASE poll'[v] = NoPoll
    BY <2>1 DEF Judged
  <2>2. CASE poll'[v] = poll[v] /\ ~(poll[v] # NoPoll /\ poll[v].at \in Past /\ poll[v].verdict = "yes" /\ Fresh(v))
    BY <2>2 DEF Judged, Fresh, Untouched
  <2>3. CASE poll'[v] = poll[v] /\ poll[v] # NoPoll /\ poll[v].at \in Past /\ poll[v].verdict = "yes" /\ Fresh(v)
    <3>1. poll[v].head \in 1..Branch /\ Sound(poll[v].head, watch[v].trust, vouched[v])
      BY <2>3, HeadType DEF TrustInv, Judged
    <3>2. SoundThen(poll[v].head, watch[v].trust, vouched[v])
      BY <1>1, <3>1, SoundKept
    <3> QED
      BY <2>3, <3>2 DEF Untouched, Judged, Sound, SoundThen
  <2> QED
    BY <2>1, <2>2, <2>3 DEF Untouched
<1> QED
  BY <1>2, <1>3

LEMMA TrustOfPolls ==
    ASSUME TypeOK, PollInv, TrustInv, NEW w \in Watchers, Polls(w) \/ Fault(w)
    PROVE  Remembers(w)' /\ Judged(w)'
<1>1. vouched' = vouched /\ heads' = heads /\ Branch' = Branch
  BY Remembered DEF Branch
<1>2. \A h, T : Sound(h, T, vouched[w]) => SoundThen(h, T, vouched'[w])
  BY <1>1 DEF Sound, SoundThen
<1>3. Remembers(w)'
  <2>1. CASE trusted' = trusted
    BY <1>1, <1>2, <2>1 DEF TrustInv, Remembers, Sound, SoundThen
  <2>2. CASE /\ Fresh(w) /\ poll[w].at \in Past /\ remember(w, poll[w].head, poll[w].was.trust)
             /\ Ruling(w) = "yes" \/ Verdict(w, poll[w].head, poll[w].was.trust) = "yes"
    <3>1. /\ poll[w].was.trust = watch[w].trust /\ poll[w].head \in 1..Branch
          /\ Sound(poll[w].head, watch[w].trust, vouched[w])
      BY <2>2, RulingSound
    <3>2. trusted'[w] = [head |-> poll[w].head, under |-> watch[w].trust]
      BY <2>2, <3>1 DEF remember, TypeOK
    <3>3. poll[w].head <= Branch'
      BY <1>1, <3>1, HeadType
    <3>4. trusted'[w].head = poll[w].head /\ trusted'[w].under = watch[w].trust
      BY <3>2
    <3>5. SoundThen(trusted'[w].head, trusted'[w].under, vouched'[w])
      BY <1>2, <3>1, <3>4
    <3> QED
      BY <3>3, <3>4, <3>5 DEF Remembers, Sound, SoundThen
  <2> QED
    BY <2>1, <2>2, Remembered
<1>4. Judged(w)'
  <2>1. CASE poll'[w] = NoPoll \/ Begun(w) \/ Known(w)
    <3>1. "me" \notin Past /\ "list" \notin Past
      BY DEF Past
    <3> QED
      BY <2>1, <3>1, KnownFields DEF Judged, Begun
  <2>2. CASE Targets(w)
    <3>1. poll[w].at = "list" /\ poll[w] \in Polled /\ Same(w) /\ "list" \notin Past
      BY <2>2, TargetsFields DEF Kept, Past
    <3>2. poll[w].verdict = "?"
      BY <3>1, PollType DEF PollInv, PollSays, NoPoll
    <3> QED
      BY <3>1, <3>2 DEF Judged, Same
  <2>3. CASE /\ GoesOn(w) /\ watch' = watch
             /\ \/ Same(w) \/ poll'[w].verdict \in {"lag", Ruling(w)}
                \/ poll'[w].verdict = Verdict(w, poll[w].head, poll[w].was.trust)
    <3>1. poll[w] # NoPoll /\ poll[w].at \in Past /\ poll'[w].head = poll[w].head /\ poll'[w].was = poll[w].was
      BY <2>3, PollType DEF GoesOn, Kept, Past
    <3>2. ASSUME poll'[w].verdict = "yes", Fresh(w)'
          PROVE  SoundThen(poll[w].head, watch[w].trust, vouched'[w])
      <4>1. Fresh(w)
        BY <2>3, <3>1, <3>2 DEF Fresh
      <4>2. Judged(w)
        BY DEF TrustInv
      <4>3. \/ poll[w].verdict = "yes" \/ Ruling(w) = "yes" \/ Verdict(w, poll[w].head, poll[w].was.trust) = "yes"
        BY <2>3, <3>2 DEF Same
      <4> QED
        BY <1>2, <3>1, <4>1, <4>2, <4>3, RulingSound DEF Judged
    <3> QED
      BY <2>3, <3>1, <3>2 DEF Judged, Sound, SoundThen
  <2> QED
    BY <2>1, <2>2, <2>3, PollMoves DEF Moves
<1> QED
  BY <1>3, <1>4

(* A change of the watch makes what its poll judged void.                      *)
LEMMA TrustOfOwner ==
    ASSUME TypeOK, PollInv, TrustInv, NEW w \in Watchers, Owner(w)
    PROVE  Remembers(w)' /\ Judged(w)'
<1>1. UNCHANGED <<poll, heads>> /\ Branch' = Branch /\ Branch \in Nat
  BY HeadType DEF Owner, OwnerDoes, github, Pause, Resume, Trusts, EditBegins, EditApplies, Delete, Branch
<1>2. \A h, T, U, V : T \subseteq U /\ Sound(h, T, V) => SoundThen(h, U, V)
  BY <1>1 DEF Sound, SoundThen
<1>3. watch[w] \in Records /\ watch \in [Watchers -> Records] /\ trusted \in [Watchers -> [head : 0..MaxHeads, under : SUBSET Logins]]
      /\ vouched \in [Watchers -> SUBSET HeadIds]
  BY DEF TypeOK
<1>4. Remembers(w) /\ Judged(w)
  BY DEF TrustInv
<1>5. ASSUME UNCHANGED <<trusted, vouched>>
      PROVE  Remembers(w)'
  BY <1>1, <1>2, <1>4, <1>5 DEF Remembers, Sound, SoundThen
<1>6. ASSUME NEW rec \in Records, Changed(w, rec), rec.changed = watch[w].changed
      PROVE  Judged(w)'
  <2>1. watch'[w].changed = watch[w].changed + 1 /\ watch[w].changed \in Nat
    BY <1>3, <1>6 DEF Changed, Records
  <2>2. poll[w] # NoPoll => poll[w].was.changed <= watch[w].changed /\ poll[w].was.changed \in Nat
    BY PollType DEF PollInv, PollSays, Polled, Records
  <2> QED
    BY <1>1, <2>1, <2>2 DEF Judged, Fresh
<1>7. ASSUME trusted'[w].head = 0
      PROVE  Remembers(w)'
  BY <1>7 DEF Remembers
<1>8. CASE Pause(w) \/ Resume(w)
  <2>1. now \in Time
    BY DEF TypeOK
  <2>2. /\ [watch[w] EXCEPT !.on = "paused"] \in Records /\ [watch[w] EXCEPT !.on = "paused"].changed = watch[w].changed
        /\ [watch[w] EXCEPT !.on = "on", !.floor = now] \in Records /\ [watch[w] EXCEPT !.on = "on", !.floor = now].changed = watch[w].changed
    BY <1>3, <2>1 DEF Records
  <2>3. Changed(w, [watch[w] EXCEPT !.on = "paused"]) \/ Changed(w, [watch[w] EXCEPT !.on = "on", !.floor = now])
    BY <1>8 DEF Pause, Resume
  <2>4. UNCHANGED <<trusted, vouched>>
    BY <1>8 DEF Pause, Resume
  <2> QED
    BY <1>5, <1>6, <2>2, <2>3, <2>4
<1>9. ASSUME NEW T \in Lists
      PROVE  [watch[w] EXCEPT !.trust = T] \in Records /\ [watch[w] EXCEPT !.trust = T].changed = watch[w].changed
  BY <1>3 DEF Records
<1>10. ASSUME NEW T \in Lists, Trusts(w, T)
       PROVE  Remembers(w)' /\ Judged(w)'
  <2>1. Changed(w, [watch[w] EXCEPT !.trust = T]) /\ Retrusts(w, T) /\ T # watch[w].trust
    BY <1>10 DEF Trusts
  <2>2. Judged(w)'
    BY <1>6, <1>9, <2>1
  <2>3. CASE ~(watch[w].trust \subseteq T)
    <3>1. trusted'[w] = [head |-> 0, under |-> {}]
      BY <1>3, <2>1, <2>3 DEF Retrusts
    <3> QED
      BY <1>7, <2>2, <3>1
  <2>4. CASE watch[w].trust \subseteq T
    <3>1. /\ trusted' = [trusted EXCEPT ![w] = IF trusted[w].under = watch[w].trust THEN [trusted[w] EXCEPT !.under = T] ELSE trusted[w]]
          /\ vouched' = [vouched EXCEPT ![w] = vouched[w]]
      BY <1>3, <2>1, <2>4 DEF Retrusts
    <3>2. vouched'[w] = vouched[w] /\ trusted'[w].head = trusted[w].head
          /\ (trusted'[w].under = trusted[w].under \/ (trusted'[w].under = T /\ trusted[w].under = watch[w].trust))
      BY <1>3, <3>1
    <3>3. trusted[w].head # 0 => SoundThen(trusted[w].head, trusted'[w].under, vouched[w])
      BY <1>2, <1>4, <2>4, <3>2 DEF Remembers
    <3> QED
      BY <1>1, <1>4, <2>2, <3>2, <3>3 DEF Remembers, Sound, SoundThen
  <2> QED
    BY <2>3, <2>4
<1>11. ASSUME NEW T \in Lists, EditBegins(w, T)
       PROVE  Remembers(w)' /\ Judged(w)'
  <2>1. UNCHANGED <<trusted, vouched, watch, poll>>
    BY <1>1, <1>11 DEF EditBegins
  <2> QED
    BY <1>1, <1>2, <1>4, <1>5, <2>1 DEF Judged, Fresh, Sound, SoundThen
<1>12. CASE EditApplies(w)
  <2> DEFINE h == edit[w].head
             T == edit[w].trust
  <2>1. h \in HeadIds /\ T \in Lists /\ h <= Branch
    BY <1>12 DEF EditApplies, TypeOK, PollInv
  <2>2. Changed(w, [watch[w] EXCEPT !.trust = T])
    BY <1>12 DEF EditApplies
  <2>3. Judged(w)'
    <3> HIDE DEF T
    <3> QED
      BY <1>6, <1>9, <2>1, <2>2
  <2>4. trusted'[w] = [head |-> h, under |-> T] /\ h \in vouched'[w]
    BY <1>3, <1>12 DEF EditApplies, remember
  <2>5. h \in 1..h
    BY <2>1, Constants DEF HeadIds
  <2>6. SoundThen(h, T, vouched'[w])
    BY <2>4, <2>5 DEF SoundThen
  <2>7. trusted'[w].head = h /\ trusted'[w].under = T
    BY <2>4
  <2>8. trusted'[w].head <= Branch' /\ SoundThen(trusted'[w].head, trusted'[w].under, vouched'[w])
    BY <1>1, <2>1, <2>6, <2>7
  <2> QED
    BY <2>3, <2>8 DEF Remembers, Sound, SoundThen
<1>13. CASE Delete(w)
  <2>1. trusted'[w] = [head |-> 0, under |-> {}] /\ watch'[w].on = "gone"
    BY <1>3, <1>13 DEF Delete, Records
  <2> QED
    BY <1>7, <2>1 DEF Judged, Fresh
<1> QED
  BY <1>8, <1>10, <1>11, <1>12, <1>13 DEF Owner

LEMMA TrustStep ==
    ASSUME TypeOK, PollInv, TrustInv, [Next]_vars
    PROVE  TrustInv'
<1>1. HeadsKept
  BY StepKeepsHeads
<1>2. ASSUME NEW w \in Watchers, Polls(w) \/ Fault(w) \/ Owner(w), NEW v \in Watchers
      PROVE  Remembers(v)' /\ Judged(v)'
  BY <1>1, <1>2, OthersUntouched, TrustOfOthers, TrustOfPolls, TrustOfOwner
<1>3. ASSUME Outside \/ Stop \/ Restart \/ UNCHANGED vars, NEW v \in Watchers
      PROVE  Remembers(v)' /\ Judged(v)'
  BY <1>1, <1>3, WorldUntouched, TrustOfOthers
<1>4. \A v \in Watchers : (Remembers(v) /\ Judged(v))'
  BY <1>2, <1>3 DEF Next
<1> QED
  BY <1>4 DEF TrustInv

(* What a step that starts a run found.                                        *)
StartedBy(w) ==
    /\ Ready(w) /\ UNCHANGED <<watch, heads>>
    /\ \E b \in BOOLEAN : runs' = Append(runs, Run(w, b))

LEMMA OnlyStartsAdd ==
    ASSUME TypeOK, [Next]_vars, NEW r \in DOMAIN runs' \ DOMAIN runs
    PROVE  \E w \in Watchers : StartedBy(w) /\ \E b \in BOOLEAN : runs'[r] = Run(w, b)
<1>1. runs \in Seq(RunRecords) /\ Len(runs) \in Nat
  BY DEF TypeOK
<1>2. \/ DOMAIN runs' = DOMAIN runs
      \/ \E w \in Watchers : Start(w) \/ StartUnbound(w) \/ CutStart(w, TRUE)
  <2>1. ASSUME NEW w \in Watchers, Polls(w) \/ Fault(w) \/ Owner(w)
        PROVE  runs' = runs \/ Start(w) \/ StartUnbound(w) \/ CutStart(w, TRUE)
    BY <2>1 DEF Owner, OwnerDoes, Pause, Resume, Trusts, EditBegins, EditApplies, Delete,
       Polls, Answered, Fault, StaysPut, Begin, Known, Targets, Judge, ReadChecks, ReadComments, NotYet, Refuse,
       GivesUp, Loses, Pick, Finish, CannotRead, Errs, CannotVouch, OtherLogin, StartRefused, CutStart
  <2>2. Outside \/ Stop \/ Restart \/ UNCHANGED vars => DOMAIN runs' = DOMAIN runs
    BY <1>1 DEF Outside, Stop, Restart, vars, Tick, Listed, CheckFails, Closes, Arrives, Asks, RunEnds
  <2> QED
    BY <2>1, <2>2 DEF Next
<1>3. PICK w \in Watchers : Start(w) \/ StartUnbound(w) \/ CutStart(w, TRUE)
  BY <1>2
<1>4. PICK b \in BOOLEAN : runs' = Append(runs, Run(w, b))
  BY <1>3 DEF Start, StartUnbound, CutStart, Starts
<1>5. Ready(w) /\ UNCHANGED <<watch, heads>>
  BY <1>3 DEF Start, StartUnbound, CutStart, Wins, Vouch, Starts, github
<1>6. DOMAIN runs' = 1..(Len(runs) + 1) /\ DOMAIN runs = 1..Len(runs) /\ runs'[Len(runs) + 1] = Run(w, b)
  BY <1>1, <1>4
<1>7. r = Len(runs) + 1
  BY <1>1, <1>6
<1> QED
  BY <1>4, <1>5, <1>6, <1>7 DEF StartedBy

LEMMA StartStep ==
    ASSUME TypeOK, PollInv, TrustInv, [Next]_vars, NEW r \in DOMAIN runs' \ DOMAIN runs
    PROVE  LET w == runs'[r].watch
           IN  watch[w].on = "on" /\ Sound(runs'[r].head, watch[w].trust, vouched[w])
<1>1. PICK w \in Watchers, b \in BOOLEAN : StartedBy(w) /\ runs'[r] = Run(w, b)
  BY OnlyStartsAdd
<1>2. runs'[r].watch = w /\ runs'[r].head = poll[w].head
  BY <1>1 DEF Run
<1>3. watch[w].on = "on" /\ Fresh(w) /\ poll[w].at \in Past /\ Ruling(w) = "yes"
  BY <1>1 DEF StartedBy, Ready, Clear, Unchanged, Polling, Past
<1> QED
  BY <1>2, <1>3, RulingSound

-----------------------------------------------------------------------------
(* The runs.  A step that starts none the ledger records may rewrite an event  *)
(* as long as what it counts stays, and a run at work is still its own.        *)
RunsSame == Recorded' = Recorded /\ \A r \in Recorded : runs'[r] = runs[r]
Rewritten(k) ==
    /\ Tally(k)' = Tally(k) /\ InTries(k)'
    /\ \A r \in Of(k) : /\ Worked(r) => row'[k].run = row[k].run /\ row'[k].outcome = row[k].outcome
                        /\ Active(r) => row'[k].settled = row[k].settled

LEMMA RunsKept ==
    ASSUME TypeOK, RunsInv, RunsSame, \A k \in Keys : Rewritten(k)
    PROVE  RunsInv'
<1>1. \A r \in Recorded : runs[r] \in RunRecords /\ runs[r].key \in Keys /\ r \in Of(runs[r].key)
  <2>1. \A r \in Recorded : runs[r] \in RunRecords
    BY DEF TypeOK, Recorded
  <2> QED
    BY <2>1 DEF RunRecords, Of
<1>2. \A r \in Recorded : (Worked(r)' <=> Worked(r)) /\ (Active(r)' <=> Active(r)) /\ runs'[r].key = runs[r].key
  BY DEF RunsSame, Worked, Active
<1>3. \A r \in Recorded : Owns(r)'
  BY <1>1, <1>2 DEF RunsInv, Owns, Rewritten
<1>4. \A r \in Recorded' : Owns(r)'
  BY <1>3 DEF RunsSame
<1>5. \A r, s \in Recorded' : Active(r)' /\ Active(s)' => r = s
  BY <1>2 DEF RunsSame, RunsInv
<1>6. \A k \in Keys : Of(k)' = Of(k)
  BY <1>2 DEF RunsSame, Of
<1>7. \A k \in Keys : Counted(k)'
  BY <1>6 DEF RunsInv, Counted, Rewritten
<1> QED
  BY <1>4, <1>5, <1>7 DEF RunsInv

LEMMA Appended ==
    ASSUME NEW S, NEW s \in Seq(S), NEW x
    PROVE  /\ Len(s) \in Nat /\ DOMAIN s = 1..Len(s) /\ DOMAIN Append(s, x) = 1..(Len(s) + 1)
           /\ \A i \in 1..Len(s) : Append(s, x)[i] = s[i]
           /\ Append(s, x)[Len(s) + 1] = x
<1>1. s \in [1..Len(s) -> S] /\ Len(s) \in Nat /\ DOMAIN s = 1..Len(s)
  OBVIOUS
<1>2. s \in [1..Len(s) -> S \cup {x}]
  BY <1>1
<1>3. s \in Seq(S \cup {x})
  BY <1>1, <1>2
<1> QED
  BY <1>1, <1>3

LEMMA SameRuns ==
    ASSUME TypeOK, runs' = runs \/ \E w \in Watchers : runs' = Append(runs, Run(w, FALSE))
    PROVE  RunsSame
<1>1. runs \in Seq(RunRecords) /\ Len(runs) \in Nat
  BY DEF TypeOK
<1>2. ASSUME NEW w \in Watchers, runs' = Append(runs, Run(w, FALSE))
      PROVE  RunsSame
  <2>1. /\ DOMAIN runs = 1..Len(runs) /\ DOMAIN runs' = 1..(Len(runs) + 1)
        /\ \A r \in DOMAIN runs : runs'[r] = runs[r]
        /\ runs'[Len(runs) + 1] = Run(w, FALSE)
    <3> DEFINE x == Run(w, FALSE)
    <3>1. runs' = Append(runs, x)
      BY <1>2
    <3> HIDE DEF x
    <3>2. /\ DOMAIN runs = 1..Len(runs) /\ DOMAIN Append(runs, x) = 1..(Len(runs) + 1)
          /\ \A i \in 1..Len(runs) : Append(runs, x)[i] = runs[i]
          /\ Append(runs, x)[Len(runs) + 1] = x
      BY <1>1, Appended
    <3> QED
      BY <3>1, <3>2 DEF x
  <2>2. ~runs'[Len(runs) + 1].bound
    BY <2>1 DEF Run
  <2>3. DOMAIN runs' = DOMAIN runs \cup {Len(runs) + 1}
    BY <1>1, <2>1
  <2> QED
    BY <2>1, <2>2, <2>3 DEF RunsSame, Recorded
<1>3. runs' = runs => RunsSame
  BY DEF RunsSame, Recorded
<1> QED
  BY <1>2, <1>3

LEMMA SameRewritten ==
    ASSUME RunsInv, NEW k \in Keys, row'[k] = row[k]
    PROVE  Rewritten(k)
BY DEF Rewritten, Tally, RunsInv, Counted, InTries

(* Nothing is at work on an event that has no run, or waits for another.       *)
LEMMA UnseenIsQuiet ==
    ASSUME TypeOK, RunsInv, NEW k \in Keys, row[k].outcome # "run"
    PROVE  /\ \A r \in Of(k) : ~Worked(r) /\ ~Active(r)
           /\ Tally(k) = row[k].tries /\ InTries(k) /\ row[k].tries \in Nat
<1>1. \A r \in Of(k) : r \in Recorded /\ runs[r].key = k /\ (Active(r) => Worked(r))
  BY DEF Of, Active, Worked
<1>2. \A r \in Of(k) : ~Worked(r)
  BY <1>1 DEF RunsInv, Owns
<1>3. row[k] \in Events
  BY DEF TypeOK
<1>4. InTries(k)
  BY DEF RunsInv, Counted
<1>5. row[k].tries \in Nat
  BY <1>3 DEF Events
<1> QED
  BY <1>1, <1>2, <1>4, <1>5 DEF Tally

LEMMA UnseenRewritten ==
    ASSUME TypeOK, RunsInv, NEW k \in Keys, Unseen(k), row'[k].tries = row[k].tries, row'[k].outcome # "run" \/ row'[k].run = 0
    PROVE  Rewritten(k)
<1>1. /\ \A r \in Of(k) : ~Worked(r) /\ ~Active(r)
      /\ Tally(k) = row[k].tries /\ row[k].tries \in Nat /\ InTries(k)
  BY UnseenIsQuiet DEF Unseen
<1>2. Tally(k)' = row[k].tries
  BY <1>1 DEF Tally
<1>3. InTries(k)'
  BY <1>1 DEF InTries, Unseen
<1> QED
  BY <1>1, <1>2, <1>3 DEF Rewritten

LEMMA SkippedRewritten ==
    ASSUME TypeOK, RunsInv, NEW w \in Watchers, NEW j \in Keys, row' = Skipped(j, w), NEW k \in Keys
    PROVE  Rewritten(k)
<1>1. row \in [Keys -> Events] /\ row[k] \in Events
  BY DEF TypeOK
<1>2. row'[k] = row[k] \/ (Unseen(k) /\ row'[k] = [row[k] EXCEPT !.outcome = "retry", !.by = w])
  BY <1>1 DEF Skipped, Deferred
<1>3. ASSUME row'[k] = [row[k] EXCEPT !.outcome = "retry", !.by = w]
      PROVE  row'[k].tries = row[k].tries /\ row'[k].outcome = "retry"
  BY <1>1, <1>3 DEF Events
<1> QED
  BY <1>2, <1>3, SameRewritten, UnseenRewritten

LEMMA ExpiredRewritten ==
    ASSUME TypeOK, RunsInv, NEW w \in Watchers, row' = expireRetries(w), NEW k \in Keys
    PROVE  Rewritten(k)
<1>1. row[k] \in Events
  BY DEF TypeOK
<1>2. row'[k] = row[k] \/ (Unseen(k) /\ row'[k] = [row[k] EXCEPT !.outcome = "ignored", !.settled = TRUE])
  BY DEF expireRetries, Unseen
<1>3. ASSUME row'[k] = [row[k] EXCEPT !.outcome = "ignored", !.settled = TRUE]
      PROVE  row'[k].tries = row[k].tries /\ row'[k].outcome = "ignored"
  BY <1>1, <1>3 DEF Events
<1> QED
  BY <1>2, <1>3, SameRewritten, UnseenRewritten

(* What a run came to is written on its event once it is over.                 *)
LEMMA SettledRewritten ==
    ASSUME TypeOK, RunsInv, NEW w \in Watchers, row' = Settled(w), NEW k \in Keys
    PROVE  Rewritten(k)
<1> DEFINE e == row[k]
           gone == runs[e.run].status = "hopeless" \/ e.tries + 1 >= SetupTries
           tried == [e EXCEPT !.tries = @ + 1, !.settled = TRUE,
                              !.outcome = IF gone THEN "ignored" ELSE "retry", !.run = IF gone THEN @ ELSE 0]
           done == [e EXCEPT !.settled = TRUE]
<1>1. row'[k] = IF ~(e.by = w /\ e.run # 0 /\ ~e.settled /\ e.outcome = "run") \/ Active(e.run) THEN e
                ELSE IF runs[e.run].status = "over" THEN done ELSE tried
  BY DEF Settled
<1>2. e \in Events /\ e.tries \in Nat /\ InTries(k) /\ e.run \in 0..Len(runs) /\ Len(runs) \in Nat /\ runs \in Seq(RunRecords)
  <2>1. e \in Events /\ e.run \in 0..Len(runs) /\ Len(runs) \in Nat /\ runs \in Seq(RunRecords)
    BY DEF TypeOK
  <2>2. e.tries \in Nat /\ InTries(k)
    BY <2>1 DEF Events, RunsInv, Counted
  <2> QED
    BY <2>1, <2>2
<1>3. /\ done.tries = e.tries /\ done.run = e.run /\ done.outcome = e.outcome
      /\ tried.tries = e.tries + 1 /\ tried.outcome = (IF gone THEN "ignored" ELSE "retry")
  <2> HIDE DEF e, gone
  <2> QED
    BY <1>2 DEF Events
<1>4. \A r \in Of(k) : (Active(r) => Worked(r)) /\ (Worked(r) => r = e.run)
  BY DEF Of, Active, Worked, RunsInv, Owns
<1>5. CASE row'[k] = e
  BY <1>5, SameRewritten
<1>6. CASE row'[k] = done /\ ~Active(e.run)
  <2> HIDE DEF e, done
  <2>1. Tally(k)' = Tally(k) /\ InTries(k)'
    BY <1>2, <1>3, <1>6 DEF Tally, InTries, e
  <2> QED
    BY <1>3, <1>4, <1>6, <2>1 DEF Rewritten, e
<1>7. CASE row'[k] = tried /\ e.run # 0 /\ e.outcome = "run" /\ ~Active(e.run) /\ runs[e.run].status # "over"
  <2>1. ~Worked(e.run)
    <3>1. runs[e.run] \in RunRecords
      BY <1>2, <1>7
    <3> QED
      BY <1>7, <3>1 DEF RunRecords, Worked, Active
  <2>2. e.tries <= SetupTries /\ e.tries # SetupTries
    BY <1>2, <1>7 DEF InTries
  <2>3. e.tries + 1 <= SetupTries /\ (e.tries + 1 = SetupTries => gone)
    BY <1>2, <2>2, Constants
  <2> HIDE DEF e, tried, gone
  <2>4. Tally(k) = e.tries + 1
    BY <1>7 DEF Tally, e
  <2>5. Tally(k)' = e.tries + 1
    BY <1>2, <1>3, <1>7 DEF Tally
  <2>6. InTries(k)'
    BY <1>3, <1>7, <2>3 DEF InTries
  <2> QED
    BY <1>4, <2>1, <2>4, <2>5, <2>6 DEF Rewritten
<1> QED
  BY <1>1, <1>5, <1>6, <1>7

LEMMA LedgerFields ==
    ASSUME TypeOK, NEW w \in Watchers, NEW k \in Keys
    PROVE  /\ Released(k, w).tries = row[k].tries /\ Released(k, w).outcome \in {"none", "retry"}
           /\ Released(k, w).outcome = "none" <=> row[k].tries = 0
           /\ Claimed(k, w)[k].tries = row[k].tries /\ Claimed(k, w)[k].run = 0 /\ Claimed(k, w)[k].outcome = "run"
           /\ Bound(k, w)[k].tries = row[k].tries /\ Bound(k, w)[k].run = Len(runs) + 1
           /\ Bound(k, w)[k].outcome = "run" /\ ~Bound(k, w)[k].settled
           /\ \A j \in Keys \ {k} : Claimed(k, w)[j] = row[j] /\ Bound(k, w)[j] = row[j] /\ Skipped(k, w)[j] = row[j]
<1>1. row[k] \in Events /\ row \in [Keys -> Events]
  BY DEF TypeOK
<1> DEFINE b == [row[k] EXCEPT !.outcome = "run", !.run = Len(runs) + 1, !.settled = FALSE, !.by = w]
           c == [row[k] EXCEPT !.outcome = "run", !.run = 0, !.settled = FALSE, !.by = w]
<1>2. Bound(k, w) = [row EXCEPT ![k] = b] /\ Claimed(k, w) = [row EXCEPT ![k] = c]
  BY DEF Bound, Claimed
<1>3. /\ b.tries = row[k].tries /\ b.run = Len(runs) + 1 /\ b.outcome = "run" /\ ~b.settled
      /\ c \in Events /\ c.tries = row[k].tries /\ c.run = 0 /\ c.outcome = "run"
  BY <1>1 DEF Events
<1> HIDE DEF b, c
<1>4. [c EXCEPT !.outcome = "retry"].tries = c.tries /\ [c EXCEPT !.outcome = "retry"].outcome = "retry"
  BY <1>3 DEF Events
<1>5. Claimed(k, w)[k] = c /\ Bound(k, w)[k] = b
  BY <1>1, <1>2
<1>6. /\ Released(k, w).tries = row[k].tries /\ Released(k, w).outcome \in {"none", "retry"}
      /\ Released(k, w).outcome = "none" <=> row[k].tries = 0
  BY <1>3, <1>4, <1>5, NoRowType DEF Released
<1>7. \A j \in Keys \ {k} : Claimed(k, w)[j] = row[j] /\ Bound(k, w)[j] = row[j] /\ Skipped(k, w)[j] = row[j]
  BY <1>1, <1>2 DEF Skipped
<1> QED
  BY <1>3, <1>5, <1>6, <1>7

(* Of a start that came to no recorded run.                                    *)
LEMMA StartRewritten ==
    ASSUME TypeOK, RunsInv, NEW w \in Watchers,
           StartRefused(w) \/ StartUnbound(w) \/ CutStart(w, TRUE) \/ CutStart(w, FALSE), NEW j \in Keys
    PROVE  Rewritten(j)
<1> DEFINE k == poll[w].key
<1>1. k \in Keys /\ Unseen(k)
  BY PollType DEF StartRefused, StartUnbound, CutStart, Wins, Ready, Clear, Places, Polled
<1>2. row \in [Keys -> Events] /\ Released(k, w) \in Events /\ Released(k, w).run = 0
  BY <1>1, LedgerType DEF TypeOK
<1> DEFINE back == [row EXCEPT ![k] = Released(k, w)]
<1>3. \/ row' = back \/ row' = Claimed(k, w)
      \/ row' = [back EXCEPT ![k].outcome = "retry", ![k].by = w]
  BY DEF StartRefused, StartUnbound, CutStart
<1> HIDE DEF k
<1>4. /\ back[k] = Released(k, w) /\ back[k] \in Events /\ back \in [Keys -> Events]
      /\ \A i \in Keys \ {k} : back[i] = row[i]
  BY <1>1, <1>2
<1> HIDE DEF back
<1>5. CASE row' = back
  BY <1>1, <1>2, <1>4, <1>5, LedgerFields, SameRewritten, UnseenRewritten
<1>6. CASE row' = Claimed(k, w)
  BY <1>1, <1>6, LedgerFields, SameRewritten, UnseenRewritten
<1>7. CASE row' = [back EXCEPT ![k].outcome = "retry", ![k].by = w]
  <2>1. [back[k] EXCEPT !.outcome = "retry", !.by = w].outcome = "retry" /\ [back[k] EXCEPT !.outcome = "retry", !.by = w].tries = back[k].tries
    BY <1>4 DEF Events
  <2>2. row'[k] = [back[k] EXCEPT !.outcome = "retry", !.by = w] /\ \A i \in Keys \ {k} : row'[i] = row[i]
    BY <1>1, <1>4, <1>7
  <2>3. row'[k].outcome = "retry" /\ row'[k].tries = row[k].tries
    BY <1>1, <1>4, <2>1, <2>2, LedgerFields
  <2> QED
    BY <1>1, <2>2, <2>3, SameRewritten, UnseenRewritten
<1> QED
  BY <1>3, <1>5, <1>6, <1>7

(* A run is recorded when none is at work on the branch.                       *)
LEMMA StartCounts ==
    ASSUME TypeOK, RunsInv, NEW w \in Watchers, Start(w)
    PROVE  RunsInv'
<1>0. PICK k, n, x : k = poll[w].key /\ n = Len(runs) + 1 /\ x = Run(w, TRUE)
  OBVIOUS
<1>1. /\ k \in Keys /\ Unseen(k) /\ ~Busy(w) /\ runs' = Append(runs, x) /\ row' = Bound(k, w)
  <2>1. k \in Keys
    BY <1>0, PollType DEF Start, Wins, Ready, Clear, Places, Polled
  <2> QED
    BY <1>0, <2>1 DEF Start, Wins, Ready, BusyAgain, Starts
<1>2. x.key = k /\ x.status = "active" /\ x.bound
  BY <1>0 DEF Run
<1>3. runs \in Seq(RunRecords) /\ Len(runs) \in Nat
  BY DEF TypeOK
<1>4. /\ DOMAIN runs = 1..Len(runs) /\ DOMAIN runs' = 1..n /\ runs'[n] = x
      /\ \A r \in DOMAIN runs : runs'[r] = runs[r]
  <2>1. /\ DOMAIN runs = 1..Len(runs) /\ DOMAIN Append(runs, x) = 1..(Len(runs) + 1)
        /\ \A i \in 1..Len(runs) : Append(runs, x)[i] = runs[i]
        /\ Append(runs, x)[Len(runs) + 1] = x
    BY <1>3, Appended
  <2>2. runs' = Append(runs, x) /\ n = Len(runs) + 1
    BY <1>0, <1>1
  <2> QED
    BY <2>1, <2>2
<1>5. Recorded' = Recorded \cup {n} /\ n \notin Recorded /\ \A r \in Recorded : runs'[r] = runs[r] /\ r # 0
  <2>1. 1..n = 1..Len(runs) \cup {n} /\ n \notin 1..Len(runs)
    BY <1>0, <1>3
  <2>2. \A r : r \in Recorded' <=> r \in 1..n /\ runs'[r].bound
    BY <1>4 DEF Recorded
  <2>3. \A r : r \in Recorded <=> r \in 1..Len(runs) /\ runs[r].bound
    BY <1>4 DEF Recorded
  <2>4. \A r \in 1..Len(runs) : r # 0
    BY <1>3
  <2> QED
    BY <1>2, <1>4, <2>1, <2>2, <2>3, <2>4
<1>14. n # 0 /\ runs'[n] = x /\ runs'[n].key = k
  <2>1. n = Len(runs) + 1
    BY <1>0
  <2>2. n # 0
    BY <1>3, <2>1
  <2> QED
    BY <1>2, <1>4, <2>2
<1>6. \A r \in Recorded : (Worked(r)' <=> Worked(r)) /\ (Active(r)' <=> Active(r)) /\ runs'[r].key = runs[r].key
  BY <1>5 DEF Worked, Active
<1>7. \A r \in Recorded : runs[r].key \in Keys /\ r \in Of(runs[r].key)
  <2>1. \A r \in Recorded : runs[r] \in RunRecords
    BY <1>3 DEF Recorded
  <2> QED
    BY <2>1 DEF RunRecords, Of
<1>8. \A r \in Recorded : ~Active(r)
  <2>1. ASSUME NEW r \in Recorded, Active(r)
        PROVE  FALSE
    <3>1. row[runs[r].key].run = r /\ ~row[runs[r].key].settled /\ r # 0
      BY <1>5, <2>1 DEF RunsInv, Owns, Worked, Active
    <3>2. r \in runsOnBranch
      BY <1>7, <3>1 DEF runsOnBranch
    <3> QED
      BY <1>1, <2>1, <3>2 DEF Busy
  <2> QED
    BY <2>1
<1>9. /\ row'[k].tries = row[k].tries /\ row'[k].run = n /\ row'[k].outcome = "run" /\ ~row'[k].settled
      /\ \A j \in Keys \ {k} : row'[j] = row[j]
  BY <1>0, <1>1, LedgerFields
<1>10. /\ \A r \in Of(k) : ~Worked(r) /\ ~Active(r)
       /\ Tally(k) = row[k].tries /\ InTries(k) /\ row[k].tries \in Nat
  BY <1>1, UnseenIsQuiet DEF Unseen
<1>11. ASSUME NEW r \in Recorded'
       PROVE  Owns(r)'
  <2>1. CASE r = n
    BY <1>2, <1>4, <1>9, <2>1 DEF Owns
  <2>2. CASE r \in Recorded
    <3>1. Worked(r) => runs[r].key # k
      BY <1>7, <1>10, <2>2
    <3> QED
      BY <1>6, <1>7, <1>8, <1>9, <2>2, <3>1 DEF Owns, RunsInv
  <2> QED
    BY <1>5, <2>1, <2>2
<1>12. \A r, s \in Recorded' : Active(r)' /\ Active(s)' => r = s
  BY <1>5, <1>6, <1>8
<1>13. ASSUME NEW j \in Keys
       PROVE  Counted(j)'
  <2>1. CASE j # k
    <3>1. Of(j)' = Of(j)
      BY <1>2, <1>4, <1>5, <1>6, <2>1 DEF Of
    <3>2. row'[j] = row[j]
      BY <1>9, <2>1
    <3> QED
      BY <3>1, <3>2 DEF RunsInv, Counted, Tally, InTries
  <2>2. CASE j = k
    <3>1. Of(k)' = Of(k) \cup {n} /\ n \notin Of(k)
      <4>1. \A r : r \in Of(k)' <=> r \in Recorded \cup {n} /\ runs'[r].key = k
        BY <1>5 DEF Of
      <4>2. \A r : r \in Of(k) <=> r \in Recorded /\ runs[r].key = k
        BY DEF Of
      <4> QED
        BY <1>5, <1>6, <1>14, <4>1, <4>2
    <3>2. IsFiniteSet(Of(k)) /\ Cardinality(Of(k)) = row[k].tries
      BY <1>1, <1>10 DEF RunsInv, Counted
    <3>3. IsFiniteSet(Of(k)') /\ Cardinality(Of(k)') = row[k].tries + 1
      <4>1. IsFiniteSet(Of(k) \cup {n}) /\ Cardinality(Of(k) \cup {n}) = row[k].tries + 1
        BY <3>1, <3>2, FS_AddElement
      <4> QED
        BY <3>1, <4>1
    <3>4. Tally(k)' = row[k].tries + 1 /\ InTries(k)'
      <4>1. row[k].tries # SetupTries /\ row[k].tries <= SetupTries
        BY <1>1, <1>10 DEF InTries, Unseen
      <4>2. InTries(k)'
        BY <1>9, <4>1 DEF InTries
      <4>3. Tally(k)' = row[k].tries + 1
        BY <1>9, <1>10, <1>14 DEF Tally
      <4> QED
        BY <4>2, <4>3
    <3> QED
      BY <2>2, <3>3, <3>4 DEF Counted
  <2> QED
    BY <2>1, <2>2
<1> QED
  BY <1>11, <1>12, <1>13 DEF RunsInv

LEMMA RunEndsStep ==
    ASSUME TypeOK, RunsInv, NEW r \in DOMAIN runs, NEW s \in {"over", "unready", "hopeless"}, RunEnds(r, s)
    PROVE  RunsInv'
<1>1. runs \in Seq(RunRecords) /\ runs[r] \in RunRecords /\ DOMAIN runs = 1..Len(runs) /\ Len(runs) \in Nat
  BY DEF TypeOK
<1> DEFINE x == [runs[r] EXCEPT !.status = s]
<1>2. x.status = s /\ x.key = runs[r].key /\ x.bound = runs[r].bound /\ runs[r].status = "active" /\ r # 0 /\ row' = row
      /\ runs' = [runs EXCEPT ![r] = x]
  BY <1>1 DEF RunRecords, RunEnds, Active
<1> HIDE DEF x
<1>3. DOMAIN runs' = DOMAIN runs /\ \A i \in DOMAIN runs : runs'[i] = IF i = r THEN x ELSE runs[i]
  BY <1>1, <1>2
<1>4. \A i \in DOMAIN runs : /\ runs'[i].key = runs[i].key /\ runs'[i].bound = runs[i].bound
                             /\ Worked(i)' => Worked(i)
                             /\ Active(i)' => Active(i)
  BY <1>2, <1>3 DEF Worked, Active
<1>5. Recorded' = Recorded /\ Recorded \subseteq DOMAIN runs
  BY <1>3, <1>4 DEF Recorded
<1>6. \A i \in Recorded' : Owns(i)'
  BY <1>2, <1>4, <1>5 DEF RunsInv, Owns
<1>7. \A i, j \in Recorded' : Active(i)' /\ Active(j)' => i = j
  BY <1>4, <1>5 DEF RunsInv
<1>8. \A k \in Keys : Of(k)' = Of(k)
  BY <1>4, <1>5 DEF Of
<1>9. \A k \in Keys : Counted(k)'
  BY <1>2, <1>8 DEF RunsInv, Counted, Tally, InTries
<1> QED
  BY <1>6, <1>7, <1>9 DEF RunsInv

LEMMA RunsStep ==
    ASSUME TypeOK, RunsInv, [Next]_vars
    PROVE  RunsInv'
<1>1. CASE UNCHANGED <<row, runs>>
  BY <1>1, SameRuns, SameRewritten, RunsKept
<1>2. ASSUME NEW w \in Watchers, Polls(w) \/ Fault(w)
      PROVE  RunsInv'
  <2>1. CASE Start(w)
    BY <2>1, StartCounts
  <2>2. CASE StartRefused(w) \/ StartUnbound(w) \/ CutStart(w, TRUE) \/ CutStart(w, FALSE)
    <3>1. runs' = runs \/ runs' = Append(runs, Run(w, FALSE))
      BY <2>2 DEF StartRefused, StartUnbound, CutStart, StaysPut, Starts
    <3> QED
      BY <2>2, <3>1, SameRuns, StartRewritten, RunsKept
  <2>3. CASE Known(w) \/ Targets(w)
    <3>1. runs' = runs /\ (row' = Settled(w) \/ row' = expireRetries(w))
      BY <2>3 DEF Known, Targets, StaysPut
    <3> QED
      BY <3>1, SameRuns, SettledRewritten, ExpiredRewritten, RunsKept
  <2>4. CASE Pick(w) \/ NotYet(w) \/ Loses(w)
    <3>1. runs' = runs /\ (row' = row \/ \E k \in Keys : row' = Skipped(k, w))
      <4>1. runs' = runs
        BY <2>4 DEF Pick, NotYet, Loses, StaysPut
      <4>2. Polling(w, "vouch") => poll[w].key \in Keys
        BY PollType DEF Places, Polled
      <4> QED
        BY <2>4, <4>1, <4>2, PickFields DEF NotYet, Loses, Clear
    <3> QED
      BY <1>1, <3>1, SameRuns, SkippedRewritten, RunsKept
  <2>5. CASE \/ Begin(w) \/ Judge(w) \/ ReadChecks(w) \/ ReadComments(w) \/ Refuse(w) \/ GivesUp(w) \/ Finish(w)
             \/ CannotRead(w) \/ Errs(w) \/ CannotVouch(w) \/ OtherLogin(w)
    BY <1>1, <2>5 DEF Begin, Judge, ReadChecks, ReadComments, Refuse, GivesUp, Finish, CannotRead, Errs, CannotVouch, OtherLogin, StaysPut
  <2> QED
    BY <1>2, <2>1, <2>2, <2>3, <2>4, <2>5 DEF Polls, Answered, Fault
<1>3. ASSUME NEW w \in Watchers, Owner(w)
      PROVE  UNCHANGED <<row, runs>>
  BY <1>3 DEF Owner, OwnerDoes, Pause, Resume, Trusts, EditBegins, EditApplies, Delete
<1>4. ASSUME Outside \/ Stop \/ Restart \/ UNCHANGED vars
      PROVE  RunsInv'
  <2>1. \/ UNCHANGED <<row, runs>>
        \/ \E r \in DOMAIN runs, s \in {"over", "unready", "hopeless"} : RunEnds(r, s)
    BY <1>4 DEF Outside, Stop, Restart, vars, Tick, Listed, CheckFails, Closes, Arrives, Asks
  <2> QED
    BY <1>1, <2>1, RunEndsStep
<1> QED
  BY <1>1, <1>2, <1>3, <1>4 DEF Next

(* What the counts come to.                                                    *)
LEMMA AtMostOne ==
    ASSUME NEW S, \A x, y \in S : x = y
    PROVE  IsFiniteSet(S) /\ Cardinality(S) <= 1
<1>1. CASE S = {}
  BY <1>1, FS_EmptySet
<1>2. CASE S # {}
  <2>1. PICK x : x \in S
    BY <1>2
  <2>2. S = {x}
    BY <2>1
  <2>3. IsFiniteSet({x}) /\ Cardinality({x}) = 1
    BY FS_Singleton
  <2> QED
    BY <2>2, <2>3
<1> QED
  BY <1>1, <1>2

LEMMA RunsCounted ==
    ASSUME TypeOK, RunsInv
    PROVE  RunsOnce
<1>1. Cardinality({r \in Recorded : Active(r)}) <= 1
  <2> DEFINE S == {r \in Recorded : Active(r)}
  <2>1. \A x, y \in S : x = y
    BY DEF RunsInv
  <2> HIDE DEF S
  <2>2. Cardinality(S) <= 1
    BY <2>1, AtMostOne
  <2> QED
    BY <2>2 DEF S
<1>2. ASSUME NEW k \in Keys
      PROVE  Cardinality({r \in Of(k) : Worked(r)}) <= 1 /\ Cardinality(Of(k)) <= SetupTries
  <2> DEFINE S == {r \in Of(k) : Worked(r)}
  <2>1. \A x, y \in S : x = y
    BY DEF RunsInv, Owns, Of
  <2>2. Cardinality(S) <= 1
    <3> HIDE DEF S
    <3> QED
      BY <2>1, AtMostOne
  <2>3. row[k].tries \in Nat /\ Cardinality(Of(k)) = Tally(k) /\ InTries(k)
    <3>1. row[k] \in Events
      BY DEF TypeOK
    <3> QED
      BY <3>1 DEF RunsInv, Counted, Events
  <2>4. Cardinality(Of(k)) <= SetupTries
    BY <2>3, Constants DEF Tally, InTries
  <2> QED
    BY <2>2, <2>4
<1> QED
  BY <1>1, <1>2 DEF RunsOnce, Of

-----------------------------------------------------------------------------
(* Comments.  What no step takes back: a run of an event, that it is recorded, *)
(* and a watch deleted; and what was read of a comment nobody took up.         *)
LEMMA RunsBack ==
    ASSUME TypeOK, [Next]_vars, NEW r \in DOMAIN runs
    PROVE  r \in DOMAIN runs' /\ runs'[r].key = runs[r].key /\ runs'[r].bound = runs[r].bound
<1>1. runs \in Seq(RunRecords) /\ runs[r] \in RunRecords /\ DOMAIN runs = 1..Len(runs) /\ Len(runs) \in Nat
  BY DEF TypeOK
<1>2. ASSUME NEW x, runs' = Append(runs, x)
      PROVE  r \in DOMAIN runs' /\ runs'[r] = runs[r]
  BY <1>1, <1>2, Appended
<1>3. ASSUME NEW i \in DOMAIN runs, NEW s, RunEnds(i, s)
      PROVE  r \in DOMAIN runs' /\ runs'[r].key = runs[r].key /\ runs'[r].bound = runs[r].bound
  <2>1. runs' = [runs EXCEPT ![i] = [runs[i] EXCEPT !.status = s]] /\ runs[i] \in RunRecords
    BY <1>1, <1>3 DEF RunEnds
  <2>2. [runs[i] EXCEPT !.status = s].key = runs[i].key /\ [runs[i] EXCEPT !.status = s].bound = runs[i].bound
    BY <2>1 DEF RunRecords
  <2> QED
    BY <1>1, <2>1, <2>2
<1>4. ASSUME NEW w \in Watchers, Polls(w) \/ Fault(w) \/ Owner(w)
      PROVE  runs' = runs \/ \E x : runs' = Append(runs, x)
  BY <1>4 DEF Owner, OwnerDoes, Pause, Resume, Trusts, EditBegins, EditApplies, Delete,
     Polls, Answered, Fault, StaysPut, Starts, Begin, Known, Targets, Judge, ReadChecks, ReadComments, NotYet, Refuse,
     GivesUp, Loses, Start, StartUnbound, Pick, Finish, CannotRead, Errs, CannotVouch, OtherLogin, StartRefused, CutStart
<1>5. Outside \/ Stop \/ Restart \/ UNCHANGED vars => runs' = runs \/ \E i \in DOMAIN runs : \E s : RunEnds(i, s)
  BY DEF Outside, Stop, Restart, vars, Tick, Listed, CheckFails, Closes, Arrives, Asks
<1> QED
  BY <1>2, <1>3, <1>4, <1>5 DEF Next

LEMMA RowBack ==
    ASSUME TypeOK, [Next]_vars, NEW c \in Comments, row'[Review(c)].outcome = "none", row[Review(c)].outcome # "none"
    PROVE  \E w \in Watchers : StartUnbound(w) /\ poll[w].key = Review(c)
<1> DEFINE k == Review(c)
<1>1. k \in Keys /\ k[1] = "review" /\ row \in [Keys -> Events] /\ row[k] \in Events
  BY KeysType DEF TypeOK
<1> HIDE DEF k
<1>2. ASSUME NEW w \in Watchers, row' = Settled(w)
      PROVE  row'[k].outcome \in {row[k].outcome, "ignored", "retry"}
  <2> DEFINE e == row[k]
             gone == runs[e.run].status = "hopeless" \/ e.tries + 1 >= SetupTries
             tried == [e EXCEPT !.tries = @ + 1, !.settled = TRUE,
                                !.outcome = IF gone THEN "ignored" ELSE "retry", !.run = IF gone THEN @ ELSE 0]
             done == [e EXCEPT !.settled = TRUE]
  <2>1. row'[k] \in {e, done, tried}
    BY <1>1, <1>2 DEF Settled
  <2>2. done.outcome = e.outcome /\ tried.outcome \in {"ignored", "retry"}
    <3> HIDE DEF gone
    <3> QED
      BY <1>1 DEF Events
  <2> HIDE DEF done, tried
  <2> QED
    BY <2>1, <2>2
<1>3. ASSUME NEW w \in Watchers, row' = expireRetries(w)
      PROVE  row'[k].outcome \in {row[k].outcome, "ignored"}
  <2>1. row'[k] \in {row[k], [row[k] EXCEPT !.outcome = "ignored", !.settled = TRUE]}
    BY <1>1, <1>3 DEF expireRetries
  <2>2. [row[k] EXCEPT !.outcome = "ignored", !.settled = TRUE].outcome = "ignored"
    BY <1>1 DEF Events
  <2> QED
    BY <2>1, <2>2
<1>4. ASSUME NEW w \in Watchers, NEW j, row' = Skipped(j, w)
      PROVE  row'[k].outcome \in {row[k].outcome, "retry"}
  <2>1. row'[k] \in {row[k], [row[k] EXCEPT !.outcome = "retry", !.by = w]}
    BY <1>1, <1>4 DEF Skipped, Deferred
  <2>2. [row[k] EXCEPT !.outcome = "retry", !.by = w].outcome = "retry"
    BY <1>1 DEF Events
  <2> QED
    BY <2>1, <2>2
<1>5. ASSUME NEW w \in Watchers, Start(w) \/ StartRefused(w) \/ StartUnbound(w) \/ CutStart(w, TRUE) \/ CutStart(w, FALSE)
      PROVE  row'[k].outcome # "none" \/ row'[k] = row[k] \/ (StartUnbound(w) /\ poll[w].key = k)
  <2> DEFINE j == poll[w].key
  <2>1. j \in Keys
    BY <1>5, PollType DEF Start, StartRefused, StartUnbound, CutStart, Wins, Ready, Clear, Places, Polled
  <2> DEFINE back == [row EXCEPT ![j] = Released(j, w)]
  <2>2. \/ row' = Bound(j, w) \/ row' = Claimed(j, w) \/ (row' = back /\ (j[1] # "review" \/ StartUnbound(w)))
        \/ row' = [back EXCEPT ![j].outcome = "retry", ![j].by = w]
    BY <1>5 DEF Start, StartRefused, StartUnbound, CutStart
  <2>5. StartUnbound(w) => row' = back
    BY DEF StartUnbound
  <2> HIDE DEF j
  <2>3. back[j] = Released(j, w) /\ back[j] \in Events /\ back \in [Keys -> Events] /\ \A i \in Keys \ {j} : back[i] = row[i]
    BY <1>1, <2>1, LedgerType
  <2> HIDE DEF back
  <2>4. CASE j = k
    <3>1. CASE row' = Bound(j, w) \/ row' = Claimed(j, w)
      BY <2>1, <2>4, <3>1, LedgerFields
    <3>2. CASE row' = [back EXCEPT ![j].outcome = "retry", ![j].by = w]
      <4>1. [back[j] EXCEPT !.outcome = "retry", !.by = w].outcome = "retry"
        BY <2>3 DEF Events
      <4>2. row'[j] = [back[j] EXCEPT !.outcome = "retry", !.by = w]
        BY <2>1, <2>3, <3>2
      <4> QED
        BY <2>4, <4>1, <4>2
    <3> QED
      BY <1>1, <2>2, <2>4, <3>1, <3>2 DEF j
  <2>6. CASE j # k
    <3>1. CASE row' = Bound(j, w) \/ row' = Claimed(j, w)
      BY <1>1, <2>1, <2>6, <3>1, LedgerFields
    <3>2. CASE row' = back \/ row' = [back EXCEPT ![j].outcome = "retry", ![j].by = w]
      BY <1>1, <2>1, <2>3, <2>6, <3>2
    <3> QED
      BY <2>2, <3>1, <3>2
  <2> QED
    BY <2>4, <2>6
<1>6. ASSUME NEW w \in Watchers, Polls(w) \/ Fault(w)
      PROVE  \/ row' = row \/ row' = Settled(w) \/ row' = expireRetries(w) \/ \E j : row' = Skipped(j, w)
             \/ Start(w) \/ StartRefused(w) \/ StartUnbound(w) \/ CutStart(w, TRUE) \/ CutStart(w, FALSE)
  BY <1>6 DEF Polls, Answered, Fault, Begin, Known, Targets, Judge, ReadChecks, ReadComments, NotYet, Refuse,
     GivesUp, Loses, Pick, Finish, CannotRead, Errs, CannotVouch, OtherLogin
<1>7. row' = row \/ \E w \in Watchers : Polls(w) \/ Fault(w)
  BY DEF Next, Outside, Stop, Restart, vars, Tick, Listed, CheckFails, Closes, Arrives, Asks, RunEnds,
     Owner, OwnerDoes, Pause, Resume, Trusts, EditBegins, EditApplies, Delete
<1>8. row'[k].outcome = "none" /\ row[k].outcome # "none"
  BY DEF k
<1> QED
  BY <1>2, <1>3, <1>4, <1>5, <1>6, <1>7, <1>8 DEF k

LEMMA WatchBack ==
    ASSUME TypeOK, PollInv, [Next]_vars, NEW w \in Watchers
    PROVE  /\ watch'[w].on # "gone" => watch[w].on # "gone"
           /\ watch[w].floor <= watch'[w].floor
           /\ watch'[w].ok = watch[w].ok \/ Finish(w)
<1>1. watch \in [Watchers -> Records] /\ watch[w] \in Records /\ watch[w].floor \in Nat /\ now \in Nat /\ watch[w].floor <= now
  BY Constants DEF TypeOK, PollInv, WatchTimes, Records, Time
<1>2. CASE watch'[w] = watch[w]
  BY <1>1, <1>2
<1>3. CASE Owner(w)
  BY <1>1, <1>3, OwnerOfWatch
<1>4. CASE Finish(w)
  <2>1. watch'[w].on = watch[w].on /\ watch'[w].floor = watch[w].floor
    BY <1>1, <1>4 DEF Finish, Records
  <2> QED
    BY <1>1, <1>4, <2>1
<1>5. CASE OtherLogin(w)
  <2>1. watch[w].on # "gone" /\ watch'[w].ok = watch[w].ok /\ watch'[w].floor = watch[w].floor
    BY <1>1, <1>5 DEF OtherLogin, Changed, Records
  <2> QED
    BY <1>1, <2>1
<1>6. Polls(w) \/ Fault(w) => watch' = watch \/ Finish(w) \/ OtherLogin(w)
  BY PollMoves DEF Moves
<1>7. watch'[w] = watch[w] \/ Polls(w) \/ Fault(w) \/ Owner(w)
  BY OthersUntouched, WorldUntouched DEF Next, Untouched
<1> QED
  BY <1>2, <1>3, <1>4, <1>5, <1>6, <1>7

(* A comment nobody took up was there before, or was made now.                 *)
LEMMA UnclaimedBack ==
    ASSUME TypeOK, PollInv, [Next]_vars, NEW w \in Watchers, NEW c \in Comments, Unclaimed(w, c)'
    PROVE  (Unclaimed(w, c) /\ asked'[c] = asked[c]) \/ Asks(c)
<1>1. /\ \A r \in DOMAIN runs' : runs'[r].key = Review(c) => runs'[r].bound
      /\ open' /\ asked'[c] # Never /\ watch'[w].on # "gone" /\ asked'[c] >= watch'[w].floor /\ row'[Review(c)].outcome = "none"
  BY DEF Unclaimed
<1>2. open
  BY <1>1, GithubMoves
<1>3. \A r \in DOMAIN runs : runs[r].key = Review(c) => runs[r].bound
  BY <1>1, RunsBack
<1>4. row[Review(c)].outcome = "none"
  <2>1. ASSUME NEW v \in Watchers, StartUnbound(v), poll[v].key = Review(c)
        PROVE  FALSE
    <3>1. runs \in Seq(RunRecords)
      BY DEF TypeOK
    <3>2. PICK x : x = Run(v, FALSE)
      OBVIOUS
    <3>3. runs' = Append(runs, x)
      BY <2>1, <3>2 DEF StartUnbound, Starts
    <3>4. x.key = Review(c) /\ ~x.bound
      BY <2>1, <3>2 DEF Run
    <3>5. Len(runs) + 1 \in DOMAIN runs' /\ runs'[Len(runs) + 1] = x
      BY <3>1, <3>3, Appended
    <3> QED
      BY <1>1, <3>4, <3>5
  <2> QED
    BY <1>1, <2>1, RowBack
<1>5. asked'[c] = asked[c] \/ Asks(c)
  <2>1. ASSUME NEW d \in Comments, Asks(d), d # c
        PROVE  asked'[c] = asked[c]
    BY <2>1 DEF Asks, TypeOK
  <2> QED
    BY <2>1, GithubMoves
<1>6. asked'[c] = asked[c] => asked[c] >= watch[w].floor
  <2>1. watch[w].floor \in Nat /\ watch'[w].floor \in Nat /\ asked[c] \in Nat
    <3>1. watch[w] \in Records /\ asked[c] \in Time
      BY DEF TypeOK
    <3>2. watch'[w] \in Records
      BY TypeStep DEF TypeOK
    <3> QED
      BY <3>1, <3>2, Constants DEF Records, Time
  <2> QED
    BY <1>1, <2>1, WatchBack
<1> QED
  BY <1>1, <1>2, <1>3, <1>4, <1>5, <1>6, WatchBack DEF Unclaimed

(* Such a comment is in what a poll of the watch reads.                        *)
LEMMA SinceCovers ==
    ASSUME TypeOK, NEW w \in Watchers, NEW c \in Comments, Covered(w, c), Unclaimed(w, c),
           NEW is \in Records, is.ok = watch[w].ok, is.floor <= watch[w].floor
    PROVE  /\ asked[c] >= Later(Since(w, is), is.floor) /\ asked[c] >= Since(w, is)
           /\ HeldFor(w, c) \/ commentsSince(w, is) <= asked[c]
<1>1. /\ watch[w] \in Records /\ asked[c] \in Nat /\ held[w] \in Nat /\ NotHeld \in Nat
      /\ is.ok \in Nat /\ is.floor \in Nat /\ watch[w].floor \in Nat
  <2>1. watch[w] \in Records /\ asked[c] \in Time /\ held[w] \in Time \cup {NotHeld}
    BY DEF TypeOK
  <2> QED
    BY <2>1, Constants DEF Records, Time, NotHeld
<1>2. asked[c] >= is.floor
  BY <1>1 DEF Unclaimed
<1>3. is.ok = Never \/ asked[c] >= is.ok \/ HeldFor(w, c)
  BY DEF Covered
<1>4. commentsSince(w, is) \in Nat /\ (HeldFor(w, c) \/ commentsSince(w, is) <= asked[c])
  BY <1>1, <1>2, <1>3 DEF commentsSince, Later
<1>5. asked[c] >= Since(w, is) /\ Since(w, is) \in Nat
  <2>1. CASE held[w] = NotHeld
    BY <1>1, <1>4, <2>1 DEF Since, HeldFor
  <2>2. CASE held[w] # NotHeld /\ HeldFor(w, c)
    BY <1>1, <1>2, <1>4, <2>2 DEF Since, HeldFor, Later, Earlier
  <2>3. CASE held[w] # NotHeld /\ ~HeldFor(w, c)
    BY <1>1, <1>4, <2>3 DEF Since, Earlier, Later
  <2> QED
    BY <2>1, <2>2, <2>3
<1> QED
  BY <1>1, <1>2, <1>4, <1>5 DEF Later

LEMMA HoldLowers ==
    ASSUME TypeOK, NEW w \in Watchers, poll[w] \in Polled, hold(w)
    PROVE  /\ held[w] \in Nat /\ held'[w] \in Nat /\ held'[w] <= held[w]
           /\ poll[w].pr => held'[w] <= commentsSince(w, poll[w].was) /\ held'[w] # NotHeld /\ commentsSince(w, poll[w].was) \in Nat
           /\ held[w] # NotHeld => held'[w] # NotHeld
<1>1. /\ held[w] \in Nat /\ commentsSince(w, poll[w].was) \in Time /\ commentsSince(w, poll[w].was) \in Nat
      /\ NotHeld \in Nat /\ \A t \in Time : t \in Nat /\ t < NotHeld
  BY TimesType
<1>2. held'[w] = IF poll[w].pr THEN Earlier(held[w], commentsSince(w, poll[w].was)) ELSE held[w]
  BY DEF hold, TypeOK
<1>3. commentsSince(w, poll[w].was) < NotHeld /\ held[w] <= NotHeld
  <2>1. held[w] \in Time \cup {NotHeld}
    BY DEF TypeOK
  <2> QED
    BY <1>1, <2>1
<1> QED
  BY <1>1, <1>2, <1>3 DEF Earlier

LEMMA HoldCovers ==
    ASSUME TypeOK, PollInv, NEW w \in Watchers, NEW c \in Comments, Covered(w, c), Unclaimed(w, c),
           poll[w] \in Polled, poll[w].at \in Past, hold(w), asked'[c] = asked[c]
    PROVE  HeldFor(w, c)' /\ poll[w].pr
<1>1. poll[w] # NoPoll /\ poll[w].was \in Records /\ asked[c] \in Nat
  <2>1. asked[c] \in Time
    BY DEF TypeOK
  <2> QED
    BY <2>1, PollType, Constants DEF Polled, Time, Past
<1>2. poll[w].was.ok = watch[w].ok /\ poll[w].was.floor <= watch[w].floor /\ poll[w].pr
  BY <1>1 DEF PollInv, PollSays, Unclaimed
<1>3. HeldFor(w, c) \/ commentsSince(w, poll[w].was) <= asked[c]
  BY <1>1, <1>2, SinceCovers
<1>4. /\ held[w] \in Nat /\ held'[w] \in Nat /\ held'[w] <= held[w]
      /\ held'[w] <= commentsSince(w, poll[w].was) /\ held'[w] # NotHeld /\ commentsSince(w, poll[w].was) \in Nat
  BY <1>2, HoldLowers
<1> QED
  BY <1>1, <1>2, <1>3, <1>4 DEF HeldFor

LEMMA HeldBack ==
    ASSUME TypeOK, [Next]_vars, NEW w \in Watchers
    PROVE  \/ held'[w] = held[w] \/ Finish(w) \/ Delete(w) \/ (Targets(w) /\ ~open)
           \/ hold(w) /\ poll[w] \in Polled /\ (Judge(w) \/ ReadChecks(w) \/ Refuse(w))
<1>1. Owner(w) => held' = held \/ Delete(w)
  BY DEF Owner, OwnerDoes, Pause, Resume, Trusts, EditBegins, EditApplies
<1>2. Polls(w) \/ Fault(w) => \/ held' = held \/ Finish(w) \/ (Targets(w) /\ ~open)
                              \/ hold(w) /\ (Judge(w) \/ ReadChecks(w) \/ Refuse(w))
  BY DEF Polls, Answered, Fault, judgments, Begin, Known, Targets, Judge, ReadChecks, ReadComments, NotYet, Refuse, Wins, Vouch,
     GivesUp, Loses, Start, Pick, CannotRead, Errs, CannotVouch, OtherLogin, StartRefused, StartUnbound, CutStart
<1>3. Judge(w) \/ ReadChecks(w) \/ Refuse(w) => poll[w] \in Polled
  BY PollType DEF Judge, ReadChecks, Refuse, Places
<1>4. held'[w] = held[w] \/ Polls(w) \/ Fault(w) \/ Owner(w)
  BY OthersUntouched, WorldUntouched DEF Next, Untouched
<1> QED
  BY <1>1, <1>2, <1>3, <1>4

LEMMA CoveredStep ==
    ASSUME TypeOK, PollInv, ViewInv, [Next]_vars, NEW w \in Watchers, NEW c \in Comments
    PROVE  Covered(w, c)'
<1> SUFFICES ASSUME Unclaimed(w, c)'
             PROVE  (watch[w].ok = Never \/ asked[c] >= watch[w].ok \/ HeldFor(w, c))'
  BY DEF Covered
<1>1. watch[w] \in Records /\ watch[w].ok \in Nat /\ now \in Nat /\ watch[w].ok <= now /\ asked[c] \in Nat
  <2>1. watch[w] \in Records /\ asked[c] \in Time
    BY DEF TypeOK
  <2> QED
    BY <2>1, Constants DEF TypeOK, PollInv, WatchTimes, Records, Time
<1>2. CASE Asks(c)
  <2>1. asked'[c] = now /\ watch' = watch
    BY <1>2 DEF Asks, TypeOK
  <2> QED
    BY <1>1, <2>1
<1>3. CASE Unclaimed(w, c) /\ asked'[c] = asked[c]
  <2>1. Covered(w, c) /\ Carried(w, c)
    BY DEF ViewInv
  <2>2. CASE Finish(w)
    <3>1. poll[w] \in Polled /\ poll[w] # NoPoll /\ poll[w].at = "act" /\ poll[w].todo = {} /\ poll[w].now \in Nat
      BY <2>2, PollType, Constants DEF Finish, Polling, Places, Polled, Time, NoPoll
    <3>2. CASE poll[w].ok
      <4>1. watch'[w].ok = poll[w].now
        BY <1>1, <2>2, <3>2 DEF Finish, TypeOK, Records
      <4>2. CASE asked[c] < poll[w].now
        <5>1. HeldFor(w, c) /\ (poll[w].holds \/ ~poll[w].released)
          BY <1>3, <2>1, <3>1, <3>2, <4>2 DEF Carried
        <5>2. held' = held
          BY <2>2, <5>1 DEF Finish
        <5> QED
          BY <1>3, <5>1, <5>2 DEF HeldFor
      <4> QED
        BY <1>1, <1>3, <3>1, <4>1, <4>2
    <3>3. CASE ~poll[w].ok
      BY <1>3, <2>1, <2>2, <3>3 DEF Finish, Covered, HeldFor
    <3> QED
      BY <3>2, <3>3
  <2>3. CASE ~Finish(w)
    <3>1. watch'[w].ok = watch[w].ok
      BY <2>3, WatchBack
    <3>2. HeldFor(w, c) => HeldFor(w, c)'
      <4>1. CASE held'[w] = held[w]
        BY <1>3, <4>1 DEF HeldFor
      <4>2. CASE Delete(w) \/ (Targets(w) /\ ~open)
        <5>1. Delete(w) => watch'[w].on = "gone"
          BY <1>1 DEF Delete, TypeOK, Records
        <5> QED
          BY <1>3, <4>2, <5>1 DEF Unclaimed
      <4>3. CASE hold(w) /\ poll[w] \in Polled
        BY <1>1, <1>3, <4>3, HoldLowers DEF HeldFor
      <4> QED
        BY <2>3, <4>1, <4>2, <4>3, HeldBack
    <3> QED
      BY <1>3, <2>1, <3>1, <3>2 DEF Covered
  <2> QED
    BY <2>2, <2>3
<1> QED
  BY <1>2, <1>3, UnclaimedBack

(* The last stage of a poll, step by step.                                     *)
Acting(w) == poll[w] # NoPoll /\ poll[w].at \in {"act", "vouch"} /\ poll[w].ok
Minds(w, c) == Review(c) \in poll[w].todo \/ (HeldFor(w, c) /\ (poll[w].holds \/ ~poll[w].released))

LEMMA DropsCarry ==
    ASSUME NEW w \in Watchers, NEW c \in Comments, NEW k, Drops(w, k), held' = held, asked' = asked, k # Review(c),
           poll'[w].holds = poll[w].holds, poll[w].at \in {"act", "vouch"}, Acting(w) => Minds(w, c), Acting(w)'
    PROVE  Minds(w, c)'
<1>1. /\ poll'[w].todo = poll[w].todo \ {k} /\ poll'[w].released = poll[w].released /\ poll'[w].ok = poll[w].ok
      /\ poll[w] \in Polled
  BY DEF Drops, GoesOn, Kept
<1>2. poll[w] # NoPoll
  BY <1>1 DEF NoPoll
<1> QED
  BY <1>1, <1>2 DEF Acting, Minds, HeldFor

LEMMA SkippedIsClaimed ==
    ASSUME TypeOK, NEW w \in Watchers, NEW c \in Comments, row' = Skipped(Review(c), w), row[Review(c)].outcome = "none"
    PROVE  row'[Review(c)].outcome = "retry"
<1>1. Review(c) \in Keys /\ Review(c)[1] = "review" /\ row \in [Keys -> Events] /\ row[Review(c)] \in Events
  BY KeysType DEF TypeOK
<1>2. row'[Review(c)] = [row[Review(c)] EXCEPT !.outcome = "retry", !.by = w]
  BY <1>1 DEF Skipped, Deferred, Unseen
<1>3. [row[Review(c)] EXCEPT !.outcome = "retry", !.by = w].outcome = "retry"
  BY <1>1 DEF Events
<1> QED
  BY <1>2, <1>3

LEMMA CarriedByPoll ==
    ASSUME TypeOK, PollInv, ViewInv, NEW w \in Watchers, Polls(w) \/ Fault(w), NEW c \in Comments,
           Unclaimed(w, c), Unclaimed(w, c)', asked' = asked, asked[c] < poll'[w].now, Acting(w)'
    PROVE  Minds(w, c)'
<1>1. /\ Covered(w, c) /\ Carried(w, c) /\ row[Review(c)].outcome = "none" /\ row'[Review(c)].outcome = "none"
      /\ open /\ open' /\ asked[c] # Never /\ Unseen(Review(c))
  BY DEF ViewInv, Unclaimed, Unseen
<1>2. poll'[w] # NoPoll /\ poll'[w].at \in {"act", "vouch"} /\ poll'[w].ok
  BY DEF Acting
<1>3. ASSUME GoesOn(w)
      PROVE  /\ poll[w] \in Polled /\ poll[w] # NoPoll /\ poll[w].at \in Past /\ poll[w].pr
             /\ Acting(w) => Minds(w, c)
  <2>1. poll[w] \in Polled /\ poll[w] # NoPoll /\ poll[w].at \in Past /\ poll'[w].now = poll[w].now
    BY <1>3, PollType DEF GoesOn, Kept, Past
  <2>2. poll[w].pr
    BY <1>1, <2>1 DEF PollInv, PollSays
  <2> QED
    BY <1>1, <2>1, <2>2 DEF Carried, Acting, Minds
<1>4. CASE Begin(w) \/ Known(w) \/ Targets(w) \/ Judge(w) \/ Errs(w) \/ CannotRead(w) \/ OtherLogin(w) \/ Finish(w)
           \/ CutStart(w, TRUE) \/ CutStart(w, FALSE)
  <2>1. Judge(w) \/ Known(w) \/ Targets(w) \/ Errs(w) => ~(poll'[w].at \in {"act", "vouch"} /\ poll'[w].ok)
    BY JudgeFields, KnownFields, TargetsFields, ErrsFields DEF Aborts
  <2>2. CannotRead(w) \/ OtherLogin(w) \/ Finish(w) \/ CutStart(w, TRUE) \/ CutStart(w, FALSE) => poll'[w] = NoPoll
    BY GoesTo DEF CannotRead, OtherLogin, Finish, CutStart, Forgets
  <2>3. Begin(w) => poll'[w].at = "me"
    BY GoesTo DEF Begin
  <2> QED
    BY <1>2, <1>4, <2>1, <2>2, <2>3
<1>5. CASE ReadChecks(w)
  <2>1. /\ GoesOn(w)
        /\ IF poll[w].head \in refused[w] THEN hold(w) /\ poll'[w].holds = poll[w].pr
           ELSE poll'[w].at = "comments" \/ (poll'[w].at = "act" /\ ~poll[w].pr)
    BY <1>5, ChecksFields
  <2>2. hold(w) /\ poll'[w].holds
    BY <1>2, <1>3, <2>1
  <2> QED
    BY <1>1, <1>3, <2>1, <2>2, HoldCovers DEF Minds
<1>6. CASE ReadComments(w)
  <2>1. /\ GoesOn(w)
        /\ asked[c] >= Later(Since(w, poll[w].was), poll[w].was.floor) => Review(c) \in poll'[w].todo
    BY <1>1, <1>6, CommentsFields
  <2>2. poll[w] \in Polled /\ poll[w] # NoPoll
    BY <1>3, <2>1
  <2>3. poll[w].was \in Records /\ poll[w].was.ok = watch[w].ok /\ poll[w].was.floor <= watch[w].floor
    BY <2>2 DEF Polled, PollInv, PollSays
  <2>4. asked[c] >= Later(Since(w, poll[w].was), poll[w].was.floor)
    BY <1>1, <2>3, SinceCovers
  <2> QED
    BY <2>1, <2>4 DEF Minds
<1>7. CASE Pick(w)
  <2>1. held' = held
    BY <1>7 DEF Pick, judgments
  <2>2. GoesOn(w) /\ poll[w].at = "act"
    BY <1>7, PickFields
  <2>3. CASE Aborts(w)
    BY <1>2, <2>3 DEF Aborts
  <2>4. CASE /\ poll'[w].at = "vouch" /\ poll'[w].todo = poll[w].todo /\ poll'[w].ok = poll[w].ok /\ poll'[w].holds = poll[w].holds
             /\ poll'[w].released = poll[w].released
    BY <1>2, <1>3, <2>1, <2>2, <2>4 DEF Acting, Minds, HeldFor
  <2>5. ASSUME NEW k \in Keys, Drops(w, k), poll'[w].holds = poll[w].holds, row' = Skipped(k, w)
        PROVE  Minds(w, c)'
    <3>1. k # Review(c)
      BY <1>1, <2>5, SkippedIsClaimed
    <3> QED
      BY <1>3, <2>1, <2>2, <2>5, <3>1, DropsCarry
  <2> QED
    BY <1>7, <2>3, <2>4, <2>5, PickFields
<1>8. CASE CannotVouch(w) \/ NotYet(w) \/ Refuse(w) \/ GivesUp(w) \/ Loses(w) \/ Start(w) \/ StartRefused(w) \/ StartUnbound(w)
  <2>1. poll[w] \in Polled /\ poll[w].at = "vouch" /\ poll[w].at \in Past /\ Busy(w) \in BOOLEAN
    <3>1. poll[w] \in Polled /\ poll[w].at = "vouch"
      BY <1>8, PollType DEF Polling, Places, CannotVouch, NotYet, Refuse, GivesUp, Loses, Start, StartRefused, StartUnbound, Wins, Ready, Clear
    <3> QED
      BY <3>1 DEF Busy, Polled, Past
  <2>2. CASE Incomplete(w) \/ CannotVouch(w) \/ StartUnbound(w)
    <3>1. Aborts(w)
      BY <2>1, <2>2, IncompleteFields, ActFields DEF CannotVouch, StartUnbound
    <3> QED
      BY <1>2, <3>1 DEF Aborts
  <2>3. CASE Refuse(w) /\ ~Incomplete(w)
    <3>1. hold(w) /\ Goes(w, [Acted(w) EXCEPT !.holds = poll[w].pr, !.verdict = Ruling(w)])
      BY <2>3 DEF Refuse
    <3>2. GoesOn(w) /\ poll'[w].holds = poll[w].pr
      BY <2>1, <3>1, ActFields DEF Drops
    <3> QED
      BY <1>1, <1>3, <3>1, <3>2, HoldCovers DEF Minds
  <2>4. ASSUME \E b \in BOOLEAN : \/ Goes(w, [Acted(w) EXCEPT !.verdict = "lag"]) \/ Goes(w, [Acted(w) EXCEPT !.verdict = "yes"])
                                  \/ Goes(w, [Acted(w) EXCEPT !.busy = b, !.verdict = "yes"]),
               held' = held, poll[w].key # Review(c)
        PROVE  Minds(w, c)'
    <3>1. Drops(w, poll[w].key) /\ poll'[w].holds = poll[w].holds
      BY <2>1, <2>4, ActFields
    <3>2. PICK k : k = poll[w].key
      OBVIOUS
    <3>3. GoesOn(w)
      BY <3>1 DEF Drops
    <3> QED
      BY <1>3, <2>1, <2>4, <3>1, <3>2, <3>3, DropsCarry
  <2>5. CASE NotYet(w)
    <3>1. row' = Skipped(poll[w].key, w) /\ held' = held /\ Goes(w, [Acted(w) EXCEPT !.verdict = "lag"])
      BY <2>5 DEF NotYet, judgments
    <3> QED
      BY <1>1, <2>4, <3>1, SkippedIsClaimed
  <2>6. CASE Loses(w)
    <3>1. /\ row' = Skipped(poll[w].key, w) \/ ~Unseen(poll[w].key)
          /\ held' = held /\ Goes(w, [Acted(w) EXCEPT !.busy = Busy(w), !.verdict = "yes"])
      BY <2>6 DEF Loses, Vouch
    <3> QED
      BY <1>1, <2>1, <2>4, <3>1, SkippedIsClaimed
  <2>7. CASE Start(w)
    <3>1. row' = Bound(poll[w].key, w) /\ held' = held /\ Goes(w, [Acted(w) EXCEPT !.busy = TRUE, !.verdict = "yes"])
      BY <2>7 DEF Start, Wins, Vouch
    <3>2. poll[w].key # Review(c)
      BY <1>1, <3>1, KeysType, LedgerFields
    <3> QED
      BY <2>4, <3>1, <3>2
  <2>8. CASE StartRefused(w)
    <3>1. held' = held /\ Goes(w, [Acted(w) EXCEPT !.verdict = "yes"])
      BY <2>8 DEF StartRefused, Wins, Vouch
    <3>2. ASSUME poll[w].key = Review(c)
          PROVE  FALSE
      <4> DEFINE back == [row EXCEPT ![Review(c)] = Released(Review(c), w)]
      <4>1. Review(c) \in Keys /\ Review(c)[1] = "review" /\ row \in [Keys -> Events] /\ Released(Review(c), w) \in Events
        BY KeysType, LedgerType DEF TypeOK
      <4>2. row' = [back EXCEPT ![Review(c)].outcome = "retry", ![Review(c)].by = w]
        BY <2>8, <3>2, <4>1 DEF StartRefused
      <4>3. back[Review(c)] \in Events /\ back \in [Keys -> Events]
        BY <4>1
      <4> HIDE DEF back
      <4>4. row'[Review(c)] = [back[Review(c)] EXCEPT !.outcome = "retry", !.by = w]
        BY <4>1, <4>2, <4>3
      <4>5. [back[Review(c)] EXCEPT !.outcome = "retry", !.by = w].outcome = "retry"
        BY <4>3 DEF Events
      <4> QED
        BY <1>1, <4>4, <4>5
    <3> QED
      BY <2>4, <3>1, <3>2
  <2> QED
    BY <1>8, <2>2, <2>3, <2>5, <2>6, <2>7, <2>8 DEF GivesUp
<1> QED
  BY <1>4, <1>5, <1>6, <1>7, <1>8 DEF Polls, Answered, Fault

LEMMA CarriedStep ==
    ASSUME TypeOK, PollInv, ViewInv, [Next]_vars, NEW w \in Watchers, NEW c \in Comments
    PROVE  Carried(w, c)'
<1> SUFFICES ASSUME Acting(w)', Unclaimed(w, c)', asked'[c] < poll'[w].now
             PROVE  Minds(w, c)'
  BY DEF Carried, Acting, Minds
<1>1. Carried(w, c) /\ now \in Nat
  BY Constants DEF ViewInv, TypeOK, Time
<1>2. CASE Asks(c)
  <2>1. asked'[c] = now /\ poll' = poll
    BY <1>2 DEF Asks, TypeOK, volatile
  <2>2. poll[w] # NoPoll
    BY <2>1 DEF Acting
  <2>3. poll[w].now <= now /\ poll[w].now \in Nat
    BY <2>2, PollType, Constants DEF PollInv, PollSays, Polled, Time
  <2> QED
    BY <1>1, <2>1, <2>3
<1>3. ASSUME Unclaimed(w, c), asked'[c] = asked[c], poll'[w] = poll[w], held'[w] = held[w]
      PROVE  Minds(w, c)'
  BY <1>1, <1>3 DEF Carried, Acting, Minds, HeldFor
<1>4. CASE Unclaimed(w, c) /\ asked'[c] = asked[c]
  <2>1. CASE Untouched(w)
    BY <1>3, <1>4, <2>1 DEF Untouched, Acting
  <2>2. CASE Owner(w)
    <3>1. ~Delete(w)
      <4>1. Delete(w) => watch'[w].on = "gone"
        BY DEF Delete, TypeOK, Records
      <4> QED
        BY <4>1 DEF Unclaimed
    <3>2. poll' = poll /\ held' = held
      BY <2>2, <3>1 DEF Owner, OwnerDoes, Pause, Resume, Trusts, EditBegins, EditApplies
    <3> QED
      BY <1>3, <1>4, <3>2
  <2>3. CASE Polls(w) \/ Fault(w)
    <3>1. asked' = asked
      BY <2>3, WatchKeepsGithub DEF github
    <3> QED
      BY <1>4, <2>3, <3>1, CarriedByPoll
  <2> QED
    BY <2>1, <2>2, <2>3, OthersUntouched, WorldUntouched DEF Next
<1> QED
  BY <1>2, <1>4, UnclaimedBack

LEMMA ViewStep ==
    ASSUME TypeOK, PollInv, ViewInv, [Next]_vars
    PROVE  ViewInv'
BY CoveredStep, CarriedStep DEF ViewInv

(* What is owed is not behind.                                                 *)
LEMMA ViewShows ==
    ASSUME TypeOK, ViewInv
    PROVE  CommentInView
<1> SUFFICES ASSUME NEW w \in Watchers, NEW c \in Comments, Owed(w, c)
             PROVE  asked[c] >= Since(w, watch[w])
  BY DEF CommentInView
<1>1. /\ watch[w] \in Records /\ asked[c] \in Nat /\ watch[w].floor \in Nat /\ watch[w].ok \in Nat
      /\ held[w] \in Nat /\ asked[c] >= watch[w].floor
  <2>1. watch[w] \in Records /\ asked[c] \in Time /\ held[w] \in Time \cup {NotHeld}
    BY DEF TypeOK
  <2> QED
    BY <2>1, Constants DEF Records, Time, NotHeld, Owed
<1>2. CASE row[Review(c)].outcome = "none"
  <2>1. Unclaimed(w, c) /\ Covered(w, c)
    BY <1>2 DEF Owed, Unclaimed, ViewInv
  <2> QED
    BY <1>1, <2>1, SinceCovers
<1>3. CASE row[Review(c)].outcome = "retry" /\ row[Review(c)].by = w
  <2>1. hasRetries(w)
    BY <1>3 DEF hasRetries
  <2> QED
    BY <1>1, <2>1 DEF Since, commentsSince, Earlier, Later
<1> QED
  BY <1>2, <1>3 DEF Owed

-----------------------------------------------------------------------------
(* The invariant.                                                              *)
LEMMA InitInv ==
    ASSUME Init
    PROVE  IInv
<1>1. TypeOK
  BY InitTypes
<1>2. /\ now = 1 /\ Branch = 1 /\ runs = <<>> /\ \A c \in Comments : asked[c] = 0
      /\ \A k \in Keys : row[k] = NoRow
      /\ \A w \in Watchers : poll[w] = NoPoll /\ edit[w].head = 0 /\ trusted[w].head = 0 /\ watch[w].ok = 0 /\ watch[w].floor = 1
  BY DEF Init, Branch, NoEdit, Never
<1>3. PollInv
  BY <1>2 DEF PollInv, PollSays, WatchTimes
<1>4. TrustInv
  BY <1>2 DEF TrustInv, Remembers, Judged
<1>5. RunsInv
  <2>1. Recorded = {}
    BY <1>2 DEF Recorded
  <2>2. ASSUME NEW k \in Keys
        PROVE  Counted(k)
    <3>1. Of(k) = {}
      BY <2>1 DEF Of
    <3>2. Tally(k) = 0 /\ InTries(k)
      BY <1>2, NoRowType, Constants DEF Tally, InTries
    <3> QED
      BY <3>1, <3>2, FS_EmptySet DEF Counted
  <2> QED
    BY <2>1, <2>2 DEF RunsInv
<1>6. ViewInv
  BY <1>2 DEF ViewInv, Covered, Carried, Never
<1> QED
  BY <1>1, <1>3, <1>4, <1>5, <1>6 DEF IInv

LEMMA StepInv ==
    ASSUME IInv, [Next]_vars
    PROVE  IInv'
BY TypeStep, PollStep, TrustStep, RunsStep, ViewStep DEF IInv

(* What a poll and a watch hold in any reachable state.                        *)
THEOREM WatchesHold == Spec => []IInv
<1>1. Init => IInv
  BY InitInv
<1>2. IInv /\ [Next]_vars => IInv'
  BY StepInv
<1> QED
  BY <1>1, <1>2, PTL DEF Spec

(* Every variable keeps its type.                                              *)
THEOREM TypeCorrect == Spec => []TypeOK
<1>1. IInv => TypeOK
  BY DEF IInv
<1> QED
  BY <1>1, WatchesHold, PTL

(* A run is started only for a watch that is on, on a head that is trusted     *)
(* under the list the watch has then (#vouchedHead, #unchanged).               *)
THEOREM TrustedStarts == Spec => VouchedStarts
<1>1. IInv /\ [Next]_vars =>
        \A r \in DOMAIN runs' \ DOMAIN runs :
          LET w == runs'[r].watch IN watch[w].on = "on" /\ Sound(runs'[r].head, watch[w].trust, vouched[w])
  BY StartStep DEF IInv
<1>2. IInv /\ [Next]_vars =>
        [\A r \in DOMAIN runs' \ DOMAIN runs :
          LET w == runs'[r].watch IN watch[w].on = "on" /\ Sound(runs'[r].head, watch[w].trust, vouched[w])]_vars
  BY <1>1
<1> QED
  BY <1>2, WatchesHold, PTL DEF Spec, VouchedStarts

(* One run at a time works on the branch, and an event gets one that works and *)
(* no more than SETUP_TRIES in all (claim, runsOnBranch, retryOrGiveUp).       *)
THEOREM OneRun == Spec => []RunsOnce
<1>1. IInv => RunsOnce
  BY RunsCounted DEF IInv
<1> QED
  BY <1>1, WatchesHold, PTL

(* A comment that waits for a watch is never behind what its next poll reads   *)
(* (commentsSince, hold, markPolled).                                          *)
THEOREM InView == Spec => []CommentInView
<1>1. IInv => CommentInView
  BY ViewShows DEF IInv
<1> QED
  BY <1>1, WatchesHold, PTL

=============================================================================
