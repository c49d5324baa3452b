------------------------------ MODULE Watches ------------------------------
(* The loop watches of one owner on one branch and its pull request            *)
(* (src/src/daemon/loops/watch-service.ts, watch-store.ts): the polls, which   *)
(* overlap, the ledger of events and the runs started for them, where each     *)
(* watch reads comments from, and whose pushes and merges it trusts.           *)
(*                                                                             *)
(* Grain.  A poll is one action per answer of GitHub, with the synchronous     *)
(* code up to the next call; a judgment reads the store once.  The writes of a *)
(* start have no await between them, and only a crash or an error falls there. *)
(* A time is a tick of one clock; the skews allowed for are zero, which reads  *)
(* less than the code does.  External: GitHub (the branch, its activity,       *)
(* comments, checks) and the runs.                                             *)
EXTENDS Naturals, FiniteSets, Sequences

CONSTANTS
    Watchers,
    Logins, Me,         \* GitHub logins; the owner's
    Comments,
    MaxHeads,           \* bound: heads the branch has had
    MaxTime,            \* bound: ticks
    SetupTries,         \* SETUP_TRIES
    Mixes               \* bound: what may happen in one behaviour, and how often

Changes == {"pause", "trust", "vouch", "delete", "login", "stop", "close"}
Lists == {T \in SUBSET Logins : Me \in T}       \* the logins a watch trusts: gh's own, and `trust`

ASSUME ConstantsAssumption ==
    /\ Watchers # {} /\ Me \in Logins /\ {MaxHeads, MaxTime, SetupTries} \subseteq Nat \ {0}
    /\ Mixes \subseteq [kinds : SUBSET Changes, watchers : SUBSET Watchers, trust : Lists,
                        ticks : Nat, arrivals : Nat, reds : Nat, asks : Nat,
                        changes : Nat, fails : Nat, refusals : Nat, unready : Nat, crashes : Nat]

HeadIds == 1..MaxHeads
Ci(h) == <<"ci", h>>
Review(c) == <<"review", c>>
Keys == {Ci(h) : h \in HeadIds} \cup {Review(c) : c \in Comments}
Time == 0..MaxTime
Never == 0
NotHeld == MaxTime + 1

VARIABLES
    now,
    heads,      \* the branch's heads so far, each with what put it there and whether the activity lists it
    red,        \* heads a mapped check failed on
    asked,      \* when a comment was made
    open,       \* the pull request is
    watch,      \* loop_watches
    row,        \* loop_triggers: events
    refused,    \* loop_triggers: heads a watch judged untrusted
    trusted,    \* loop_watch_trusted_heads
    held,       \* loop_watch_held_prs: the floor
    runs,       \* the runs started, oldest first
    poll,       \* #inflight: the poll of each watch
    unlisted,   \* #unlisted
    edit,       \* an update that awaits the heads it vouches for
    stopping,
    mix,        \* bound: one of Mixes, counted down
    vouched     \* history: heads the owner vouched for and has not ceased to

github == <<now, heads, red, asked, open>>
judgments == <<refused, trusted, held>>
volatile == <<poll, unlisted, edit, stopping>>
vars == <<github, watch, row, judgments, runs, volatile, mix, vouched>>

Branch == Len(heads)
NoRow == [outcome |-> "none", run |-> 0, tries |-> 0, settled |-> TRUE, by |-> CHOOSE w \in Watchers : TRUE]
NoPoll == [at |-> "no"]
NoEdit == [head |-> 0, trust |-> {}]

Init ==
    /\ now = 1
    /\ heads \in {<<[how |-> "push", by |-> l, listed |-> TRUE]>> : l \in Logins}
    /\ red = {} /\ asked = [c \in Comments |-> Never] /\ open = TRUE
    /\ mix \in Mixes
    /\ watch = [w \in Watchers |-> [on |-> IF w \in mix.watchers THEN "on" ELSE "gone", trust |-> mix.trust, changed |-> 0, ok |-> Never, floor |-> 1]]
    /\ row = [k \in Keys |-> NoRow]
    /\ refused = [w \in Watchers |-> {}] /\ trusted = [w \in Watchers |-> [head |-> 0, under |-> {}]]
    /\ held = [w \in Watchers |-> NotHeld]
    /\ runs = <<>>
    /\ poll = [w \in Watchers |-> NoPoll] /\ unlisted = [w \in Watchers |-> {}]
    /\ edit = [w \in Watchers |-> NoEdit] /\ stopping = FALSE
    /\ vouched = [w \in Watchers |-> {}]

-----------------------------------------------------------------------------
(* The bounds.                                                                 *)
Spends(what) == mix[what] > 0 /\ mix' = [mix EXCEPT ![what] = @ - 1]
May(kind) == kind \in mix.kinds /\ Spends("changes")

-----------------------------------------------------------------------------
(* GitHub, and the runs.                                                       *)

Tick == /\ now < MaxTime /\ Spends("ticks") /\ now' = now + 1
        /\ UNCHANGED <<heads, red, asked, open, watch, row, judgments, runs, volatile, vouched>>

\* The activity lists the newest change late; an older one it has listed by then.
Arrives(how, login) ==
    /\ Branch < MaxHeads /\ Spends("arrivals")
    /\ heads' = Append([i \in DOMAIN heads |-> [heads[i] EXCEPT !.listed = TRUE]],
                       [how |-> how, by |-> login, listed |-> FALSE])
    /\ UNCHANGED <<now, red, asked, open, watch, row, judgments, runs, volatile, vouched>>
Listed ==
    /\ ~heads[Branch].listed
    /\ heads' = [heads EXCEPT ![Branch].listed = TRUE]
    /\ UNCHANGED <<now, red, asked, open, watch, row, judgments, runs, volatile, mix, vouched>>
CheckFails ==
    /\ Branch \notin red /\ Spends("reds") /\ red' = red \cup {Branch}
    /\ UNCHANGED <<now, heads, asked, open, watch, row, judgments, runs, volatile, vouched>>
Asks(c) ==
    /\ open /\ asked[c] = Never /\ Spends("asks") /\ asked' = [asked EXCEPT ![c] = now]
    /\ UNCHANGED <<now, heads, red, open, watch, row, judgments, runs, volatile, vouched>>
Closes ==
    /\ open /\ May("close") /\ open' = FALSE
    /\ UNCHANGED <<now, heads, red, asked, watch, row, judgments, runs, volatile, vouched>>

Active(r) == r # 0 /\ runs[r].status = "active"
\* Over; or never had its workspace, which another try may mend or not.
RunEnds(r, status) ==
    /\ Active(r) /\ runs' = [runs EXCEPT ![r].status = status]
    /\ IF status = "over" THEN UNCHANGED mix ELSE Spends("unready")
    /\ UNCHANGED <<github, watch, row, judgments, volatile, vouched>>

-----------------------------------------------------------------------------
(* The ledger.                                                                 *)

Unseen(k) == row[k].outcome \in {"none", "retry"}
hasRetries(w) == \E c \in Comments : row[Review(c)].outcome = "retry" /\ row[Review(c)].by = w
runsOnBranch == {row[k].run : k \in {k \in Keys : row[k].run # 0 /\ ~row[k].settled}}

Deferred(k, w) == IF Unseen(k) THEN [row[k] EXCEPT !.outcome = "retry", !.by = w] ELSE row[k]
SkippedForgets(k, w) == row
\* Only a comment is kept waiting: a failing check is seen on every poll.
Skipped(k, w) == IF k[1] = "review" THEN [row EXCEPT ![k] = Deferred(k, w)] ELSE row
\* claim, startRun, bind.
Bound(k, w) == [row EXCEPT ![k] = [@ EXCEPT !.outcome = "run", !.run = Len(runs) + 1, !.settled = FALSE, !.by = w]]
Claimed(k, w) == [row EXCEPT ![k] = [@ EXCEPT !.outcome = "run", !.run = 0, !.settled = FALSE, !.by = w]]
\* release: a key that never had a run is forgotten, another goes back to waiting.
Released(k, w) == IF row[k].tries = 0 THEN NoRow ELSE [Claimed(k, w)[k] EXCEPT !.outcome = "retry"]

\* #settle: settle, or retryOrGiveUp.
Settled(w) ==
    [k \in Keys |->
        LET e == row[k]
            gone == runs[e.run].status = "hopeless" \/ e.tries + 1 >= SetupTries
        IN  IF ~(e.by = w /\ e.run # 0 /\ ~e.settled /\ e.outcome = "run") \/ Active(e.run) THEN e
            ELSE IF runs[e.run].status = "over" THEN [e EXCEPT !.settled = TRUE]
            ELSE [e EXCEPT !.tries = @ + 1, !.settled = TRUE,
                           !.outcome = IF gone THEN "ignored" ELSE "retry", !.run = IF gone THEN @ ELSE 0]]

expireRetries(w) ==
    [k \in Keys |-> IF ~open /\ k[1] = "review" /\ row[k].outcome = "retry" /\ row[k].by = w
                    THEN [row[k] EXCEPT !.outcome = "ignored", !.settled = TRUE] ELSE row[k]]

-----------------------------------------------------------------------------
(* Where comments are read from.                                               *)

Later(s, t) == IF s > t THEN s ELSE t
Earlier(s, t) == IF s < t THEN s ELSE t
commentsSince(w, is) == IF is.ok # Never /\ ~hasRetries(w) THEN Later(is.floor, is.ok) ELSE is.floor
Since(w, is) ==
    IF held[w] = NotHeld THEN commentsSince(w, is) ELSE Earlier(commentsSince(w, is), Later(held[w], is.floor))
holdLatest(w) == held' = [held EXCEPT ![w] = IF poll[w].pr THEN commentsSince(w, poll[w].was) ELSE @]
hold(w) == held' = [held EXCEPT ![w] = IF poll[w].pr THEN Earlier(@, commentsSince(w, poll[w].was)) ELSE @]

-----------------------------------------------------------------------------
(* Trust.                                                                      *)

lastTrusted(w, T) == IF trusted[w].under = T /\ watch[w].trust = T THEN trusted[w].head ELSE 0

\* #chainUntrusted: from merge to merge down to a trusted push, or the head remembered.
Chained(w, T, h) ==
    \E k \in 1..h :
        /\ k = lastTrusted(w, T) \/ (heads[k].how = "push" /\ heads[k].by \in T)
        /\ \A j \in (k + 1)..h : heads[j].how = "merge" /\ heads[j].by \in T
        /\ \A j \in k..(h - 1) : j = lastTrusted(w, T) \/ j \notin refused[w]

Verdict(w, h, T) ==
    IF lastTrusted(w, T) = h THEN "yes"
    ELSE IF ~heads[h].listed THEN "lag"
    ELSE IF Chained(w, T, h) THEN "yes" ELSE "no"

remember(w, h, T) == trusted' = [trusted EXCEPT ![w] = [head |-> h, under |-> T]]
ignoreHead(w, h) == refused' = [refused EXCEPT ![w] = @ \cup {h}]

-----------------------------------------------------------------------------
(* A poll.                                                                     *)

Polling(w, at) == poll[w].at = at
Goes(w, next) == poll' = [poll EXCEPT ![w] = next]
Fresh(w) == watch[w].on # "gone" /\ watch[w].changed = poll[w].was.changed
Fails == Spends("fails")
StaysPut == UNCHANGED <<github, runs, edit, stopping, vouched>>

Begin(w) ==
    /\ Polling(w, "no") /\ watch[w].on = "on" /\ ~stopping
    /\ Goes(w, [at |-> "me", was |-> watch[w], now |-> now, head |-> 0, pr |-> FALSE, todo |-> {}, key |-> Ci(1),
                verdict |-> "?", busy |-> FALSE, holds |-> FALSE, released |-> FALSE, ok |-> TRUE])
    /\ UNCHANGED <<watch, row, judgments, unlisted, mix>> /\ StaysPut

\* markPolled and unhold.
Finish(w) ==
    /\ Polling(w, "act") /\ poll[w].todo = {}
    /\ watch' = IF poll[w].ok THEN [watch EXCEPT ![w].ok = poll[w].now] ELSE watch
    /\ held' = IF poll[w].ok /\ poll[w].released /\ ~poll[w].holds THEN [held EXCEPT ![w] = NotHeld] ELSE held
    /\ Goes(w, NoPoll)
    /\ UNCHANGED <<row, refused, trusted, unlisted, mix>> /\ StaysPut

\* Asking who gh is, or listing what to watch, failed.
CannotRead(w) ==
    /\ poll[w].at \in {"me", "list"} /\ Fails
    /\ Goes(w, NoPoll)
    /\ UNCHANGED <<watch, row, judgments, unlisted>> /\ StaysPut

Known(w) ==
    /\ Polling(w, "me")
    /\ row' = Settled(w)
    /\ Goes(w, [poll[w] EXCEPT !.at = "list"])
    /\ UNCHANGED <<watch, judgments, unlisted, mix>> /\ StaysPut

Changed(w, rec) == watch' = [watch EXCEPT ![w] = [rec EXCEPT !.changed = @ + 1]]

OtherLogin(w) ==
    /\ Polling(w, "me") /\ watch[w].on # "gone" /\ May("login")
    /\ Changed(w, [watch[w] EXCEPT !.on = "paused"])
    /\ Goes(w, NoPoll)
    /\ UNCHANGED <<row, judgments, unlisted>> /\ StaysPut

Targets(w) ==
    LET known == Branch = lastTrusted(w, poll[w].was.trust) \/ Branch \in refused[w]
    IN  /\ Polling(w, "list")
        /\ row' = expireRetries(w)
        /\ held' = IF open THEN held ELSE [held EXCEPT ![w] = NotHeld]
        /\ Goes(w, [poll[w] EXCEPT !.head = Branch, !.pr = open, !.at = IF known THEN "checks" ELSE "judge"])
        /\ UNCHANGED <<watch, refused, trusted, unlisted, mix>> /\ StaysPut

\* ACTIVITY_LAG_MS has passed since the head was first judged.
LagIsOver(w, h) == IF h \in unlisted[w] THEN BOOLEAN ELSE {FALSE}

Judge(w) ==
    LET h == poll[w].head
        T == poll[w].was.trust
        v == Verdict(w, h, T)
        to == [poll[w] EXCEPT !.at = "checks", !.verdict = v]
    IN  /\ Polling(w, "judge")
        /\ UNCHANGED <<watch, row, mix>> /\ StaysPut
        /\ IF ~Fresh(w) THEN Goes(w, to) /\ UNCHANGED <<judgments, unlisted>>
           ELSE \/ /\ v = "yes" /\ remember(w, h, T)
                   /\ Goes(w, to) /\ UNCHANGED <<refused, held, unlisted>>
                \/ \E late \in LagIsOver(w, h) :
                   /\ v = "lag" /\ ~late
                   /\ unlisted' = [unlisted EXCEPT ![w] = @ \cup {h}]
                   /\ Goes(w, to) /\ UNCHANGED judgments
                \/ \E late \in LagIsOver(w, h) :
                   /\ v = "no" \/ (v = "lag" /\ late)
                   /\ ignoreHead(w, h) /\ hold(w)
                   /\ Goes(w, [to EXCEPT !.holds = poll[w].pr]) /\ UNCHANGED <<trusted, unlisted>>

AfterChecks(w, at) == IF at = "checks" /\ poll[w].pr THEN "comments" ELSE "act"

\* One of the calls for the branch failed: a problem, and the poll goes on.
Errs(w) ==
    /\ \/ poll[w].at \in {"judge", "comments"}
       \/ (Polling(w, "checks") /\ poll[w].head \notin refused[w])
    /\ Fails
    /\ Goes(w, [poll[w] EXCEPT !.ok = FALSE, !.at = IF @ = "judge" THEN "checks" ELSE AfterChecks(w, @)])
    /\ UNCHANGED <<watch, row, judgments, unlisted>> /\ StaysPut

\* A refused head's events are not read; its comments are held.
ReadChecks(w) ==
    LET h == poll[w].head
    IN  /\ Polling(w, "checks")
        /\ IF h \in refused[w]
           THEN hold(w) /\ Goes(w, [poll[w] EXCEPT !.at = "act", !.holds = poll[w].pr])
           ELSE /\ Goes(w, [poll[w] EXCEPT !.todo = {Ci(h)} \cap {k \in Keys : h \in red /\ Unseen(k)},
                                          !.at = AfterChecks(w, @)])
                /\ UNCHANGED held
        /\ UNCHANGED <<watch, row, refused, trusted, unlisted, mix>> /\ StaysPut

ReadComments(w) ==
    LET since == Since(w, poll[w].was)
        read == {c \in Comments : asked[c] # Never /\ asked[c] >= Later(since, poll[w].was.floor) /\ Unseen(Review(c))}
    IN  /\ Polling(w, "comments")
        /\ Goes(w, [poll[w] EXCEPT !.at = "act", !.released = held[w] # NotHeld,
                                   !.todo = @ \cup {Review(c) : c \in read}])
        /\ UNCHANGED <<watch, row, judgments, unlisted, mix>> /\ StaysPut

\* The poll stops short of what it read.
Incomplete(w) == Goes(w, [poll[w] EXCEPT !.at = "act", !.todo = {}, !.ok = FALSE])
Acted(w) == [poll[w] EXCEPT !.at = "act", !.todo = @ \ {poll[w].key}, !.key = Ci(1)]
Busy(w) == poll[w].busy \/ \E r \in runsOnBranch : Active(r)

\* The next event, a failing check first: skipped if its branch is busy or the watch has had its runs for the hour.
Pick(w) ==
    /\ Polling(w, "act") /\ poll[w].todo # {}
    /\ UNCHANGED <<watch, judgments, unlisted>> /\ StaysPut
    /\ IF stopping THEN Incomplete(w) /\ UNCHANGED <<row, mix>>
       ELSE \E k \in poll[w].todo :
            /\ k[1] = "ci" \/ \A j \in poll[w].todo : j[1] # "ci"
            /\ \/ ~Busy(w) /\ Goes(w, [poll[w] EXCEPT !.at = "vouch", !.key = k]) /\ UNCHANGED <<row, mix>>
               \/ /\ IF Busy(w) THEN UNCHANGED mix ELSE Spends("refusals")
                  /\ row' = Skipped(k, w)
                  /\ Goes(w, [poll[w] EXCEPT !.todo = @ \ {k}, !.busy = Busy(w)])

\* Judged once a poll, and again if that failed.
Ruling(w) == IF poll[w].verdict = "?" THEN Verdict(w, poll[w].head, poll[w].was.trust) ELSE poll[w].verdict
LateFor(w) == IF poll[w].verdict = "?" THEN LagIsOver(w, poll[w].head) ELSE {FALSE}

CannotVouch(w) ==
    /\ Polling(w, "vouch") /\ poll[w].verdict = "?" /\ Fails
    /\ Goes(w, [Acted(w) EXCEPT !.ok = FALSE])
    /\ UNCHANGED <<watch, row, judgments, unlisted>> /\ StaysPut

\* The head's push may not be listed yet: judged again for a while.
NotYet(w) ==
    /\ Polling(w, "vouch") /\ Ruling(w) = "lag" /\ FALSE \in LateFor(w)
    /\ unlisted' = [unlisted EXCEPT ![w] = @ \cup {poll[w].head}]
    /\ row' = Skipped(poll[w].key, w)
    /\ Goes(w, [Acted(w) EXCEPT !.verdict = "lag"])
    /\ UNCHANGED <<watch, judgments, mix>> /\ StaysPut

Refuse(w) ==
    /\ Polling(w, "vouch") /\ (Ruling(w) = "no" \/ (Ruling(w) = "lag" /\ TRUE \in LateFor(w)))
    /\ unlisted' = [unlisted EXCEPT ![w] = @ \ {poll[w].head}]
    /\ IF Fresh(w)
       THEN ignoreHead(w, poll[w].head) /\ hold(w) /\ Goes(w, [Acted(w) EXCEPT !.holds = poll[w].pr, !.verdict = Ruling(w)])
       ELSE Incomplete(w) /\ UNCHANGED <<refused, held>>
    /\ UNCHANGED <<watch, row, trusted, mix>> /\ StaysPut

UnchangedIfOn(w) == watch[w].on = "on"
\* Nothing awaits from here to the start.
Unchanged(w) == watch[w].on = "on" /\ Fresh(w)
Clear(w) == Polling(w, "vouch") /\ Ruling(w) = "yes"
Vouch(w) ==
    /\ unlisted' = [unlisted EXCEPT ![w] = @ \ {poll[w].head}]
    /\ remember(w, poll[w].head, poll[w].was.trust)
    /\ UNCHANGED <<watch, refused, held>>

GivesUp(w) ==
    /\ Clear(w) /\ (stopping \/ ~Unchanged(w))
    /\ unlisted' = [unlisted EXCEPT ![w] = @ \ {poll[w].head}]
    /\ Incomplete(w)
    /\ UNCHANGED <<watch, row, judgments, mix>> /\ StaysPut

BusyAgainNever(w) == FALSE
BusyAgain(w) == Busy(w)
\* Busy by now, or taken by another poll.
Loses(w) ==
    /\ Clear(w) /\ ~stopping /\ Unchanged(w) /\ Vouch(w)
    /\ BusyAgain(w) \/ ~Unseen(poll[w].key)
    /\ row' = IF BusyAgain(w) THEN Skipped(poll[w].key, w) ELSE row
    /\ Goes(w, [Acted(w) EXCEPT !.busy = Busy(w), !.verdict = "yes"])
    /\ UNCHANGED mix /\ StaysPut

Ready(w) == Clear(w) /\ ~stopping /\ Unchanged(w) /\ ~BusyAgain(w) /\ Unseen(poll[w].key)
Wins(w) == Ready(w) /\ Vouch(w)
Run(w, bound) ==
    [key |-> poll[w].key, head |-> poll[w].head, watch |-> w, status |-> "active", bound |-> bound]
Starts(w, bound) ==
    /\ runs' = Append(runs, Run(w, bound))
    /\ UNCHANGED <<github, edit, stopping, vouched>>

Start(w) ==
    /\ Wins(w) /\ Starts(w, TRUE)
    /\ row' = Bound(poll[w].key, w)
    /\ Goes(w, [Acted(w) EXCEPT !.busy = TRUE, !.verdict = "yes"])
    /\ UNCHANGED mix

\* startRun throws (the owner's cap): release, then waiting as before.
StartRefused(w) ==
    /\ Wins(w) /\ Spends("refusals")
    /\ row' = LET k == poll[w].key
                  back == [row EXCEPT ![k] = Released(k, w)]
              IN  IF k[1] = "review" THEN [back EXCEPT ![k].outcome = "retry", ![k].by = w] ELSE back
    /\ Goes(w, [Acted(w) EXCEPT !.verdict = "yes"])
    /\ StaysPut

\* bind throws, and the run goes on with no event.
StartUnbound(w) ==
    /\ Wins(w) /\ Starts(w, FALSE) /\ Fails
    /\ row' = [row EXCEPT ![poll[w].key] = Released(poll[w].key, w)]
    /\ Goes(w, [Acted(w) EXCEPT !.ok = FALSE, !.verdict = "yes"])

-----------------------------------------------------------------------------
(* The owner.                                                                  *)

\* forgetUntrusted; carryTrusted if the list only gained logins, forgetTrusted otherwise.
Retrusts(w, T) ==
    LET was == watch[w].trust
    IN  IF T = was THEN UNCHANGED <<refused, trusted, vouched>>
        ELSE /\ refused' = [refused EXCEPT ![w] = {}]
             /\ trusted' = [trusted EXCEPT ![w] = IF was \subseteq T THEN (IF @.under = was THEN [@ EXCEPT !.under = T] ELSE @)
                                                  ELSE [head |-> 0, under |-> {}]]
             /\ vouched' = [vouched EXCEPT ![w] = IF was \subseteq T THEN @ ELSE {}]

OwnerDoes == UNCHANGED <<github, row, held, runs, poll, unlisted, stopping>>

Pause(w) ==
    /\ watch[w].on = "on" /\ May("pause")
    /\ Changed(w, [watch[w] EXCEPT !.on = "paused"])
    /\ OwnerDoes /\ UNCHANGED <<refused, trusted, edit, vouched>>
Resume(w) ==
    /\ watch[w].on = "paused"
    /\ Changed(w, [watch[w] EXCEPT !.on = "on", !.floor = now])
    /\ OwnerDoes /\ UNCHANGED <<refused, trusted, edit, mix, vouched>>
Trusts(w, T) ==
    /\ watch[w].on # "gone" /\ T # watch[w].trust /\ May("trust")
    /\ Changed(w, [watch[w] EXCEPT !.trust = T])
    /\ Retrusts(w, T)
    /\ OwnerDoes /\ UNCHANGED edit

\* --trust-head: #resolveSpec and #currentHeads, then the rest when GitHub has answered.
EditBegins(w, T) ==
    /\ watch[w].on # "gone" /\ edit[w] = NoEdit /\ May("vouch")
    /\ edit' = [edit EXCEPT ![w] = [head |-> Branch, trust |-> T]]
    /\ OwnerDoes /\ UNCHANGED <<watch, refused, trusted, vouched>>
EditApplies(w) ==
    LET h == edit[w].head
        T == edit[w].trust
        kept == T = watch[w].trust \/ watch[w].trust \subseteq T
    IN  /\ edit[w] # NoEdit /\ watch[w].on # "gone"
        /\ Changed(w, [watch[w] EXCEPT !.trust = T])
        /\ refused' = [refused EXCEPT ![w] = IF T = watch[w].trust THEN @ \ {h} ELSE {}]
        /\ remember(w, h, T)
        /\ vouched' = [vouched EXCEPT ![w] = {h} \cup IF kept THEN @ ELSE {}]
        /\ edit' = [edit EXCEPT ![w] = NoEdit]
        /\ OwnerDoes /\ UNCHANGED mix

Delete(w) ==
    /\ watch[w].on # "gone" /\ May("delete")
    /\ watch' = [watch EXCEPT ![w].on = "gone"]
    /\ refused' = [refused EXCEPT ![w] = {}] /\ trusted' = [trusted EXCEPT ![w] = [head |-> 0, under |-> {}]]
    /\ held' = [held EXCEPT ![w] = NotHeld] /\ edit' = [edit EXCEPT ![w] = NoEdit]
    /\ UNCHANGED <<github, row, runs, poll, unlisted, stopping, vouched>>

-----------------------------------------------------------------------------
(* The process.                                                                *)

Stop ==
    /\ ~stopping /\ May("stop") /\ stopping' = TRUE
    /\ UNCHANGED <<github, watch, row, judgments, runs, poll, unlisted, edit, vouched>>

Forgets ==
    /\ poll' = [w \in Watchers |-> NoPoll] /\ unlisted' = [w \in Watchers |-> {}]
    /\ edit' = [w \in Watchers |-> NoEdit] /\ stopping' = FALSE
Restart ==
    /\ Forgets
    /\ IF stopping THEN UNCHANGED mix ELSE Spends("crashes")
    /\ UNCHANGED <<github, watch, row, judgments, runs, vouched>>

\* Killed between the claim, the start and the bind.
CutStart(w, started) ==
    /\ Ready(w) /\ Spends("crashes")
    /\ Forgets /\ remember(w, poll[w].head, poll[w].was.trust)
    /\ row' = Claimed(poll[w].key, w)
    /\ runs' = IF started THEN Append(runs, Run(w, FALSE)) ELSE runs
    /\ UNCHANGED <<github, watch, refused, held, vouched>>

-----------------------------------------------------------------------------
Answered(w) ==
    \/ Known(w) \/ Targets(w) \/ Judge(w) \/ ReadChecks(w) \/ ReadComments(w)
    \/ NotYet(w) \/ Refuse(w) \/ GivesUp(w) \/ Loses(w) \/ Start(w)
Polls(w) == Begin(w) \/ Answered(w) \/ Pick(w) \/ Finish(w)
Fault(w) ==
    \/ CannotRead(w) \/ Errs(w) \/ CannotVouch(w) \/ OtherLogin(w)
    \/ StartRefused(w) \/ StartUnbound(w) \/ CutStart(w, TRUE) \/ CutStart(w, FALSE)
Owner(w) ==
    \/ Pause(w) \/ Resume(w) \/ EditApplies(w) \/ Delete(w)
    \/ \E T \in Lists : Trusts(w, T) \/ EditBegins(w, T)
Outside ==
    \/ Tick \/ Listed \/ CheckFails \/ Closes
    \/ \E how \in {"push", "merge"}, l \in Logins : Arrives(how, l)
    \/ \E c \in Comments : Asks(c)
    \/ \E r \in DOMAIN runs, s \in {"over", "unready", "hopeless"} : RunEnds(r, s)

Next == Outside \/ Stop \/ Restart \/ \E w \in Watchers : Polls(w) \/ Fault(w) \/ Owner(w)
Spec == Init /\ [][Next]_vars

(* The interval timer polls, GitHub answers and lists what it lacks, a run is  *)
(* over some time, and a stopped daemon is started again.                      *)
Fairness ==
    /\ \A w \in Watchers : WF_vars(Polls(w))
    /\ WF_vars(Listed) /\ WF_vars(stopping /\ Restart)
    /\ WF_vars(\E r \in DOMAIN runs : RunEnds(r, "over"))
FairSpec == Spec /\ Fairness

-----------------------------------------------------------------------------
(* Properties.                                                                 *)

Places == {"me", "list", "judge", "checks", "comments", "act", "vouch"}
Records == [on : {"on", "paused", "gone"}, trust : Lists, changed : Nat, ok : Time, floor : Time]
Events == [outcome : {"none", "run", "retry", "ignored"}, run : Nat, tries : Nat, settled : BOOLEAN, by : Watchers]
Polled ==
    [at : Places, was : Records, now : Time, head : 0..MaxHeads, pr : BOOLEAN, todo : SUBSET Keys, key : Keys,
     verdict : {"?", "yes", "no", "lag"}, busy : BOOLEAN, holds : BOOLEAN, released : BOOLEAN, ok : BOOLEAN]
Commits == [how : {"push", "merge"}, by : Logins, listed : BOOLEAN]
RunRecords == [key : Keys, head : HeadIds, watch : Watchers, status : {"active", "over", "unready", "hopeless"}, bound : BOOLEAN]
TypeOK ==
    /\ now \in Time \ {Never} /\ Branch \in HeadIds /\ red \subseteq 1..Branch
    /\ heads \in Seq(Commits)
    /\ asked \in [Comments -> Time] /\ open \in BOOLEAN
    /\ watch \in [Watchers -> Records]
    /\ row \in [Keys -> Events] /\ \A k \in Keys : row[k].run \in 0..Len(runs)
    /\ runs \in Seq(RunRecords)
    /\ refused \in [Watchers -> SUBSET HeadIds]
    /\ trusted \in [Watchers -> [head : 0..MaxHeads, under : SUBSET Logins]]
    /\ held \in [Watchers -> Time \cup {NotHeld}]
    /\ poll \in [Watchers -> Polled \cup {NoPoll}]
    /\ unlisted \in [Watchers -> SUBSET HeadIds]
    /\ edit \in [Watchers -> [head : HeadIds, trust : Lists] \cup {NoEdit}]
    /\ vouched \in [Watchers -> SUBSET HeadIds] /\ stopping \in BOOLEAN

Recorded == {r \in DOMAIN runs : runs[r].bound}
Worked(r) == runs[r].status \notin {"unready", "hopeless"}
(* One run at a time works on the branch, and an event gets one run, or as     *)
(* many as couldn't prepare a workspace up to the bound: over polls of several *)
(* watches that overlap and read the same event before either started.         *)
(* Excepted is a run the ledger could not record, or did not before a crash.   *)
RunsOnce ==
    /\ Cardinality({r \in Recorded : Active(r)}) <= 1
    /\ \A k \in Keys : LET of == {r \in Recorded : runs[r].key = k}
                       IN  Cardinality({r \in of : Worked(r)}) <= 1 /\ Cardinality(of) <= SetupTries

\* What makes a head trusted: pushed by one trusted, vouched for, or merges by trusted logins since.
Sound(h, T, V) ==
    \E k \in 1..h : /\ k \in V \/ (heads[k].how = "push" /\ heads[k].by \in T)
                    /\ \A j \in (k + 1)..h : heads[j].how = "merge" /\ heads[j].by \in T

(* A run is started only for a watch that is on, on a head that is trusted     *)
(* under the list the watch has then: never on what an older list trusted or   *)
(* a poll judged before its watch changed.                                     *)
VouchedStarts ==
    [][\A r \in DOMAIN runs' \ DOMAIN runs :
        LET w == runs'[r].watch
        IN  watch[w].on = "on" /\ Sound(runs'[r].head, watch[w].trust, vouched[w])]_vars

\* The comment waits for this watch, and no run the ledger lost is at work on it.
Owed(w, c) ==
    /\ \A r \in DOMAIN runs : runs[r].key = Review(c) => runs[r].bound
    /\ open /\ asked[c] # Never /\ watch[w].on = "on" /\ asked[c] >= watch[w].floor
    /\ \/ row[Review(c)].outcome = "none"
       \/ row[Review(c)].outcome = "retry" /\ row[Review(c)].by = w
(* A comment that has no run yet and is not ignored is never behind what the   *)
(* watch's next poll reads, however its polls failed or stopped halfway, its   *)
(* head was refused and its comments held, or its run was skipped.             *)
CommentInView == \A w \in Watchers, c \in Comments : Owed(w, c) => asked[c] >= Since(w, watch[w])

(* A comment that waits on a trusted head gets its run or is dropped.          *)
Waits(c) ==
    \E w \in Watchers : /\ Owed(w, c) /\ Branch \notin refused[w]
                        /\ Sound(Branch, watch[w].trust, vouched[w])
AsksSettle == \A c \in Comments : Waits(c) ~> ~Waits(c)

=============================================================================
