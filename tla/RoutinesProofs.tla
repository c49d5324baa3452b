--------------------------- MODULE RoutinesProofs ---------------------------
(* What Routines promises of the overlap policy, the loops in progress, the    *)
(* sessions that act without asking and the scheduled fires, for any number of *)
(* routines, runs, fires and starts, and any mix of faults.                    *)
(* None of it is inductive.  A routine does not overlap because of what the    *)
(* statements still to come in `todo` will do to the run they are about: one   *)
(* statement of one execution is at work at a time, every end of a live run    *)
(* has its `finally` on the way, and a live run that is not ending owns its    *)
(* row.  A fire is not lost because one is asked for at a time, and a row is   *)
(* kept free for it.                                                           *)
EXTENDS Routines, FiniteSetTheorems, SequenceTheorems, WellFoundedInduction, TLAPS

-----------------------------------------------------------------------------
(* The queue of statements.                                                    *)

Spots == 1 .. Len(todo)
Has(s, op, x) == \E i \in 1 .. Len(s) : s[i][1] = op /\ s[i][2] = x

\* The statements of an execution, of which one is at work, at the head.
Exec == {"begin", "work", "finish", "loopStart", "portStart", "loopRecord"}
Works == Exec \ {"finish"}
Now(op, x) == todo # <<>> /\ todo[1][1] = op /\ todo[1][2] = x
Works1(x) == \E op \in Works : Now(op, x)
Plain(s) == \A i \in 1 .. Len(s) : s[i][1] \notin Exec
ExecFirst(s) == \A i \in 1 .. Len(s) : s[i][1] \in Exec => i = 1

\* A fire asked for comes next, but for what brings loops and outcomes up to date.
Asked == {"admit", "skip"}
Light == {"follow", "outcome", "pause"}
AsksIn(s) == \E i \in 1 .. Len(s) : s[i][1] \in Asked
Lights(s) == \A i \in 1 .. Len(s) : s[i][1] \in Light
Ordered(s) == \A i \in 1 .. Len(s) : s[i][1] \in Asked => \A j \in 1 .. i - 1 : s[j][1] \in Light

\* A run is closed when the `finally` that takes it out of the live set is on
\* its way; it is ending when the statement that ends its row was run.
OnceEach(s) == \A i, j \in 1 .. Len(s) : s[i][1] = "forget" /\ s[j][1] = "forget" /\ s[i][2] = s[j][2] => i = j
Closes(x) == Has(todo, "forget", x)
Ending(x) == Closes(x) /\ ~Now("finish", x)

-----------------------------------------------------------------------------
(* The invariant.                                                              *)

\* What is to come is about live runs, and outcomes are those of routines.
QueueInv ==
    /\ ExecFirst(todo) /\ Ordered(todo) /\ OnceEach(todo)
    /\ \A x \in Runs : Closes(x) => x \in Live
    /\ \A x \in Runs : Has(todo, "outcome", x) => run[x].routine \in Routines
    /\ \A x \in Runs : \A op \in Exec : Now(op, x) => x \in Live /\ (op = "finish" <=> Closes(x))

\* Between two processes nothing is live, and a start is still to come.
DownInv == ~up => todo = <<>> /\ Live = {} /\ ~stopped /\ deleting = {} /\ armed = {} /\ boots < MaxBoots

(* What the row of a run says.  An open row is of a routine that is there, and *)
(* of its live run unless it is queued or follows a loop; a loop in progress   *)
(* has its run open, which names it, but for the statement that writes the     *)
(* name and the time until the next start.                                     *)
RunOK(x) ==
    /\ run[x].status = "none" => run[x].routine = "none" /\ loop[x] = "none"
    /\ run[x].status \in Active => run[x].routine \in Routines /\ exists[run[x].routine]
    /\ run[x].status = "queued" => ~run[x].loop /\ loop[x] = "none" /\ run[x].routine \notin deleting
    /\ run[x].status \in Active /\ run[x].loop => run[x].routine \in Looped
    /\ run[x].status \in {"checking", "running"} /\ ~run[x].loop /\ up => x \in Live
    /\ loop[x] = "active" => /\ run[x].status = "running" /\ run[x].routine \in Looped
                             /\ run[x].loop \/ ~up \/ Now("loopRecord", x)
RunsInv == (\A r \in deleting : exists[r]) /\ \A x \in Runs : RunOK(x)

(* What a live run says of its row.  One that is ending has it closed, or left *)
(* to the loop; any other is the run's only writer: its row is open, closed by *)
(* a delete that told it, or deleted, and it has no loop.  It has a session    *)
(* from createSession on, and not before.                                      *)
LiveOK(x) ==
    /\ run[x].routine \in Routines
    /\ Ending(x) => run[x].status \notin Active \/ run[x].loop
    /\ ~Ending(x) =>
         /\ ~run[x].loop /\ (loop[x] = "none" \/ Now("loopRecord", x))
         /\ \/ run[x].status \in Active \cup {"deleted"}
            \/ run[x].status = "ended" /\ run[x].routine \in deleting
         /\ stop[x] = "no" => run[x].status \in Active
         /\ pc[x] = "begin" => Works1(x)
         /\ pc[x] = "create" => run[x].routine \notin Looped
         /\ pc[x] \in {"begin", "check"} \/ (pc[x] = "create" /\ ~Now("finish", x)) => home[x] = NoRun
    /\ Works1(x) => run[x].status \in Active /\ pc[x] \in {"begin", "check"}
    /\ Now("loopStart", x) \/ Now("portStart", x) \/ Now("loopRecord", x) => run[x].routine \in Looped
    /\ Now("portStart", x) \/ Now("loopRecord", x) => run[x].status = "running"
    /\ Now("loopRecord", x) <=> loop[x] = "active" /\ ~run[x].loop
    /\ run[x].routine \in deleting => stop[x] # "no"
Alone == \A x, y \in Live : run[x].routine = run[y].routine => x = y
LiveInv == Alone /\ \A x \in Live : LiveOK(x)

\* OverlapHolds, without counting.
OverlapInv ==
    \A r \in Routines :
      IF r \in Queued
        THEN \A x, y, z \in ActiveRuns(r) : x = y \/ y = z \/ x = z
        ELSE \A x, y \in ActiveRuns(r) : x = y

\* Armed only while the run is on: the statement that ends it disarms its session.
ArmedInv == \A s \in armed : \E x \in Live : home[x] = s /\ ~Ending(x)

(* The fire asked for has no row yet, and its routine is there until it has;   *)
(* each fire due or asked for has a row free to be written.                    *)
FireOK(i) ==
    /\ todo[i][1] = "admit" => exists[todo[i][2]] /\ todo[i][2] \notin deleting
    /\ todo[i][1] \in Asked /\ todo[i][3] # 0 => todo[i][3] <= claimed[todo[i][2]] /\ rows[todo[i][2]][todo[i][3]] = 0
DueInv == \A r \in Routines : due[r] => claimed[r] < MaxDue
FireInv ==
    /\ \A i \in Spots : FireOK(i)
    /\ \A r \in Routines : \A k \in 1 .. MaxDue : rows[r][k] <= 1 /\ (k > claimed[r] => rows[r][k] = 0)
    /\ Cardinality(Lost) <= Crashes
RoomInv == Cardinality(Unused) >= Cardinality({q \in Routines : due[q]}) + IF AsksIn(todo) THEN 1 ELSE 0

CoreInv == QueueInv /\ RunsInv /\ LiveInv /\ OverlapInv /\ ArmedInv
FiresInv == DueInv /\ FireInv /\ RoomInv
IInv == TypeOK /\ CoreInv /\ DownInv /\ FiresInv

-----------------------------------------------------------------------------
\* What the assumption says of the constants, one by one.
LEMMA Facts ==
  /\ MaxRuns \in Nat /\ MaxDue \in Nat /\ MaxBoots \in Nat /\ MaxAsks \in Nat /\ MaxLive \in Nat
  /\ MaxRuns >= 1 /\ MaxBoots >= 1 /\ IsFiniteSet(Routines) /\ "none" \notin Routines
  /\ Looped \subseteq Routines /\ Queued \subseteq Routines \ Looped
  /\ \A m \in Mixes : m.runs \in 1 .. MaxRuns /\ m.asks \in 0 .. MaxAsks /\ m.dues \in 0 .. MaxDue
BY ConstantsAssumption

\* What a frame is about, by its name; and the frames there are.
LEMMA FrameShape ==
  ASSUME NEW f \in Frames
  PROVE  /\ f[1] \in {"fire", "pause"} => f[2] \in Routines
         /\ f[1] = "follow" => f[2] \in Routines \cup {0}
         /\ f[1] \in Exec \cup {"forget"} => f[2] \in Runs
         /\ f[1] \in {"admit", "skip"} => f[2] \in Routines /\ f[3] \in 0 .. MaxDue
         /\ f[1] = "admit" => f[4] \in BOOLEAN
         /\ f[1] = "finish" => f[3] \in Results
         /\ f[1] = "outcome" => f[2] \in Runs /\ f[3] \in BOOLEAN
BY DEF Frames, Exec

LEMMA FrameIn ==
  /\ \A r \in Routines : <<"fire", r>> \in Frames /\ <<"pause", r>> \in Frames /\ <<"follow", r>> \in Frames
  /\ \A x \in Runs : /\ <<"begin", x>> \in Frames /\ <<"work", x>> \in Frames /\ <<"forget", x>> \in Frames
                     /\ <<"loopStart", x>> \in Frames /\ <<"portStart", x>> \in Frames /\ <<"loopRecord", x>> \in Frames
  /\ <<"follow", 0>> \in Frames /\ <<"drain", 0>> \in Frames /\ <<"listDue", 0>> \in Frames
  /\ \A r \in Routines, k \in 0 .. MaxDue : <<"skip", r, k>> \in Frames
  /\ \A r \in Routines, k \in 0 .. MaxDue, b \in BOOLEAN : <<"admit", r, k, b>> \in Frames
  /\ \A x \in Runs, result \in Results : <<"finish", x, result>> \in Frames
  /\ \A x \in Runs, b \in BOOLEAN : <<"outcome", x, b>> \in Frames
BY DEF Frames

\* The first statement and those behind it.
LEMMA Head1 ==
  ASSUME TypeOK, todo # <<>>
  PROVE  /\ Len(todo) \in Nat /\ Len(todo) > 0 /\ Head(todo) = todo[1] /\ todo[1] \in Frames
         /\ Tail(todo) \in Seq(Frames) /\ Len(Tail(todo)) = Len(todo) - 1
         /\ \A i \in 1 .. Len(todo) - 1 : Tail(todo)[i] = todo[i + 1]
<1>1. todo \in Seq(Frames)
  BY DEF TypeOK
<1> QED
  BY <1>1

\* What the end of a row puts in the queue: its outcome, and the `finally`.
LEMMA Counts ==
  ASSUME NEW x \in Runs, NEW result
  PROVE  /\ Counted(x, result) \in Seq(Frames) /\ Len(Counted(x, result)) \in {0, 1}
         /\ \A i \in 1 .. Len(Counted(x, result)) : Counted(x, result)[i][1] = "outcome" /\ Counted(x, result)[i][2] = x
<1>1. <<"outcome", x, result = "failed">> \in Frames
  BY FrameIn, Zenon
<1>2. CASE result \in Outcomes
  <2>1. Counted(x, result) = <<<<"outcome", x, result = "failed">>>>
    BY <1>2 DEF Counted
  <2> QED
    BY <2>1, <1>1
<1>3. CASE result \notin Outcomes
  <2>1. Counted(x, result) = <<>>
    BY <1>3 DEF Counted
  <2> QED
    BY <2>1
<1> QED
  BY <1>2, <1>3

LEMMA Closings ==
  ASSUME NEW x \in Runs
  PROVE  /\ Closing(x) \in Seq(Frames) /\ Len(Closing(x)) = 2
         /\ Closing(x)[1] = <<"forget", x>> /\ Closing(x)[2] = <<"drain", 0>>
<1>1. <<"forget", x>> \in Frames /\ <<"drain", 0>> \in Frames
  BY FrameIn, Zenon
<1> QED
  BY <1>1 DEF Closing

\* What #finishRun writes.
LEMMA RowType ==
  ASSUME TypeOK, NEW x \in Runs, NEW result
  PROVE  /\ Row(x, result).routine = run[x].routine /\ Row(x, result).loop = run[x].loop
         /\ Row(x, result).manual = FALSE
         /\ Row(x, result).status = IF run[x].status = "deleted" THEN "deleted" ELSE
                                       IF result = "interrupted" THEN "interrupted" ELSE "ended"
         /\ Row(x, result) \in [status : Active \cup Ended \cup {"none", "deleted"},
                         routine : Routines \cup {"none"}, manual : BOOLEAN, loop : BOOLEAN]
<1> DEFINE R == [status : Active \cup Ended \cup {"none", "deleted"}, routine : Routines \cup {"none"}, manual : BOOLEAN, loop : BOOLEAN]
<1>1. run[x] \in R
  BY DEF TypeOK
<1>2. \A b : (IF run[x].status = "deleted" THEN run[x].status ELSE b) = IF run[x].status = "deleted" THEN "deleted" ELSE b
  OBVIOUS
<1> QED
  BY <1>1, <1>2 DEF Ended, Row

LEMMA MinIn ==
  ASSUME NEW S \in SUBSET Nat, S # {}
  PROVE  Min(S) \in S
<1>0. IsWellFoundedOn(OpToRel(<, Nat), Nat)
  BY NatLessThanWellFounded
<1> DEFINE R == OpToRel(<, Nat)
<1>3. \A x, y \in Nat : x < y => <<x, y>> \in R
  BY DEF OpToRel
<1>4. IsWellFoundedOn(R, Nat)
  BY <1>0
<1> HIDE DEF R
<1>1. PICK x \in S : \A y \in S : ~(<<y, x>> \in R)
  BY <1>4, WFMin
<1>2. \A y \in S : x <= y
  <2>1. ASSUME NEW y \in S, ~(x <= y)
        PROVE  FALSE
    <3>1. x \in Nat /\ y \in Nat /\ y < x
      BY <2>1
    <3>2. <<y, x>> \in R
      BY <3>1, <1>3
    <3> QED
      BY <3>2, <1>1, <2>1
  <2> QED
    BY <2>1
<1> QED
  BY <1>2 DEF Min

-----------------------------------------------------------------------------
(* What is known of a queue made of parts.                                     *)

\* Two parts, one behind the other.
LEMMA Joined ==
  ASSUME NEW a \in Seq(Frames), NEW b \in Seq(Frames)
  PROVE  /\ a \o b \in Seq(Frames)
         /\ \A op, x : Has(a \o b, op, x) <=> Has(a, op, x) \/ Has(b, op, x)
         /\ AsksIn(a \o b) <=> AsksIn(a) \/ AsksIn(b)
         /\ Plain(a) /\ Plain(b) => Plain(a \o b)
         /\ ExecFirst(a) /\ Plain(b) => ExecFirst(a \o b)
         /\ Lights(a) /\ Lights(b) => Lights(a \o b)
         /\ OnceEach(a) /\ OnceEach(b) /\ (\A x : ~(Has(a, "forget", x) /\ Has(b, "forget", x))) => OnceEach(a \o b)
         /\ Ordered(a) /\ ~AsksIn(b) => Ordered(a \o b)
         /\ Lights(a) /\ Ordered(b) => Ordered(a \o b)
         /\ a # <<>> => a \o b # <<>> /\ (a \o b)[1] = a[1]
         /\ a = <<>> => a \o b = b
<1> DEFINE s == a \o b
<1>1. Len(a) \in Nat /\ Len(b) \in Nat /\ s \in Seq(Frames) /\ Len(s) = Len(a) + Len(b)
  OBVIOUS
<1>2. \A i \in 1 .. Len(a) : i \in 1 .. Len(s) /\ s[i] = a[i]
  OBVIOUS
<1>3. \A i \in 1 .. Len(b) : Len(a) + i \in 1 .. Len(s) /\ s[Len(a) + i] = b[i]
  OBVIOUS
<1>4. \A i \in 1 .. Len(s) : i \in 1 .. Len(a) \/ (i - Len(a) \in 1 .. Len(b) /\ i = Len(a) + (i - Len(a)))
  BY <1>1
<1>5. a # <<>> => Len(a) >= 1
  OBVIOUS
<1>6. a = <<>> => s = b
  OBVIOUS
<1> HIDE DEF s
<1>7. \A op, x : Has(s, op, x) <=> Has(a, op, x) \/ Has(b, op, x)
  <2>1. ASSUME NEW op, NEW x, NEW i \in 1 .. Len(s), s[i][1] = op, s[i][2] = x
        PROVE  Has(a, op, x) \/ Has(b, op, x)
    <3>1. CASE i \in 1 .. Len(a)
      BY <3>1, <2>1, <1>2 DEF Has
    <3>2. CASE i \notin 1 .. Len(a)
      BY <3>2, <2>1, <1>3, <1>4 DEF Has
    <3> QED
      BY <3>1, <3>2
  <2>2. \A op, x : Has(a, op, x) => Has(s, op, x)
    BY <1>2 DEF Has
  <2>3. \A op, x : Has(b, op, x) => Has(s, op, x)
    BY <1>3 DEF Has
  <2>4. \A op, x : Has(s, op, x) => Has(a, op, x) \/ Has(b, op, x)
    BY <2>1 DEF Has
  <2> QED
    BY <2>2, <2>3, <2>4
<1>8. AsksIn(s) <=> AsksIn(a) \/ AsksIn(b)
  <2>1. ASSUME NEW i \in 1 .. Len(s), s[i][1] \in Asked
        PROVE  AsksIn(a) \/ AsksIn(b)
    <3>1. CASE i \in 1 .. Len(a)
      BY <3>1, <2>1, <1>2 DEF AsksIn
    <3>2. CASE i \notin 1 .. Len(a)
      BY <3>2, <2>1, <1>3, <1>4 DEF AsksIn
    <3> QED
      BY <3>1, <3>2
  <2>2. AsksIn(a) => AsksIn(s)
    BY <1>2 DEF AsksIn
  <2>3. AsksIn(b) => AsksIn(s)
    BY <1>3 DEF AsksIn
  <2>4. AsksIn(s) => AsksIn(a) \/ AsksIn(b)
    BY <2>1 DEF AsksIn
  <2> QED
    BY <2>2, <2>3, <2>4
<1>9. /\ Plain(a) /\ Plain(b) => Plain(s)
      /\ Lights(a) /\ Lights(b) => Lights(s)
  <2>1. ASSUME NEW i \in 1 .. Len(s)
        PROVE  (\E j \in 1 .. Len(a) : s[i] = a[j]) \/ (\E j \in 1 .. Len(b) : s[i] = b[j])
    <3>1. CASE i \in 1 .. Len(a)
      BY <3>1, <1>2
    <3>2. CASE i \notin 1 .. Len(a)
      BY <3>2, <1>3, <1>4
    <3> QED
      BY <3>1, <3>2
  <2> QED
    BY <2>1 DEF Plain, Lights
<1>10. ExecFirst(a) /\ Plain(b) => ExecFirst(s)
  BY <1>2, <1>3, <1>4 DEF Plain, ExecFirst
<1>11. ASSUME OnceEach(a), OnceEach(b), \A x : ~(Has(a, "forget", x) /\ Has(b, "forget", x))
       PROVE  OnceEach(s)
  <2> SUFFICES ASSUME NEW i \in 1 .. Len(s), NEW j \in 1 .. Len(s), s[i][1] = "forget", s[j][1] = "forget", s[i][2] = s[j][2]
               PROVE  i = j
    BY DEF OnceEach
  <2>1. i \in 1 .. Len(a) => Has(a, "forget", s[i][2])
    BY <1>2 DEF Has
  <2>2. i \notin 1 .. Len(a) => Has(b, "forget", s[i][2])
    BY <1>3, <1>4 DEF Has
  <2>3. j \in 1 .. Len(a) => Has(a, "forget", s[j][2])
    BY <1>2 DEF Has
  <2>4. j \notin 1 .. Len(a) => Has(b, "forget", s[j][2])
    BY <1>3, <1>4 DEF Has
  <2>5. i \in 1 .. Len(a) <=> j \in 1 .. Len(a)
    BY <1>11, <2>1, <2>2, <2>3, <2>4
  <2>6. CASE i \in 1 .. Len(a)
    BY <2>5, <2>6, <1>2, <1>11 DEF OnceEach
  <2>7. CASE i \notin 1 .. Len(a)
    <3>1. i - Len(a) \in 1 .. Len(b) /\ j - Len(a) \in 1 .. Len(b) /\ i = Len(a) + (i - Len(a)) /\ j = Len(a) + (j - Len(a))
      BY <2>5, <2>7, <1>4
    <3>2. b[i - Len(a)] = s[i] /\ b[j - Len(a)] = s[j]
      BY <3>1, <1>3
    <3>3. i - Len(a) = j - Len(a)
      BY <3>1, <3>2, <1>11 DEF OnceEach
    <3> QED
      BY <3>3, <3>1
  <2> QED
    BY <2>6, <2>7
<1>12. ASSUME Ordered(a), ~AsksIn(b)
       PROVE  Ordered(s)
  <2> SUFFICES ASSUME NEW i \in 1 .. Len(s), s[i][1] \in Asked, NEW j \in 1 .. i - 1
               PROVE  s[j][1] \in Light
    BY DEF Ordered
  <2>1. i \in 1 .. Len(a)
    BY <1>3, <1>4, <1>12 DEF AsksIn
  <2>2. j \in 1 .. Len(a) /\ j \in 1 .. i - 1
    BY <2>1, <1>1
  <2> QED
    BY <2>1, <2>2, <1>2, <1>12 DEF Ordered
<1>13. ASSUME Lights(a), Ordered(b)
       PROVE  Ordered(s)
  <2> SUFFICES ASSUME NEW i \in 1 .. Len(s), s[i][1] \in Asked, NEW j \in 1 .. i - 1
               PROVE  s[j][1] \in Light
    BY DEF Ordered
  <2>1. CASE j \in 1 .. Len(a)
    BY <2>1, <1>2, <1>13 DEF Lights
  <2>2. CASE j \notin 1 .. Len(a)
    <3>1. i - Len(a) \in 1 .. Len(b) /\ j - Len(a) \in 1 .. (i - Len(a)) - 1 /\ j - Len(a) \in 1 .. Len(b)
          /\ i = Len(a) + (i - Len(a)) /\ j = Len(a) + (j - Len(a))
      BY <2>2, <1>1
    <3>2. s[i] = b[i - Len(a)] /\ s[j] = b[j - Len(a)]
      BY <3>1, <1>3
    <3> QED
      BY <3>1, <3>2, <1>13 DEF Ordered
  <2> QED
    BY <2>1, <2>2
<1>14. a # <<>> => s # <<>> /\ s[1] = a[1]
  BY <1>1, <1>2, <1>5
<1> QED
  BY <1>1, <1>6, <1>7, <1>8, <1>9, <1>10, <1>11, <1>12, <1>13, <1>14 DEF s

LEMMA Empties ==
  /\ <<>> \in Seq(Frames) /\ \A op, x : ~Has(<<>>, op, x)
  /\ ~AsksIn(<<>>) /\ Plain(<<>>) /\ Lights(<<>>) /\ Ordered(<<>>) /\ OnceEach(<<>>) /\ ExecFirst(<<>>)
<1>1. Len(<<>>) = 0
  OBVIOUS
<1> QED
  BY <1>1 DEF Has, AsksIn, Plain, Lights, Ordered, OnceEach, ExecFirst

LEMMA Single ==
  ASSUME NEW f \in Frames
  PROVE  /\ <<f>> \in Seq(Frames) /\ <<f>> # <<>> /\ <<f>>[1] = f
         /\ \A op, x : Has(<<f>>, op, x) <=> f[1] = op /\ f[2] = x
         /\ AsksIn(<<f>>) <=> f[1] \in Asked
         /\ Ordered(<<f>>) /\ OnceEach(<<f>>) /\ ExecFirst(<<f>>)
         /\ f[1] \notin Exec => Plain(<<f>>)
         /\ f[1] \in Light => Lights(<<f>>)
<1> DEFINE s == <<f>>
<1>1. s \in Seq(Frames) /\ Len(s) = 1 /\ s[1] = f
  OBVIOUS
<1>2. 1 .. Len(s) = {1}
  BY <1>1
<1>3. s # <<>>
  OBVIOUS
<1> HIDE DEF s
<1>4. Ordered(s)
  BY <1>2 DEF Ordered
<1> QED
  BY <1>1, <1>2, <1>3, <1>4 DEF s, Has, AsksIn, Plain, Lights, OnceEach, ExecFirst

LEMMA ClosingParts ==
  ASSUME NEW x \in Runs
  PROVE  /\ Closing(x) \in Seq(Frames) /\ Closing(x) # <<>> /\ Closing(x)[1] = <<"forget", x>>
         /\ \A op, y : Has(Closing(x), op, y) <=> (op = "forget" /\ y = x) \/ (op = "drain" /\ y = 0)
         /\ ~AsksIn(Closing(x)) /\ Plain(Closing(x)) /\ OnceEach(Closing(x)) /\ Ordered(Closing(x)) /\ ExecFirst(Closing(x))
<1>1. /\ Closing(x) \in Seq(Frames) /\ Len(Closing(x)) = 2
      /\ Closing(x)[1] = <<"forget", x>> /\ Closing(x)[2] = <<"drain", 0>>
  BY Closings
<1>2. 1 .. Len(Closing(x)) = {1, 2} /\ Closing(x) # <<>>
  BY <1>1
<1>3. ~AsksIn(Closing(x))
  BY <1>1, <1>2 DEF AsksIn, Asked
<1>4. Ordered(Closing(x))
  BY <1>3 DEF AsksIn, Ordered
<1>5. Plain(Closing(x))
  BY <1>1, <1>2 DEF Plain, Exec
<1>6. OnceEach(Closing(x))
  BY <1>1, <1>2 DEF OnceEach
<1>7. ExecFirst(Closing(x))
  BY <1>5 DEF Plain, ExecFirst
<1>8. \A op, y : Has(Closing(x), op, y) <=> (op = "forget" /\ y = x) \/ (op = "drain" /\ y = 0)
  BY <1>1, <1>2 DEF Has
<1> QED
  BY <1>1, <1>2, <1>3, <1>4, <1>5, <1>6, <1>7, <1>8

LEMMA CountedParts ==
  ASSUME NEW x \in Runs, NEW result
  PROVE  /\ Counted(x, result) \in Seq(Frames)
         /\ \A op, y : Has(Counted(x, result), op, y) => op = "outcome" /\ y = x
         /\ ~AsksIn(Counted(x, result)) /\ Plain(Counted(x, result)) /\ Lights(Counted(x, result))
         /\ OnceEach(Counted(x, result)) /\ Ordered(Counted(x, result)) /\ ExecFirst(Counted(x, result))
         /\ Counted(x, result) # <<>> => Counted(x, result)[1][1] = "outcome"
<1> DEFINE s == Counted(x, result)
<1>1. /\ s \in Seq(Frames) /\ Len(s) \in {0, 1}
      /\ \A i \in 1 .. Len(s) : s[i][1] = "outcome" /\ s[i][2] = x
  BY Counts
<1>2. s # <<>> => Len(s) = 1
  BY <1>1
<1> HIDE DEF s
<1>3. \A i, j \in 1 .. Len(s) : i = j
  BY <1>1
<1>4. ~AsksIn(s) /\ Plain(s) /\ Lights(s) /\ ExecFirst(s)
  BY <1>1 DEF AsksIn, Plain, Lights, ExecFirst, Asked, Exec, Light
<1>5. OnceEach(s) /\ Ordered(s)
  BY <1>3, <1>4 DEF OnceEach, Ordered, AsksIn
<1>6. \A op, y : Has(s, op, y) => op = "outcome" /\ y = x
  BY <1>1 DEF Has
<1>7. s # <<>> => s[1][1] = "outcome"
  BY <1>1, <1>2
<1> QED
  BY <1>1, <1>4, <1>5, <1>6, <1>7 DEF s

\* The frames behind the one at work.
LEMMA Rest ==
  ASSUME TypeOK, QueueInv, todo # <<>>
  PROVE  /\ Tail(todo) \in Seq(Frames) /\ Plain(Tail(todo)) /\ ExecFirst(Tail(todo)) /\ Ordered(Tail(todo)) /\ OnceEach(Tail(todo))
         /\ \A op, x : Has(todo, op, x) <=> Has(Tail(todo), op, x) \/ (todo[1][1] = op /\ todo[1][2] = x)
         /\ \A x : todo[1][1] = "forget" /\ todo[1][2] = x => ~Has(Tail(todo), "forget", x)
         /\ todo[1][1] \notin Light => ~AsksIn(Tail(todo))
         /\ AsksIn(todo) <=> AsksIn(Tail(todo)) \/ todo[1][1] \in Asked
<1> DEFINE s == Tail(todo)
<1>1. /\ Len(todo) \in Nat /\ Len(todo) > 0 /\ s \in Seq(Frames) /\ Len(s) = Len(todo) - 1
      /\ \A i \in 1 .. Len(todo) - 1 : s[i] = todo[i + 1]
  BY Head1
<1> HIDE DEF s
<1>2. \A i \in 1 .. Len(s) : i + 1 \in 1 .. Len(todo) /\ s[i] = todo[i + 1]
  BY <1>1
<1>3. \A i \in 1 .. Len(todo) : i = 1 \/ (i - 1 \in 1 .. Len(s) /\ s[i - 1] = todo[i])
  BY <1>1
<1>4. 1 \in 1 .. Len(todo)
  BY <1>1
<1>5. Plain(s)
  <2>1. \A i \in 1 .. Len(s) : i + 1 # 1
    BY <1>1
  <2> QED
    BY <1>2, <2>1 DEF Plain, QueueInv, ExecFirst
<1>6. Ordered(s)
  <2>1. \A i \in 1 .. Len(s) : \A j \in 1 .. i - 1 : j \in 1 .. Len(s) /\ j + 1 \in 1 .. (i + 1) - 1
    BY <1>1
  <2> QED
    BY <1>2, <2>1 DEF Ordered, QueueInv
<1>7. OnceEach(s)
  <2>1. \A i, j \in 1 .. Len(s) : i + 1 = j + 1 => i = j
    BY <1>1
  <2> QED
    BY <1>2, <2>1 DEF OnceEach, QueueInv
<1>8. \A op, x : Has(todo, op, x) <=> Has(s, op, x) \/ (todo[1][1] = op /\ todo[1][2] = x)
  <2>1. ASSUME NEW op, NEW x, NEW i \in 1 .. Len(todo), todo[i][1] = op, todo[i][2] = x
        PROVE  Has(s, op, x) \/ (todo[1][1] = op /\ todo[1][2] = x)
    <3>1. CASE i = 1
      BY <3>1, <2>1
    <3>2. CASE i # 1
      <4>1. i - 1 \in 1 .. Len(s) /\ s[i - 1] = todo[i]
        BY <3>2, <1>3
      <4> QED
        BY <4>1, <2>1 DEF Has
    <3> QED
      BY <3>1, <3>2
  <2>2. \A op, x : Has(s, op, x) => Has(todo, op, x)
    BY <1>2 DEF Has
  <2>3. \A op, x : todo[1][1] = op /\ todo[1][2] = x => Has(todo, op, x)
    BY <1>4 DEF Has
  <2>4. \A op, x : Has(todo, op, x) => Has(s, op, x) \/ (todo[1][1] = op /\ todo[1][2] = x)
    BY <2>1 DEF Has
  <2> QED
    BY <2>2, <2>3, <2>4
<1>9. \A x : todo[1][1] = "forget" /\ todo[1][2] = x => ~Has(s, "forget", x)
  <2>1. \A i \in 1 .. Len(s) : i + 1 # 1
    BY <1>1
  <2> QED
    BY <1>2, <1>4, <2>1 DEF Has, QueueInv, OnceEach
<1>10. todo[1][1] \notin Light => ~AsksIn(s)
  <2>1. \A i \in 1 .. Len(s) : 1 \in 1 .. (i + 1) - 1
    BY <1>1
  <2> QED
    BY <1>2, <2>1 DEF AsksIn, QueueInv, Ordered
<1>11. AsksIn(todo) <=> AsksIn(s) \/ todo[1][1] \in Asked
  <2>1. AsksIn(s) => AsksIn(todo)
    BY <1>2 DEF AsksIn
  <2>2. todo[1][1] \in Asked => AsksIn(todo)
    BY <1>4 DEF AsksIn
  <2>3. ASSUME NEW i \in 1 .. Len(todo), todo[i][1] \in Asked
        PROVE  AsksIn(s) \/ todo[1][1] \in Asked
    <3>1. CASE i = 1
      BY <3>1, <2>3
    <3>2. CASE i # 1
      <4>1. i - 1 \in 1 .. Len(s) /\ s[i - 1] = todo[i]
        BY <3>2, <1>3
      <4> QED
        BY <4>1, <2>3 DEF AsksIn
    <3> QED
      BY <3>1, <3>2
  <2>4. AsksIn(todo) => AsksIn(s) \/ todo[1][1] \in Asked
    BY <2>3 DEF AsksIn
  <2> QED
    BY <2>1, <2>2, <2>4
<1>12. ExecFirst(s)
  BY <1>5 DEF Plain, ExecFirst
<1> QED
  BY <1>1, <1>5, <1>6, <1>7, <1>8, <1>9, <1>10, <1>11, <1>12 DEF s

-----------------------------------------------------------------------------
(* How a handler changes the queue: frames n before, and frames c behind.      *)

Parts(n, c) ==
    /\ n \in Seq(Frames) /\ c \in Seq(Frames)
    /\ ExecFirst(n) /\ OnceEach(n) /\ Ordered(n) /\ \A x : ~Has(n, "forget", x)
    /\ Plain(n) \/ Len(n) = 1
    /\ Plain(c) /\ OnceEach(c) /\ ~AsksIn(c) /\ \A x : ~Has(c, "outcome", x)

\* Frames n, what was left of the queue, frames c: the shape is kept.
LEMMA Turned ==
  ASSUME NEW n, NEW c, Parts(n, c), NEW m \in Seq(Frames), NEW s, s = n \o m \o c,
         Plain(m), Ordered(m), OnceEach(m), Lights(n) \/ ~AsksIn(m),
         \A x : ~(Has(m, "forget", x) /\ Has(c, "forget", x))
  PROVE  /\ s \in Seq(Frames) /\ ExecFirst(s) /\ Ordered(s) /\ OnceEach(s)
         /\ \A x : Has(s, "forget", x) <=> Has(m, "forget", x) \/ Has(c, "forget", x)
         /\ \A x : Has(s, "outcome", x) <=> Has(n, "outcome", x) \/ Has(m, "outcome", x)
         /\ \A op \in Exec : \A x : s # <<>> /\ s[1][1] = op /\ s[1][2] = x <=> n # <<>> /\ n[1][1] = op /\ n[1][2] = x
         /\ AsksIn(s) <=> AsksIn(n) \/ AsksIn(m)
<1> DEFINE t == n \o m
<1>0. /\ n \in Seq(Frames) /\ c \in Seq(Frames) /\ ExecFirst(n) /\ OnceEach(n) /\ Ordered(n)
      /\ (\A x : ~Has(n, "forget", x)) /\ (Plain(n) \/ Len(n) = 1)
      /\ Plain(c) /\ OnceEach(c) /\ ~AsksIn(c) /\ \A x : ~Has(c, "outcome", x)
  BY DEF Parts
<1>1. /\ t \in Seq(Frames)
      /\ \A op, x : Has(t, op, x) <=> Has(n, op, x) \/ Has(m, op, x)
      /\ AsksIn(t) <=> AsksIn(n) \/ AsksIn(m)
      /\ Plain(n) /\ Plain(m) => Plain(t)
      /\ ExecFirst(n) /\ Plain(m) => ExecFirst(t)
      /\ OnceEach(n) /\ OnceEach(m) /\ (\A x : ~(Has(n, "forget", x) /\ Has(m, "forget", x))) => OnceEach(t)
      /\ Ordered(n) /\ ~AsksIn(m) => Ordered(t)
      /\ Lights(n) /\ Ordered(m) => Ordered(t)
      /\ n # <<>> => t # <<>> /\ t[1] = n[1]
      /\ n = <<>> => t = m
  BY <1>0, Joined
<1>2. ExecFirst(t) /\ Ordered(t) /\ OnceEach(t) /\ \A x : ~(Has(t, "forget", x) /\ Has(c, "forget", x))
  BY <1>0, <1>1
<1>3. s = t \o c
  OBVIOUS
<1> HIDE DEF t
<1>4. /\ t \o c \in Seq(Frames)
      /\ \A op, x : Has(t \o c, op, x) <=> Has(t, op, x) \/ Has(c, op, x)
      /\ AsksIn(t \o c) <=> AsksIn(t) \/ AsksIn(c)
      /\ Plain(t) /\ Plain(c) => Plain(t \o c)
      /\ ExecFirst(t) /\ Plain(c) => ExecFirst(t \o c)
      /\ OnceEach(t) /\ OnceEach(c) /\ (\A x : ~(Has(t, "forget", x) /\ Has(c, "forget", x))) => OnceEach(t \o c)
      /\ Ordered(t) /\ ~AsksIn(c) => Ordered(t \o c)
      /\ t # <<>> => t \o c # <<>> /\ (t \o c)[1] = t[1]
      /\ t = <<>> => t \o c = c
  BY <1>0, <1>1, Joined
<1>5. s \in Seq(Frames) /\ ExecFirst(s) /\ Ordered(s) /\ OnceEach(s)
  BY <1>0, <1>2, <1>3, <1>4
<1>6. \A x : Has(s, "forget", x) <=> Has(m, "forget", x) \/ Has(c, "forget", x)
  BY <1>0, <1>1, <1>3, <1>4
<1>7. \A x : Has(s, "outcome", x) <=> Has(n, "outcome", x) \/ Has(m, "outcome", x)
  BY <1>0, <1>1, <1>3, <1>4
<1>8. AsksIn(s) <=> AsksIn(n) \/ AsksIn(m)
  BY <1>0, <1>1, <1>3, <1>4
<1>9. \A op \in Exec : \A x : s # <<>> /\ s[1][1] = op /\ s[1][2] = x <=> n # <<>> /\ n[1][1] = op /\ n[1][2] = x
  <2>1. CASE n # <<>>
    <3>1. s # <<>> /\ s[1] = n[1]
      BY <2>1, <1>1, <1>3, <1>4
    <3> QED
      BY <3>1, <2>1
  <2>2. CASE n = <<>>
    <3>1. Plain(s)
      BY <2>2, <1>0, <1>1, <1>3, <1>4
    <3>2. s # <<>> => 1 \in 1 .. Len(s)
      BY <1>5
    <3>3. s # <<>> => s[1][1] \notin Exec
      BY <3>1, <3>2 DEF Plain
    <3> QED
      BY <3>3, <2>2
  <2> QED
    BY <2>1, <2>2
<1> QED
  BY <1>5, <1>6, <1>7, <1>8, <1>9

\* What is known of the queue after a step that takes the frames of G's ends.
Became(n, c, G) ==
    /\ todo' \in Seq(Frames) /\ ExecFirst(todo') /\ Ordered(todo') /\ OnceEach(todo')
    /\ \A x : Closes(x)' <=> (Closes(x) /\ x \notin G) \/ Has(c, "forget", x)
    /\ \A x : Has(todo', "outcome", x) => Has(n, "outcome", x) \/ Has(todo, "outcome", x)
    /\ \A op \in Exec : \A x : Now(op, x)' <=> n # <<>> /\ n[1][1] = op /\ n[1][2] = x
Gone == IF todo # <<>> /\ todo[1][1] = "forget" THEN {todo[1][2]} ELSE {}

\* The first statement ran: it is gone, n comes next and c last.
LEMMA Popped ==
  ASSUME TypeOK, QueueInv, todo # <<>>, NEW n, NEW c, Parts(n, c), todo' = n \o Tail(todo) \o c,
         Lights(n) \/ todo[1][1] \notin Light, \A x : Has(c, "forget", x) => ~Closes(x)
  PROVE  Became(n, c, Gone) /\ (AsksIn(todo') <=> AsksIn(n) \/ AsksIn(Tail(todo)))
<1> DEFINE m == Tail(todo)
<1>1. /\ m \in Seq(Frames) /\ Plain(m) /\ Ordered(m) /\ OnceEach(m)
      /\ \A op, x : Has(todo, op, x) <=> Has(m, op, x) \/ (todo[1][1] = op /\ todo[1][2] = x)
      /\ \A x : todo[1][1] = "forget" /\ todo[1][2] = x => ~Has(m, "forget", x)
      /\ todo[1][1] \notin Light => ~AsksIn(m)
  BY Rest
<1>2. todo' = n \o m \o c
  OBVIOUS
<1> HIDE DEF m
<1>3. \A x : Has(m, "forget", x) <=> Closes(x) /\ x \notin Gone
  BY <1>1 DEF Closes, Gone
<1>4. (Lights(n) \/ ~AsksIn(m)) /\ \A x : ~(Has(m, "forget", x) /\ Has(c, "forget", x))
  BY <1>1, <1>3
<1>5. /\ todo' \in Seq(Frames) /\ ExecFirst(todo') /\ Ordered(todo') /\ OnceEach(todo')
      /\ \A x : Has(todo', "forget", x) <=> Has(m, "forget", x) \/ Has(c, "forget", x)
      /\ \A x : Has(todo', "outcome", x) <=> Has(n, "outcome", x) \/ Has(m, "outcome", x)
      /\ \A op \in Exec : \A x : todo' # <<>> /\ todo'[1][1] = op /\ todo'[1][2] = x <=> n # <<>> /\ n[1][1] = op /\ n[1][2] = x
      /\ AsksIn(todo') <=> AsksIn(n) \/ AsksIn(m)
  BY <1>1, <1>2, <1>4, Turned
<1> QED
  BY <1>1, <1>3, <1>5 DEF Became, Closes, Now, m

\* The first statement is put off, and n comes first.
LEMMA Pushed ==
  ASSUME TypeOK, QueueInv, NEW n, Parts(n, <<>>), todo' = n \o todo,
         Plain(todo), Lights(n) \/ ~AsksIn(todo)
  PROVE  Became(n, <<>>, {}) /\ (AsksIn(todo') <=> AsksIn(n) \/ AsksIn(todo))
<1>1. todo \in Seq(Frames) /\ Ordered(todo) /\ OnceEach(todo) /\ n \in Seq(Frames)
  BY DEF TypeOK, QueueInv, Parts
<1>2. \A op, x : ~Has(<<>>, op, x)
  BY Empties
<1>3. todo' = n \o todo \o <<>>
  <2>1. n \o todo \in Seq(Frames)
    BY <1>1
  <2> QED
    BY <2>1
<1>5. /\ todo' \in Seq(Frames) /\ ExecFirst(todo') /\ Ordered(todo') /\ OnceEach(todo')
      /\ \A x : Has(todo', "forget", x) <=> Has(todo, "forget", x) \/ Has(<<>>, "forget", x)
      /\ \A x : Has(todo', "outcome", x) <=> Has(n, "outcome", x) \/ Has(todo, "outcome", x)
      /\ \A op \in Exec : \A x : todo' # <<>> /\ todo'[1][1] = op /\ todo'[1][2] = x <=> n # <<>> /\ n[1][1] = op /\ n[1][2] = x
      /\ AsksIn(todo') <=> AsksIn(n) \/ AsksIn(todo)
  BY <1>1, <1>2, <1>3, Turned
<1> QED
  BY <1>5 DEF Became, Closes, Now

\* A handler starts with nothing to be done.
LEMMA Filled ==
  ASSUME TypeOK, QueueInv, todo = <<>>, NEW n, NEW c, Parts(n, c), todo' = n \o c
  PROVE  Became(n, c, {}) /\ (AsksIn(todo') <=> AsksIn(n))
<1>1. n \in Seq(Frames) /\ c \in Seq(Frames) /\ <<>> \in Seq(Frames)
  BY DEF Parts
<1>2. (\A op, x : ~Has(<<>>, op, x)) /\ Plain(<<>>) /\ Ordered(<<>>) /\ OnceEach(<<>>) /\ ~AsksIn(<<>>)
  BY Empties
<1>3. todo' = n \o <<>> \o c
  <2>1. n \o <<>> = n
    BY <1>1
  <2> QED
    BY <2>1
<1>5. /\ todo' \in Seq(Frames) /\ ExecFirst(todo') /\ Ordered(todo') /\ OnceEach(todo')
      /\ \A x : Has(todo', "forget", x) <=> Has(<<>>, "forget", x) \/ Has(c, "forget", x)
      /\ \A x : Has(todo', "outcome", x) <=> Has(n, "outcome", x) \/ Has(<<>>, "outcome", x)
      /\ \A op \in Exec : \A x : todo' # <<>> /\ todo'[1][1] = op /\ todo'[1][2] = x <=> n # <<>> /\ n[1][1] = op /\ n[1][2] = x
      /\ AsksIn(todo') <=> AsksIn(n) \/ AsksIn(<<>>)
  BY <1>1, <1>2, <1>3, Turned
<1>6. \A x : ~Closes(x)
  BY <1>2 DEF Closes
<1> QED
  BY <1>2, <1>5, <1>6 DEF Became, Closes, Now

\* The parts the handlers use.
LEMMA PartsMade ==
  /\ Parts(<<>>, <<>>)
  /\ \A f \in Frames : f[1] # "forget" => Parts(<<f>>, <<>>)
  /\ \A f \in Frames, x \in Runs : f[1] # "forget" => Parts(<<f>>, Closing(x))
  /\ \A x \in Runs : Parts(<<>>, Closing(x))
  /\ \A x \in Runs : \A result : Parts(Counted(x, result), Closing(x)) /\ Parts(Counted(x, result), <<>>)
<1>1. /\ <<>> \in Seq(Frames) /\ \A op, x : ~Has(<<>>, op, x)
      /\ ~AsksIn(<<>>) /\ Plain(<<>>) /\ Ordered(<<>>) /\ OnceEach(<<>>) /\ ExecFirst(<<>>)
  BY Empties
<1>2. ASSUME NEW f \in Frames, f[1] # "forget"
      PROVE  <<f>> \in Seq(Frames) /\ (\A x : ~Has(<<f>>, "forget", x)) /\ Len(<<f>>) = 1
             /\ Ordered(<<f>>) /\ OnceEach(<<f>>) /\ ExecFirst(<<f>>)
  <2>1. <<f>> \in Seq(Frames) /\ (\A op, x : Has(<<f>>, op, x) <=> f[1] = op /\ f[2] = x)
        /\ Ordered(<<f>>) /\ OnceEach(<<f>>) /\ ExecFirst(<<f>>)
    BY Single
  <2> QED
    BY <2>1, <1>2
<1>3. ASSUME NEW x \in Runs
      PROVE  /\ Closing(x) \in Seq(Frames) /\ Plain(Closing(x)) /\ OnceEach(Closing(x))
             /\ ~AsksIn(Closing(x)) /\ \A y : ~Has(Closing(x), "outcome", y)
  <2>1. \A op, y : Has(Closing(x), op, y) <=> (op = "forget" /\ y = x) \/ (op = "drain" /\ y = 0)
    BY ClosingParts
  <2> QED
    BY <2>1, ClosingParts
<1>4. ASSUME NEW x \in Runs, NEW result
      PROVE  /\ Counted(x, result) \in Seq(Frames) /\ Plain(Counted(x, result)) /\ \A y : ~Has(Counted(x, result), "forget", y)
             /\ OnceEach(Counted(x, result)) /\ Ordered(Counted(x, result)) /\ ExecFirst(Counted(x, result))
  <2>1. \A op, y : Has(Counted(x, result), op, y) => op = "outcome" /\ y = x
    BY CountedParts
  <2> QED
    BY <2>1, CountedParts
<1>5. Parts(<<>>, <<>>)
  BY <1>1 DEF Parts
<1>6. \A f \in Frames : f[1] # "forget" => Parts(<<f>>, <<>>)
  BY <1>1, <1>2 DEF Parts
<1>7. \A f \in Frames, x \in Runs : f[1] # "forget" => Parts(<<f>>, Closing(x))
  BY <1>2, <1>3 DEF Parts
<1>8. \A x \in Runs : Parts(<<>>, Closing(x))
  BY <1>1, <1>3 DEF Parts
<1>9. ASSUME NEW x \in Runs, NEW result
      PROVE  Parts(Counted(x, result), Closing(x)) /\ Parts(Counted(x, result), <<>>)
  BY <1>1, <1>3, <1>4, <1>9 DEF Parts
<1> QED
  BY <1>5, <1>6, <1>7, <1>8, <1>9

-----------------------------------------------------------------------------
(* What each kind of change leaves: the frame at work, the runs whose end is   *)
(* on its way, those whose outcome is to be counted.                           *)

Goes(head, ends1, outs) ==
    /\ todo' \in Seq(Frames) /\ ExecFirst(todo') /\ Ordered(todo') /\ OnceEach(todo')
    /\ \A x : Closes(x)' <=> (Closes(x) /\ x \notin Gone) \/ x \in ends1
    /\ \A x : Has(todo', "outcome", x) => x \in outs \/ Has(todo, "outcome", x)
    /\ \A op \in Exec : \A x : Now(op, x)' <=> <<op, x>> \in head

LEMMA BecameGoes ==
  ASSUME NEW n, NEW c, NEW C, NEW O, NEW H, Became(n, c, Gone),
         \A x : Has(c, "forget", x) <=> x \in C, \A x : Has(n, "outcome", x) => x \in O,
         \A op \in Exec : \A x : (n # <<>> /\ n[1][1] = op /\ n[1][2] = x) <=> <<op, x>> \in H
  PROVE  Goes(H, C, O)
BY DEF Became, Goes

LEMMA NoneGone ==
  ASSUME todo = <<>> \/ todo[1][1] # "forget"
  PROVE  Gone = {}
BY DEF Gone

LEMMA OneFrame ==
  ASSUME NEW f \in Frames
  PROVE  /\ \A op \in Exec : \A x : (<<f>> # <<>> /\ <<f>>[1][1] = op /\ <<f>>[1][2] = x) <=> <<op, x>> \in {<<f[1], f[2]>>}
         /\ f[1] # "outcome" => \A x : Has(<<f>>, "outcome", x) => x \in {}
         /\ AsksIn(<<f>>) <=> f[1] \in Asked
         /\ f[1] \in Light => Lights(<<f>>)
<1>1. /\ <<f>> # <<>> /\ <<f>>[1] = f
      /\ \A op, x : Has(<<f>>, op, x) <=> f[1] = op /\ f[2] = x
      /\ AsksIn(<<f>>) <=> f[1] \in Asked
      /\ f[1] \in Light => Lights(<<f>>)
  BY Single
<1> QED
  BY <1>1

LEMMA CountFrames ==
  ASSUME NEW x \in Runs, NEW result
  PROVE  /\ \A op \in Exec : \A y :
               (Counted(x, result) # <<>> /\ Counted(x, result)[1][1] = op /\ Counted(x, result)[1][2] = y) <=> <<op, y>> \in {}
         /\ \A y : Has(Counted(x, result), "outcome", y) => y \in {x}
         /\ ~AsksIn(Counted(x, result)) /\ Lights(Counted(x, result))
<1>1. /\ \A op, y : Has(Counted(x, result), op, y) => op = "outcome" /\ y = x
      /\ ~AsksIn(Counted(x, result)) /\ Lights(Counted(x, result))
      /\ Counted(x, result) # <<>> => Counted(x, result)[1][1] = "outcome"
  BY CountedParts
<1>2. "outcome" \notin Exec
  BY DEF Exec
<1> QED
  BY <1>1, <1>2

LEMMA EmptyFrames ==
  /\ \A op \in Exec : \A y : (<<>> # <<>> /\ <<>>[1][1] = op /\ <<>>[1][2] = y) <=> <<op, y>> \in {}
  /\ \A op, x : ~Has(<<>>, op, x)
  /\ (\A x : Has(<<>>, "forget", x) <=> x \in {}) /\ (\A x : Has(<<>>, "outcome", x) => x \in {})
  /\ ~AsksIn(<<>>) /\ Lights(<<>>) /\ <<>> \in Seq(Frames)
BY Empties

LEMMA CloseFrames ==
  ASSUME NEW x \in Runs
  PROVE  \A y : Has(Closing(x), "forget", y) <=> y \in {x}
<1>1. \A op, y : Has(Closing(x), op, y) <=> (op = "forget" /\ y = x) \/ (op = "drain" /\ y = 0)
  BY ClosingParts
<1> QED
  BY <1>1

\* The frame at work is done, with one frame in its place or none.
LEMMA GoOn ==
  ASSUME TypeOK, QueueInv, todo # <<>>, Front(<<>>)
  PROVE  Goes({}, {}, {}) /\ (AsksIn(todo') <=> AsksIn(Tail(todo)))
<1>1. Parts(<<>>, <<>>) /\ Lights(<<>>)
  BY PartsMade, EmptyFrames
<1>2. todo' = <<>> \o Tail(todo) \o <<>>
  <2>1. Tail(todo) \in Seq(Frames)
    BY Head1
  <2>2. <<>> \o Tail(todo) = Tail(todo) /\ Tail(todo) \o <<>> = Tail(todo)
    BY <2>1
  <2> QED
    BY <2>2 DEF Front
<1>3. Became(<<>>, <<>>, Gone) /\ (AsksIn(todo') <=> AsksIn(<<>>) \/ AsksIn(Tail(todo)))
  BY <1>1, <1>2, EmptyFrames, Popped
<1>4. Goes({}, {}, {})
  BY <1>3, EmptyFrames, BecameGoes
<1> QED
  BY <1>3, <1>4, EmptyFrames

\* The statement ran and another one takes its place.
LEMMA GoTo ==
  ASSUME TypeOK, QueueInv, todo # <<>>, NEW f \in Frames, f[1] \notin {"forget", "outcome"}, Front(<<f>>),
         f[1] \in Light \/ todo[1][1] \notin Light
  PROVE  Goes({<<f[1], f[2]>>}, {}, {}) /\ (AsksIn(todo') <=> f[1] \in Asked \/ AsksIn(Tail(todo)))
<1>1. Parts(<<f>>, <<>>) /\ (f[1] \in Light => Lights(<<f>>))
  BY PartsMade, OneFrame
<1>2. todo' = <<f>> \o Tail(todo) \o <<>>
  <2>1. Tail(todo) \in Seq(Frames) /\ <<f>> \in Seq(Frames)
    BY Head1
  <2>2. (<<f>> \o Tail(todo)) \o <<>> = <<f>> \o Tail(todo)
    BY <2>1
  <2> QED
    BY <2>2 DEF Front
<1>3. Became(<<f>>, <<>>, Gone) /\ (AsksIn(todo') <=> AsksIn(<<f>>) \/ AsksIn(Tail(todo)))
  BY <1>1, <1>2, EmptyFrames, Popped
<1>4. Goes({<<f[1], f[2]>>}, {}, {})
  BY <1>3, EmptyFrames, OneFrame, BecameGoes
<1> QED
  BY <1>3, <1>4, OneFrame

\* The execution of x is over: its finally is to come.
LEMMA GoEnd ==
  ASSUME TypeOK, QueueInv, todo # <<>>, todo[1][1] \notin Light, NEW x \in Runs, ~Closes(x), NEW result,
         todo' = Tail(todo) \o Closing(x) \/ todo' = Counted(x, result) \o Tail(todo) \o Closing(x)
  PROVE  Goes({}, {x}, {x}) /\ (AsksIn(todo') <=> AsksIn(Tail(todo)))
<1>0. \A y : Has(Closing(x), "forget", y) => ~Closes(y)
  BY CloseFrames
<1>1. CASE todo' = Tail(todo) \o Closing(x)
  <2>1. todo' = <<>> \o Tail(todo) \o Closing(x)
    <3>1. Tail(todo) \in Seq(Frames)
      BY Head1
    <3>2. <<>> \o Tail(todo) = Tail(todo)
      BY <3>1
    <3> QED
      BY <3>2, <1>1
  <2>2. Parts(<<>>, Closing(x))
    BY PartsMade
  <2>3. Became(<<>>, Closing(x), Gone) /\ (AsksIn(todo') <=> AsksIn(<<>>) \/ AsksIn(Tail(todo)))
    BY <2>1, <2>2, <1>0, Popped
  <2>4. Goes({}, {x}, {x})
    BY <2>3, EmptyFrames, CloseFrames, BecameGoes
  <2> QED
    BY <2>3, <2>4, EmptyFrames
<1>2. CASE todo' = Counted(x, result) \o Tail(todo) \o Closing(x)
  <2>2. Parts(Counted(x, result), Closing(x))
    BY PartsMade
  <2>3. Became(Counted(x, result), Closing(x), Gone) /\ (AsksIn(todo') <=> AsksIn(Counted(x, result)) \/ AsksIn(Tail(todo)))
    BY <1>2, <2>2, <1>0, Popped
  <2>5. /\ \A op \in Exec : \A y :
               (Counted(x, result) # <<>> /\ Counted(x, result)[1][1] = op /\ Counted(x, result)[1][2] = y) <=> <<op, y>> \in {}
        /\ \A y : Has(Counted(x, result), "outcome", y) => y \in {x}
        /\ \A y : Has(Closing(x), "forget", y) <=> y \in {x}
    BY CountFrames, CloseFrames
  <2>4. Goes({}, {x}, {x})
    BY <2>3, <2>5, BecameGoes
  <2> QED
    BY <2>3, <2>4, CountFrames
<1> QED
  BY <1>1, <1>2

\* The same, by a handler of its own.
LEMMA StartEnd ==
  ASSUME TypeOK, QueueInv, todo = <<>>, NEW x \in Runs, NEW result,
         \/ todo' = Closing(x) \/ todo' = Counted(x, result) \o Closing(x)
  PROVE  Goes({}, {x}, {x}) /\ ~AsksIn(todo')
<1>0. Gone = {}
  BY NoneGone
<1>1. CASE todo' = Closing(x)
  <2>1. Parts(<<>>, Closing(x)) /\ Closing(x) \in Seq(Frames)
    BY PartsMade, ClosingParts
  <2>2. todo' = <<>> \o Closing(x)
    BY <1>1, <2>1
  <2>3. Became(<<>>, Closing(x), {}) /\ (AsksIn(todo') <=> AsksIn(<<>>))
    BY <2>1, <2>2, Filled
  <2>4. Goes({}, {x}, {x})
    BY <2>3, <1>0, EmptyFrames, CloseFrames, BecameGoes
  <2> QED
    BY <2>3, <2>4, EmptyFrames
<1>2. CASE todo' = Counted(x, result) \o Closing(x)
  <2>1. Parts(Counted(x, result), Closing(x))
    BY PartsMade
  <2>3. Became(Counted(x, result), Closing(x), {}) /\ (AsksIn(todo') <=> AsksIn(Counted(x, result)))
    BY <1>2, <2>1, Filled
  <2>5. /\ \A op \in Exec : \A y :
               (Counted(x, result) # <<>> /\ Counted(x, result)[1][1] = op /\ Counted(x, result)[1][2] = y) <=> <<op, y>> \in {}
        /\ \A y : Has(Counted(x, result), "outcome", y) => y \in {x}
        /\ \A y : Has(Closing(x), "forget", y) <=> y \in {x}
    BY CountFrames, CloseFrames
  <2>4. Goes({}, {x}, {x})
    BY <2>3, <2>5, <1>0, BecameGoes
  <2> QED
    BY <2>3, <2>4, CountFrames
<1> QED
  BY <1>1, <1>2

LEMMA StartFinish ==
  ASSUME TypeOK, QueueInv, todo = <<>>, NEW x \in Runs, NEW result \in Results,
         todo' = <<<<"finish", x, result>>>> \o Closing(x)
  PROVE  Goes({<<"finish", x>>}, {x}, {}) /\ ~AsksIn(todo')
<1> DEFINE f == <<"finish", x, result>>
<1>1. f \in Frames /\ f[1] = "finish" /\ f[2] = x
  BY FrameIn, Zenon
<1> HIDE DEF f
<1>2. Parts(<<f>>, Closing(x)) /\ todo' = <<f>> \o Closing(x)
  BY <1>1, PartsMade DEF f
<1>3. Became(<<f>>, Closing(x), {}) /\ (AsksIn(todo') <=> AsksIn(<<f>>))
  BY <1>2, Filled
<1>4. Gone = {}
  BY NoneGone
<1>5. Goes({<<f[1], f[2]>>}, {x}, {})
  BY <1>1, <1>3, <1>4, OneFrame, CloseFrames, BecameGoes
<1>6. ~AsksIn(<<f>>)
  BY <1>1, OneFrame DEF Asked
<1> QED
  BY <1>1, <1>3, <1>5, <1>6

LEMMA StartOne ==
  ASSUME TypeOK, QueueInv, todo = <<>>, NEW f \in Frames, f[1] \notin {"forget", "outcome"}, todo' = <<f>>
  PROVE  Goes({<<f[1], f[2]>>}, {}, {}) /\ (AsksIn(todo') <=> f[1] \in Asked)
<1>1. Parts(<<f>>, <<>>) /\ <<f>> \in Seq(Frames)
  BY PartsMade, Single
<1>2. todo' = <<f>> \o <<>>
  BY <1>1
<1>3. Became(<<f>>, <<>>, {}) /\ (AsksIn(todo') <=> AsksIn(<<f>>))
  BY <1>1, <1>2, Filled
<1>4. Gone = {}
  BY NoneGone
<1>6. /\ \A op \in Exec : \A x : (<<f>> # <<>> /\ <<f>>[1][1] = op /\ <<f>>[1][2] = x) <=> <<op, x>> \in {<<f[1], f[2]>>}
      /\ \A x : Has(<<f>>, "outcome", x) => x \in {}
      /\ \A x : Has(<<>>, "forget", x) <=> x \in {}
  BY OneFrame, EmptyFrames
<1>5. Goes({<<f[1], f[2]>>}, {}, {})
  BY <1>3, <1>4, <1>6, BecameGoes
<1> QED
  BY <1>3, <1>5, OneFrame

\* A frame goes before the one at work, which stays.
LEMMA GoFirst ==
  ASSUME TypeOK, QueueInv, todo # <<>>, todo[1][1] \notin Exec \cup {"forget"}, NEW f \in Frames, f[1] \notin {"forget", "outcome"},
         todo' = <<f>> \o todo, f[1] \in Light \/ ~AsksIn(todo)
  PROVE  Goes({<<f[1], f[2]>>}, {}, {}) /\ (AsksIn(todo') <=> f[1] \in Asked \/ AsksIn(todo))
<1>1. Parts(<<f>>, <<>>) /\ (f[1] \in Light => Lights(<<f>>))
  BY PartsMade, OneFrame
<1>2. Plain(todo)
  BY DEF QueueInv, Plain, ExecFirst
<1>3. Became(<<f>>, <<>>, {}) /\ (AsksIn(todo') <=> AsksIn(<<f>>) \/ AsksIn(todo))
  BY <1>1, <1>2, Pushed
<1>4. Gone = {}
  BY NoneGone
<1>6. /\ \A op \in Exec : \A x : (<<f>> # <<>> /\ <<f>>[1][1] = op /\ <<f>>[1][2] = x) <=> <<op, x>> \in {<<f[1], f[2]>>}
      /\ \A x : Has(<<f>>, "outcome", x) => x \in {}
      /\ \A x : Has(<<>>, "forget", x) <=> x \in {}
  BY OneFrame, EmptyFrames
<1>5. Goes({<<f[1], f[2]>>}, {}, {})
  BY <1>3, <1>4, <1>6, BecameGoes
<1> QED
  BY <1>3, <1>5, OneFrame

\* An outcome is to be counted next.
LEMMA GoCount ==
  ASSUME TypeOK, QueueInv, todo # <<>>, todo[1][1] # "forget", NEW x \in Runs, NEW result,
         (todo[1][1] \notin Exec /\ todo' = Counted(x, result) \o todo) \/ Front(Counted(x, result))
  PROVE  Goes({}, {}, {x}) /\ (AsksIn(todo') => AsksIn(todo))
<1>0. Gone = {} /\ Parts(Counted(x, result), <<>>)
  BY NoneGone, PartsMade
<1>1. CASE todo[1][1] \notin Exec /\ todo' = Counted(x, result) \o todo
  <2>1. Plain(todo)
    BY <1>1 DEF QueueInv, Plain, ExecFirst
  <2>2. Became(Counted(x, result), <<>>, {}) /\ (AsksIn(todo') <=> AsksIn(Counted(x, result)) \/ AsksIn(todo))
    BY <1>0, <1>1, <2>1, CountFrames, Pushed
  <2>5. /\ \A op \in Exec : \A y :
               (Counted(x, result) # <<>> /\ Counted(x, result)[1][1] = op /\ Counted(x, result)[1][2] = y) <=> <<op, y>> \in {}
        /\ \A y : Has(Counted(x, result), "outcome", y) => y \in {x}
        /\ \A y : Has(<<>>, "forget", y) <=> y \in {}
    BY CountFrames, EmptyFrames
  <2>3. Goes({}, {}, {x})
    BY <2>2, <2>5, <1>0, BecameGoes
  <2> QED
    BY <2>2, <2>3, CountFrames
<1>2. CASE Front(Counted(x, result))
  <2>1. todo' = Counted(x, result) \o Tail(todo) \o <<>>
    <3>1. Tail(todo) \in Seq(Frames) /\ Counted(x, result) \in Seq(Frames)
      BY Head1, CountedParts
    <3>2. (Counted(x, result) \o Tail(todo)) \o <<>> = Counted(x, result) \o Tail(todo)
      BY <3>1
    <3> QED
      BY <3>2, <1>2 DEF Front
  <2>2. Became(Counted(x, result), <<>>, Gone) /\ (AsksIn(todo') <=> AsksIn(Counted(x, result)) \/ AsksIn(Tail(todo)))
    BY <1>0, <2>1, CountFrames, EmptyFrames, Popped
  <2>5. /\ \A op \in Exec : \A y :
               (Counted(x, result) # <<>> /\ Counted(x, result)[1][1] = op /\ Counted(x, result)[1][2] = y) <=> <<op, y>> \in {}
        /\ \A y : Has(Counted(x, result), "outcome", y) => y \in {x}
        /\ \A y : Has(<<>>, "forget", y) <=> y \in {}
    BY CountFrames, EmptyFrames
  <2>3. Goes({}, {}, {x})
    BY <2>2, <2>5, <1>0, BecameGoes
  <2>4. AsksIn(Tail(todo)) => AsksIn(todo)
    BY Rest
  <2> QED
    BY <2>2, <2>3, <2>4, CountFrames
<1> QED
  BY <1>1, <1>2

-----------------------------------------------------------------------------
(* The steps, by what they change of a run.                                    *)

\* The statement at the head, and what it is about.
LEMMA AtWork ==
  ASSUME TypeOK, QueueInv, NEW op, Doing(op)
  PROVE  /\ up /\ todo # <<>> /\ todo[1][1] = op /\ Arg = todo[1][2] /\ todo[1] \in Frames /\ Head(todo) = todo[1]
         /\ Now(op, Arg) /\ \A o, y : Now(o, y) => o = op /\ y = Arg
         /\ op # "forget" => Gone = {}
         /\ op \in Exec => Arg \in Runs /\ Arg \in Live /\ (op = "finish" <=> Closes(Arg))
<1>1. up /\ todo # <<>> /\ Head(todo)[1] = op
  BY DEF Doing
<1>2. Head(todo) = todo[1] /\ todo[1] \in Frames
  BY <1>1, Head1
<1>3. op \in Exec => Arg \in Runs
  BY <1>1, <1>2, FrameShape DEF Arg
<1>4. Now(op, Arg) /\ \A o, y : Now(o, y) => o = op /\ y = Arg
  BY <1>1, <1>2 DEF Now, Arg
<1>5. op \in Exec => Arg \in Live /\ (op = "finish" <=> Closes(Arg))
  BY <1>3, <1>4 DEF QueueInv
<1> QED
  BY <1>1, <1>2, <1>3, <1>4, <1>5 DEF Arg, Gone

\* Nothing is to be done.
LEMMA AtRest ==
  ASSUME TypeOK, QueueInv, todo = <<>>
  PROVE  (\A op, x : ~Now(op, x)) /\ (\A op, x : ~Has(todo, op, x)) /\ ~AsksIn(todo) /\ Gone = {} /\ \A x : ~Closes(x) /\ ~Ending(x)
BY Empties DEF Now, Gone, Closes, Ending

NoWork == \A op \in Exec : \A x \in Runs : ~Now(op, x)
SameEnds == \A x \in Runs : Closes(x)' <=> Closes(x)
Keeps == UNCHANGED <<stop, exists, deleting, up>>

(* Nothing of a run, of a loop or of what a run is at changes.                 *)
Quiet ==
    /\ NoWork /\ NoWork' /\ SameEnds /\ Keeps /\ UNCHANGED <<run, loop, home>> /\ armed' \subseteq armed
    /\ \A x \in Runs : pc'[x] = pc[x] \/ (pc[x] \in {"send", "wait"} /\ pc'[x] \in {"wait", "windDown"})

(* A live run ends, or the statement that ends it is run.                      *)
Ends(x) ==
    /\ up /\ x \in Live /\ (~Closes(x) \/ Now("finish", x)) /\ ~Now("loopRecord", x)
    /\ \A op \in Exec : \A y \in Runs : Now(op, y) => y = x
    /\ \E result : Finish(x, result)
    /\ \A y \in Runs : Closes(y)' <=> Closes(y) \/ y = x
    /\ NoWork' /\ Keeps /\ UNCHANGED <<loop, home, pc>>

(* The row of a run that is not at work ends.                                  *)
RowEnds(x) ==
    /\ run[x].status \in Active /\ (x \notin Live \/ run[x].loop)
    /\ \E result : run' = [run EXCEPT ![x] = Row(x, result)]
    /\ loop' = loop \/ loop' = [loop EXCEPT ![x] = "over"]
    /\ loop[x] # "active" \/ loop'[x] = "over"
    /\ NoWork /\ NoWork' /\ SameEnds /\ Keeps /\ UNCHANGED <<home, pc>> /\ armed' \subseteq armed

QueueNext ==
    /\ todo' \in Seq(Frames) /\ ExecFirst(todo') /\ Ordered(todo') /\ OnceEach(todo')
    /\ \A x \in Runs : Has(todo', "outcome", x) => run[x].routine \in Routines

\* Frames that are about no run.
LEMMA Errands ==
  ASSUME NEW s, s \in Seq(Frames), \A i \in 1 .. Len(s) : s[i][1] \in {"fire", "follow", "listDue", "drain"}
  PROVE  Parts(s, <<>>) /\ ~AsksIn(s) /\ (\A x : ~Has(s, "outcome", x))
         /\ \A op \in Exec : \A x : ~(s # <<>> /\ s[1][1] = op /\ s[1][2] = x)
<1>1. Plain(s) /\ ExecFirst(s)
  BY DEF Plain, ExecFirst, Exec
<1>2. ~AsksIn(s) /\ Ordered(s)
  BY DEF AsksIn, Ordered, Asked
<1>3. OnceEach(s)
  BY DEF OnceEach
<1>4. \A x : ~Has(s, "outcome", x) /\ ~Has(s, "forget", x)
  BY DEF Has
<1>5. s # <<>> => 1 \in 1 .. Len(s)
  OBVIOUS
<1>6. \A op \in Exec : \A x : ~(s # <<>> /\ s[1][1] = op /\ s[1][2] = x)
  BY <1>5 DEF Exec
<1> QED
  BY <1>1, <1>2, <1>3, <1>4, <1>6, Empties DEF Parts

LEMMA TickQueue ==
  ASSUME TypeOK, QueueInv, Tick
  PROVE  Goes({}, {}, {}) /\ ~AsksIn(todo') /\ todo = <<>>
<1> DEFINE s == <<<<"follow", 0>>, <<"listDue", 0>>, <<"follow", 0>>, <<"drain", 0>>>>
<1>1. <<"follow", 0>> \in Frames /\ <<"drain", 0>> \in Frames /\ <<"listDue", 0>> \in Frames
  BY FrameIn, Zenon
<1>2. s \in Seq(Frames) /\ Len(s) = 4
  BY <1>1
<1>3. todo = <<>> /\ todo' = s
  BY DEF Tick, Idle
<1>4. \A i \in 1 .. 4 : s[i][1] \in {"fire", "follow", "listDue", "drain"}
  OBVIOUS
<1> HIDE DEF s
<1>5. /\ Parts(s, <<>>) /\ ~AsksIn(s) /\ (\A x : ~Has(s, "outcome", x))
      /\ \A op \in Exec : \A x : ~(s # <<>> /\ s[1][1] = op /\ s[1][2] = x)
  BY <1>2, <1>4, Errands
<1>6. todo' = s \o <<>>
  BY <1>2, <1>3
<1>7. Became(s, <<>>, {}) /\ (AsksIn(todo') <=> AsksIn(s))
  BY <1>3, <1>5, <1>6, Filled
<1>8. Gone = {}
  BY <1>3, NoneGone
<1>9. Goes({}, {}, {})
  BY <1>5, <1>7, <1>8, EmptyFrames, BecameGoes
<1> QED
  BY <1>3, <1>5, <1>7, <1>9

LEMMA ListQueue ==
  ASSUME TypeOK, QueueInv, ListDue
  PROVE  Goes({}, {}, {}) /\ ~AsksIn(todo') /\ ~AsksIn(todo)
<1>0. Doing("listDue")
  BY DEF ListDue
<1>1. todo # <<>> /\ todo[1][1] = "listDue"
  BY <1>0, AtWork
<1>2. PICK f \in [1 .. Cardinality(Due) -> Due] : Front([i \in DOMAIN f |-> <<"fire", f[i]>>])
  BY DEF ListDue
<1> DEFINE s == [i \in DOMAIN f |-> <<"fire", f[i]>>]
<1>3. Cardinality(Due) \in Nat /\ Due \subseteq Routines
  <2>1. Due \in SUBSET Routines
    BY DEF Due
  <2> QED
    BY <2>1, Facts, FS_Subset, FS_CardinalityType
<1>4. \A i \in 1 .. Cardinality(Due) : <<"fire", f[i]>> \in Frames
  BY <1>3, FrameIn, Zenon
<1>5. s \in Seq(Frames) /\ DOMAIN s = 1 .. Cardinality(Due)
  BY <1>3, <1>4
<1>51. \A i \in 1 .. Cardinality(Due) : s[i][1] = "fire"
  OBVIOUS
<1> HIDE DEF s
<1>52. Len(s) = Cardinality(Due)
  BY <1>3, <1>5
<1>6. \A i \in 1 .. Len(s) : s[i][1] \in {"fire", "follow", "listDue", "drain"}
  BY <1>51, <1>52
<1>7. /\ Parts(s, <<>>) /\ ~AsksIn(s) /\ (\A x : ~Has(s, "outcome", x))
      /\ \A op \in Exec : \A x : ~(s # <<>> /\ s[1][1] = op /\ s[1][2] = x)
  BY <1>5, <1>6, Errands
<1>8. todo' = s \o Tail(todo) \o <<>>
  <2>1. Tail(todo) \in Seq(Frames) /\ todo' = s \o Tail(todo)
    BY <1>1, <1>2, Head1 DEF Front, s
  <2>2. s \o Tail(todo) \in Seq(Frames)
    BY <2>1, <1>5
  <2> QED
    BY <2>1, <2>2
<1>9. todo[1][1] \notin Light
  BY <1>1 DEF Light
<1>10. Became(s, <<>>, Gone) /\ (AsksIn(todo') <=> AsksIn(s) \/ AsksIn(Tail(todo)))
  BY <1>1, <1>7, <1>8, <1>9, EmptyFrames, Popped
<1>13. /\ \A op \in Exec : \A x : (s # <<>> /\ s[1][1] = op /\ s[1][2] = x) <=> <<op, x>> \in {}
       /\ (\A x : Has(s, "outcome", x) => x \in {}) /\ (\A x : Has(<<>>, "forget", x) <=> x \in {})
  BY <1>7, EmptyFrames
<1>11. Goes({}, {}, {})
  BY <1>10, <1>13, BecameGoes
<1>12. ~AsksIn(Tail(todo)) /\ (AsksIn(todo) <=> AsksIn(Tail(todo)) \/ todo[1][1] \in Asked)
  BY <1>1, <1>9, Rest
<1> QED
  BY <1>1, <1>7, <1>10, <1>11, <1>12 DEF Asked

\* What a handler that changes no run leaves of the queue.
LEMMA Calm ==
  ASSUME TypeOK, QueueInv, NEW f, Goes({f}, {}, {}) \/ Goes({}, {}, {}), f[1] \notin Exec, Gone = {}, NoWork
  PROVE  QueueNext /\ NoWork' /\ SameEnds
<1>1. /\ todo' \in Seq(Frames) /\ ExecFirst(todo') /\ Ordered(todo') /\ OnceEach(todo')
      /\ \A x : Closes(x)' <=> Closes(x)
      /\ \A x : Has(todo', "outcome", x) => Has(todo, "outcome", x)
  BY DEF Goes
<1>2. \A op \in Exec : \A x : ~Now(op, x)'
  BY DEF Goes
<1> QED
  BY <1>1, <1>2 DEF QueueNext, QueueInv, NoWork, SameEnds

\* A handler that changes no run puts one frame in its place, or before it.
LEMMA CalmPop ==
  ASSUME TypeOK, QueueInv, NEW op, Doing(op), op \notin Exec \cup {"forget"}, Front(<<>>)
  PROVE  QueueNext /\ NoWork /\ NoWork' /\ SameEnds
<1>1. todo # <<>> /\ todo[1][1] = op /\ Gone = {} /\ \A o, y : Now(o, y) => o = op
  BY AtWork
<1>2. NoWork
  BY <1>1 DEF NoWork
<1>3. Goes({}, {}, {})
  BY <1>1, GoOn
<1>4. <<"drain", 0>>[1] \notin Exec
  BY DEF Exec
<1> QED
  BY <1>1, <1>2, <1>3, <1>4, Calm

LEMMA CalmTo ==
  ASSUME TypeOK, QueueInv, NEW op, Doing(op), op \notin Exec \cup {"forget"},
         NEW f \in Frames, f[1] \notin Exec \cup {"forget", "outcome"}, f[1] \in Light \/ op \notin Light, Front(<<f>>)
  PROVE  QueueNext /\ NoWork /\ NoWork' /\ SameEnds
<1>1. todo # <<>> /\ todo[1][1] = op /\ Gone = {} /\ \A o, y : Now(o, y) => o = op
  BY AtWork
<1>2. NoWork
  BY <1>1 DEF NoWork
<1>3. Goes({<<f[1], f[2]>>}, {}, {})
  BY <1>1, GoTo
<1>4. <<f[1], f[2]>>[1] \notin Exec
  OBVIOUS
<1> QED
  BY <1>1, <1>2, <1>3, <1>4, Calm

LEMMA CalmFirst ==
  ASSUME TypeOK, QueueInv, NEW op, Doing(op), op \notin Exec \cup {"forget"},
         NEW f \in Frames, f[1] \in Light \ {"outcome"}, todo' = <<f>> \o todo
  PROVE  QueueNext /\ NoWork /\ NoWork' /\ SameEnds
<1>1. todo # <<>> /\ todo[1][1] = op /\ Gone = {} /\ \A o, y : Now(o, y) => o = op
  BY AtWork
<1>2. NoWork
  BY <1>1 DEF NoWork
<1>3. Goes({<<f[1], f[2]>>}, {}, {})
  BY <1>1, GoFirst DEF Light
<1>4. <<f[1], f[2]>>[1] \notin Exec
  BY DEF Light, Exec
<1> QED
  BY <1>1, <1>2, <1>3, <1>4, Calm

LEMMA CalmStart ==
  ASSUME TypeOK, QueueInv, todo = <<>>, NEW f \in Frames, f[1] \notin Exec \cup {"forget", "outcome"}, todo' = <<f>>
  PROVE  QueueNext /\ NoWork /\ NoWork' /\ SameEnds
<1>1. NoWork /\ Gone = {}
  BY AtRest DEF NoWork
<1>2. Goes({<<f[1], f[2]>>}, {}, {})
  BY StartOne
<1>3. <<f[1], f[2]>>[1] \notin Exec
  OBVIOUS
<1> QED
  BY <1>1, <1>2, <1>3, Calm

LEMMA CalmSame ==
  ASSUME TypeOK, QueueInv, UNCHANGED todo, \A op \in Exec : \A x \in Runs : ~Now(op, x)
  PROVE  QueueNext /\ NoWork /\ NoWork' /\ SameEnds
<1>1. todo \in Seq(Frames) /\ NoWork
  BY DEF TypeOK, NoWork
<1> QED
  BY <1>1 DEF QueueNext, QueueInv, NoWork, SameEnds, Closes, Now

Still == UNCHANGED <<run, loop, home, pc, stop, exists, deleting, up>> /\ armed' \subseteq armed

LEMMA CalmQuiet ==
  ASSUME Still, NoWork, NoWork', SameEnds
  PROVE  Quiet
BY DEF Still, Quiet, Keeps

\* The steps that leave runs and loops alone.
LEMMA QuietOwner ==
  ASSUME TypeOK, QueueInv,
         \/ \E r \in Routines : FallsDue(r) \/ Pause(r) \/ Resume(r)
         \/ \E x \in Runs : AgentTurns(x) \/ OwnerTalks(x) \/ OwnerDone(x)
  PROVE  Quiet /\ QueueNext
<1> USE DEF rowVars, fireVars, liveVars, procVars, sessVars, histVars
<1>1. todo = <<>> /\ UNCHANGED todo /\ Still
  BY DEF FallsDue, Pause, Resume, AgentTurns, OwnerTalks, OwnerDone, Idle, Still
<1>2. QueueNext /\ NoWork /\ NoWork' /\ SameEnds
  BY <1>1, AtRest, CalmSame
<1> QED
  BY <1>1, <1>2, CalmQuiet

LEMMA QuietFire ==
  ASSUME TypeOK, QueueInv, NEW r \in Routines, NEW manual \in BOOLEAN, Fire(r, manual)
  PROVE  Quiet /\ QueueNext /\ todo = <<>> /\ AsksIn(todo')
<1> USE DEF rowVars, fireVars, liveVars, procVars, sessVars, histVars
<1> DEFINE f == <<"admit", r, 0, manual>>
<1>1. todo = <<>> /\ todo' = <<f>> /\ Still
  BY DEF Fire, Idle, Still
<1>2. 0 \in 0 .. MaxDue
  BY Facts
<1>3. f \in Frames
  BY <1>2, FrameIn, Zenon
<1>4. f[1] = "admit"
  OBVIOUS
<1> HIDE DEF f
<1>5. f[1] \notin Exec \cup {"forget", "outcome"} /\ f[1] \in Asked
  BY <1>4 DEF Exec, Asked
<1>6. QueueNext /\ NoWork /\ NoWork' /\ SameEnds
  BY <1>1, <1>3, <1>5, CalmStart
<1>7. AsksIn(todo')
  BY <1>1, <1>3, <1>5, StartOne
<1> QED
  BY <1>1, <1>6, <1>7, CalmQuiet

LEMMA QuietSent ==
  ASSUME TypeOK, QueueInv, NEW x \in Runs, Sent(x) \/ StartsWindDown(x)
  PROVE  Quiet /\ QueueNext
<1> USE DEF rowVars, fireVars, liveVars, procVars, sessVars, histVars
<1>1. todo = <<>> /\ UNCHANGED <<todo, run, loop, stop, home, exists, deleting, up, armed>>
      /\ pc[x] \in {"send", "wait"} /\ \E v \in {"wait", "windDown"} : pc' = [pc EXCEPT ![x] = v]
  BY DEF Sent, StartsWindDown, Idle
<1>2. QueueNext /\ NoWork /\ NoWork' /\ SameEnds
  BY <1>1, AtRest, CalmSame
<1>3. \A y \in Runs : pc'[y] = pc[y] \/ (pc[y] \in {"send", "wait"} /\ pc'[y] \in {"wait", "windDown"})
  BY <1>1 DEF TypeOK
<1> QED
  BY <1>1, <1>2, <1>3 DEF Quiet, Keeps

LEMMA QuietTick ==
  ASSUME TypeOK, QueueInv, Tick
  PROVE  Quiet /\ QueueNext
<1> USE DEF rowVars, fireVars, liveVars, procVars, sessVars, histVars
<1>1. Still
  BY DEF Tick, Still
<1>2. Goes({}, {}, {}) /\ NoWork /\ Gone = {}
  BY TickQueue, AtRest DEF NoWork
<1>3. <<"drain", 0>>[1] \notin Exec
  BY DEF Exec
<1>4. QueueNext /\ NoWork' /\ SameEnds
  BY <1>2, <1>3, Calm
<1> QED
  BY <1>1, <1>2, <1>4, CalmQuiet

LEMMA QuietList ==
  ASSUME TypeOK, QueueInv, ListDue
  PROVE  Quiet /\ QueueNext
<1> USE DEF rowVars, fireVars, liveVars, procVars, sessVars, histVars
<1>1. Still /\ Doing("listDue")
  BY DEF ListDue, Still
<1>2. Gone = {} /\ \A o, y : Now(o, y) => o = "listDue"
  BY <1>1, AtWork
<1>3. NoWork
  BY <1>2 DEF NoWork, Exec
<1>4. <<"drain", 0>>[1] \notin Exec
  BY DEF Exec
<1>5. QueueNext /\ NoWork' /\ SameEnds
  BY <1>2, <1>3, <1>4, ListQueue, Calm
<1> QED
  BY <1>1, <1>3, <1>5, CalmQuiet

\* A claimed fire is the frame at work next.
LEMMA Claims ==
  ASSUME TypeOK, QueueInv, DueInv, ClaimFire
  PROVE  /\ todo # <<>> /\ Arg \in Routines /\ todo[1][1] = "fire" /\ todo[1] \in Frames
         /\ \/ Front(<<>>) /\ UNCHANGED <<due, claimed>>
            \/ /\ due[Arg] /\ enabled[Arg] /\ exists[Arg] /\ Arg \notin deleting /\ MovesOn(Arg)
               /\ claimed[Arg] + 1 \in 1 .. MaxDue
               /\ \E f \in Frames : /\ f[1] \in Asked /\ f[2] = Arg /\ f[3] = claimed[Arg] + 1 /\ Front(<<f>>)
<1>1. Doing("fire")
  BY DEF ClaimFire
<1>2. todo # <<>> /\ todo[1] \in Frames /\ todo[1][1] = "fire" /\ Arg = todo[1][2]
  BY <1>1, AtWork
<1>3. Arg \in Routines
  BY <1>2, FrameShape
<1>4. CASE ~(due[Arg] /\ enabled[Arg] /\ exists[Arg] /\ Arg \notin deleting)
  BY <1>2, <1>3, <1>4 DEF ClaimFire
<1>5. CASE due[Arg] /\ enabled[Arg] /\ exists[Arg] /\ Arg \notin deleting
  <2>1. MovesOn(Arg) /\ \E next \in AfterClaim(Arg, claimed[Arg] + 1) : Front(<<next>>)
    BY <1>5 DEF ClaimFire
  <2>2. claimed[Arg] + 1 \in 1 .. MaxDue
    BY <1>3, <1>5, Facts DEF TypeOK, DueInv
  <2>3. PICK f \in AfterClaim(Arg, claimed[Arg] + 1) : Front(<<f>>)
    BY <2>1
  <2>4. f = <<"admit", Arg, claimed[Arg] + 1, FALSE>> \/ f = <<"skip", Arg, claimed[Arg] + 1>>
    BY <2>3 DEF AfterClaim
  <2>5. claimed[Arg] + 1 \in 0 .. MaxDue
    BY <2>2
  <2>6. <<"admit", Arg, claimed[Arg] + 1, FALSE>> \in Frames
    BY <1>3, <2>5, FrameIn, Zenon
  <2>7. <<"skip", Arg, claimed[Arg] + 1>> \in Frames
    BY <1>3, <2>5, FrameIn, Zenon
  <2>8. f \in Frames
    BY <2>4, <2>6, <2>7
  <2>9. f[1] \in Asked /\ f[2] = Arg /\ f[3] = claimed[Arg] + 1
    <3>1. \A r, k, b : <<"admit", r, k, b>>[1] = "admit" /\ <<"admit", r, k, b>>[2] = r /\ <<"admit", r, k, b>>[3] = k
      OBVIOUS
    <3>2. \A r, k : <<"skip", r, k>>[1] = "skip" /\ <<"skip", r, k>>[2] = r /\ <<"skip", r, k>>[3] = k
      OBVIOUS
    <3> DEFINE k1 == claimed[Arg] + 1
    <3>3. f = <<"admit", Arg, k1, FALSE>> \/ f = <<"skip", Arg, k1>>
      BY <2>4
    <3> HIDE DEF k1
    <3>4. f[1] \in Asked /\ f[2] = Arg /\ f[3] = k1
      <4>1. CASE f = <<"admit", Arg, k1, FALSE>>
        BY <3>1, <4>1 DEF Asked
      <4>2. CASE f = <<"skip", Arg, k1>>
        BY <3>2, <4>2 DEF Asked
      <4> QED
        BY <3>3, <4>1, <4>2
    <3> QED
      BY <3>4 DEF k1
  <2> QED
    BY <1>2, <1>3, <1>5, <2>1, <2>2, <2>3, <2>8, <2>9
<1> QED
  BY <1>4, <1>5

LEMMA QuietClaim ==
  ASSUME TypeOK, QueueInv, DueInv, ClaimFire
  PROVE  Quiet /\ QueueNext
<1> USE DEF rowVars, fireVars, liveVars, procVars, sessVars, histVars
<1>1. Still /\ Doing("fire")
  BY DEF ClaimFire, Still
<1>2. "fire" \notin Exec \cup {"forget"} /\ "fire" \notin Light
  BY DEF Exec, Light
<1>3. CASE Front(<<>>)
  <2>1. QueueNext /\ NoWork /\ NoWork' /\ SameEnds
    BY <1>1, <1>2, <1>3, CalmPop
  <2> QED
    BY <1>1, <2>1, CalmQuiet
<1>4. CASE ~Front(<<>>)
  <2>1. PICK f \in Frames : f[1] \in Asked /\ Front(<<f>>)
    BY <1>4, Claims
  <2>2. f[1] \notin Exec \cup {"forget", "outcome"}
    BY <2>1 DEF Asked, Exec
  <2>3. QueueNext /\ NoWork /\ NoWork' /\ SameEnds
    BY <1>1, <1>2, <2>1, <2>2, CalmTo
  <2> QED
    BY <1>1, <2>3, CalmQuiet
<1> QED
  BY <1>3, <1>4

LEMMA QuietPops ==
  ASSUME TypeOK, QueueInv, RecordSkip \/ DrainEnds \/ AutoPause \/ (FollowLoops /\ Over(Arg) = {})
  PROVE  Quiet /\ QueueNext
<1> USE DEF rowVars, fireVars, liveVars, procVars, sessVars, histVars
<1>1. Still /\ Front(<<>>) /\ \E op \in {"skip", "drain", "pause", "follow"} : Doing(op)
  BY DEF RecordSkip, DrainEnds, AutoPause, FollowLoops, Still
<1>2. PICK op \in {"skip", "drain", "pause", "follow"} : Doing(op)
  BY <1>1
<1>3. op \notin Exec \cup {"forget"}
  BY <1>2 DEF Exec
<1>4. QueueNext /\ NoWork /\ NoWork' /\ SameEnds
  BY <1>1, <1>2, <1>3, CalmPop
<1> QED
  BY <1>1, <1>4, CalmQuiet

LEMMA QuietOutcome ==
  ASSUME TypeOK, QueueInv, RecordOutcome
  PROVE  Quiet /\ QueueNext
<1> USE DEF rowVars, fireVars, liveVars, procVars, sessVars, histVars
<1>1. Still /\ Doing("outcome")
  BY DEF RecordOutcome, Still
<1>2. todo # <<>> /\ todo[1] \in Frames /\ todo[1][1] = "outcome" /\ Arg = todo[1][2]
  BY <1>1, AtWork
<1>3. Arg \in Runs
  BY <1>2, FrameShape
<1>4. run[Arg].routine \in Routines
  <2>1. Has(todo, "outcome", Arg)
    BY <1>2, Rest
  <2> QED
    BY <1>3, <2>1 DEF QueueInv
<1>5. "outcome" \notin Exec \cup {"forget"}
  BY DEF Exec
<1>6. CASE Front(<<>>)
  <2>1. QueueNext /\ NoWork /\ NoWork' /\ SameEnds
    BY <1>1, <1>5, <1>6, CalmPop
  <2> QED
    BY <1>1, <2>1, CalmQuiet
<1>7. CASE ~Front(<<>>)
  <2> DEFINE f == <<"pause", run[Arg].routine>>
  <2>1. Front(<<f>>)
    BY <1>7 DEF RecordOutcome
  <2>2. f \in Frames
    BY <1>4, FrameIn, Zenon
  <2>3. f[1] = "pause"
    OBVIOUS
  <2> HIDE DEF f
  <2>4. f[1] \notin Exec \cup {"forget", "outcome"} /\ f[1] \in Light
    BY <2>3 DEF Exec, Light
  <2>5. QueueNext /\ NoWork /\ NoWork' /\ SameEnds
    BY <1>1, <1>5, <2>1, <2>2, <2>4, CalmTo
  <2> QED
    BY <1>1, <2>5, CalmQuiet
<1> QED
  BY <1>6, <1>7

\* An ask that is turned down: for a delete, for a loop to be looked at first, for what is in flight.
Declined(r) == r \in deleting \/ LoopIsOver(r) \/ StandsDown(r)
LEMMA Declines ==
  ASSUME TypeOK, QueueInv, Admit, Declined(Arg)
  PROVE  /\ todo # <<>> /\ Arg \in Routines /\ todo[1][1] = "admit" /\ todo[1] \in Frames /\ UNCHANGED <<rows, run>>
         /\ Quiet /\ QueueNext
         /\ \/ Front(<<>>)
            \/ todo' = <<<<"follow", Arg>>>> \o todo
            \/ Arg \notin deleting /\ Front(<<<<"skip", Arg, todo[1][3]>>>>) /\ <<"skip", Arg, todo[1][3]>> \in Frames
<1> USE DEF rowVars, fireVars, liveVars, procVars, sessVars, histVars
<1>1. Still /\ Doing("admit") /\ UNCHANGED <<rows, run>>
  BY DEF Admit, Still, Declined
<1>2. todo # <<>> /\ todo[1] \in Frames /\ todo[1][1] = "admit" /\ Arg = todo[1][2] /\ Head(todo) = todo[1]
  BY <1>1, AtWork
<1>3. Arg \in Routines /\ todo[1][3] \in 0 .. MaxDue
  BY <1>2, FrameShape
<1>4. "admit" \notin Exec \cup {"forget"} /\ "admit" \notin Light
  BY DEF Exec, Light
<1>5. CASE Front(<<>>)
  <2>1. QueueNext /\ NoWork /\ NoWork' /\ SameEnds
    BY <1>1, <1>4, <1>5, CalmPop
  <2> QED
    BY <1>1, <1>2, <1>3, <1>5, <2>1, CalmQuiet
<1>6. CASE todo' = <<<<"follow", Arg>>>> \o todo
  <2> DEFINE f == <<"follow", Arg>>
  <2>2. f \in Frames /\ todo' = <<f>> \o todo
    BY <1>3, <1>6, FrameIn, Zenon
  <2>3. f[1] = "follow"
    OBVIOUS
  <2> HIDE DEF f
  <2>4. f[1] \in Light \ {"outcome"}
    BY <2>3 DEF Light
  <2>5. QueueNext /\ NoWork /\ NoWork' /\ SameEnds
    BY <1>1, <1>4, <2>2, <2>4, CalmFirst
  <2> QED
    BY <1>1, <1>2, <1>3, <1>6, <2>5, CalmQuiet
<1>7. CASE Arg \notin deleting /\ Front(<<<<"skip", Arg, Head(todo)[3]>>>>)
  <2> DEFINE f == <<"skip", Arg, todo[1][3]>>
  <2>1. Front(<<f>>)
    BY <1>2, <1>7
  <2>2. f \in Frames
    BY <1>3, FrameIn, Zenon
  <2>3. f[1] = "skip"
    OBVIOUS
  <2>6. <<"skip", Arg, todo[1][3]>> = f
    OBVIOUS
  <2> HIDE DEF f
  <2>4. f[1] \notin Exec \cup {"forget", "outcome"}
    BY <2>3 DEF Exec
  <2>5. QueueNext /\ NoWork /\ NoWork' /\ SameEnds
    BY <1>1, <1>4, <2>1, <2>2, <2>4, CalmTo
  <2> QED
    BY <1>1, <1>2, <1>3, <1>7, <2>1, <2>2, <2>5, <2>6, CalmQuiet
<1> QED
  BY <1>5, <1>6, <1>7 DEF Admit, Declined

-----------------------------------------------------------------------------
(* The steps at which a live run ends.                                         *)

Mute == ~AsksIn(todo) /\ ~AsksIn(todo')
Unmoved == UNCHANGED <<loop, home, pc, stop, exists, deleting, up>>

LEMMA GoesNext ==
  ASSUME QueueInv, NEW head, NEW ends1, NEW outs, Goes(head, ends1, outs),
         \A x \in Runs : x \in outs => run[x].routine \in Routines
  PROVE  QueueNext
BY DEF Goes, QueueNext, QueueInv

LEMMA NoHead ==
  ASSUME NEW ends1, NEW outs, Goes({}, ends1, outs), Gone = {}
  PROVE  NoWork' /\ \A x : Closes(x)' <=> Closes(x) \/ x \in ends1
<1>1. \A op \in Exec : \A x : ~Now(op, x)'
  BY DEF Goes
<1> QED
  BY <1>1 DEF Goes, NoWork

\* A live run at work is not ending, and after a step of the kind below it is.
LEMMA EndAtWork ==
  ASSUME TypeOK, QueueInv, LiveInv, NEW op \in Works \ {"loopRecord"}, Doing(op), NEW result, Finish(Arg, result), Unmoved,
         todo' = Tail(todo) \o Closing(Arg) \/ todo' = Counted(Arg, result) \o Tail(todo) \o Closing(Arg)
  PROVE  Ends(Arg) /\ QueueNext /\ Mute
<1>1. op \in Exec /\ op # "finish" /\ op # "forget" /\ op \notin Light /\ op \notin Asked /\ op # "loopRecord"
  BY DEF Works, Exec, Light, Asked
<1>2. /\ up /\ todo # <<>> /\ todo[1][1] = op /\ Arg \in Runs /\ Arg \in Live /\ ~Closes(Arg) /\ Gone = {}
      /\ \A o, y : Now(o, y) => o = op /\ y = Arg
  BY <1>1, AtWork
<1>3. Goes({}, {Arg}, {Arg}) /\ (AsksIn(todo') <=> AsksIn(Tail(todo)))
  BY <1>1, <1>2, GoEnd
<1>4. ~AsksIn(Tail(todo)) /\ ~AsksIn(todo)
  BY <1>1, <1>2, Rest
<1>5. run[Arg].routine \in Routines
  BY <1>2 DEF LiveInv, LiveOK
<1>6. QueueNext
  BY <1>3, <1>5, GoesNext
<1>7. NoWork' /\ \A y : Closes(y)' <=> Closes(y) \/ y = Arg
  BY <1>2, <1>3, NoHead
<1> QED
  BY <1>1, <1>2, <1>3, <1>4, <1>6, <1>7 DEF Ends, Mute, Unmoved, Keeps

LEMMA EndAtRest ==
  ASSUME TypeOK, QueueInv, LiveInv, Idle, NEW x \in Live, NEW result, Finish(x, result), Unmoved,
         todo' = Closing(x) \/ todo' = Counted(x, result) \o Closing(x)
  PROVE  Ends(x) /\ QueueNext /\ Mute
<1>1. up /\ todo = <<>> /\ x \in Runs
  BY DEF Idle, Live
<1>2. (\A o, y : ~Now(o, y)) /\ ~AsksIn(todo) /\ Gone = {} /\ \A y : ~Closes(y)
  BY <1>1, AtRest
<1>3. Goes({}, {x}, {x}) /\ ~AsksIn(todo')
  BY <1>1, StartEnd
<1>5. run[x].routine \in Routines
  BY DEF LiveInv, LiveOK
<1>6. QueueNext
  BY <1>3, <1>5, GoesNext
<1>7. NoWork' /\ \A y : Closes(y)' <=> Closes(y) \/ y = x
  BY <1>2, <1>3, NoHead
<1> QED
  BY <1>1, <1>2, <1>3, <1>6, <1>7 DEF Ends, Mute, Unmoved, Keeps

LEMMA EndFinishing ==
  ASSUME TypeOK, QueueInv, LiveInv, Finishing
  PROVE  Ends(Arg) /\ QueueNext /\ Mute
<1> USE DEF rowVars, fireVars, liveVars, procVars, sessVars, histVars
<1>0. Doing("finish") /\ Unmoved /\ Finish(Arg, Head(todo)[3]) /\ Front(Counted(Arg, Head(todo)[3]))
  BY DEF Finishing, Unmoved
<1>1. "finish" \in Exec /\ "finish" # "forget" /\ "finish" \notin Light /\ "finish" \notin Asked
  BY DEF Exec, Light, Asked
<1>2. /\ up /\ todo # <<>> /\ todo[1][1] = "finish" /\ Arg \in Runs /\ Arg \in Live /\ Closes(Arg) /\ Gone = {}
      /\ Now("finish", Arg) /\ \A o, y : Now(o, y) => o = "finish" /\ y = Arg
  BY <1>0, <1>1, AtWork
<1>3. Goes({}, {}, {Arg}) /\ (AsksIn(todo') => AsksIn(todo))
  BY <1>0, <1>1, <1>2, GoCount
<1>4. ~AsksIn(todo)
  BY <1>1, <1>2, Rest
<1>5. run[Arg].routine \in Routines
  BY <1>2 DEF LiveInv, LiveOK
<1>6. QueueNext
  BY <1>3, <1>5, GoesNext
<1>7. NoWork' /\ \A y : Closes(y)' <=> Closes(y)
  BY <1>2, <1>3, NoHead
<1>8. \A y \in Runs : Closes(y)' <=> Closes(y) \/ y = Arg
  BY <1>2, <1>7
<1> QED
  BY <1>0, <1>2, <1>3, <1>4, <1>6, <1>7, <1>8 DEF Ends, Mute, Unmoved, Keeps

LEMMA EndsAtWork ==
  ASSUME TypeOK, QueueInv, LiveInv,
         \/ Begin /\ \E result : /\ Finish(Arg, result) /\ UNCHANGED pc
                                 /\ todo' = Counted(Arg, result) \o Tail(todo) \o Closing(Arg)
         \/ Work /\ \E result : /\ Finish(Arg, result) /\ UNCHANGED <<pc, home>> /\ todo' = Tail(todo) \o Closing(Arg)
         \/ LoopStart /\ \E result : Finish(Arg, result) /\ todo' = Tail(todo) \o Closing(Arg)
         \/ PortStart /\ \E result : /\ Finish(Arg, result) /\ UNCHANGED loop
                                     /\ todo' = Counted(Arg, result) \o Tail(todo) \o Closing(Arg)
  PROVE  Ends(Arg) /\ QueueNext /\ Mute
<1> USE DEF rowVars, fireVars, liveVars, procVars, sessVars, histVars
<1>1. Unmoved /\ \E op \in {"begin", "work", "loopStart", "portStart"} : Doing(op)
  BY DEF Unmoved, Begin, Work, LoopStart, PortStart
<1>2. {"begin", "work", "loopStart", "portStart"} \subseteq Works \ {"loopRecord"}
  BY DEF Works, Exec
<1>3. PICK op \in Works \ {"loopRecord"} : Doing(op)
  BY <1>1, <1>2
<1>4. PICK result : /\ Finish(Arg, result)
                    /\ todo' = Tail(todo) \o Closing(Arg) \/ todo' = Counted(Arg, result) \o Tail(todo) \o Closing(Arg)
  OBVIOUS
<1> QED
  BY <1>1, <1>3, <1>4, EndAtWork

LEMMA EndsAtRest ==
  ASSUME TypeOK, QueueInv, LiveInv, NEW x \in Runs,
         \/ CheckEnds(x) /\ \E result : Finish(x, result) /\ (todo' = Closing(x) \/ todo' = Counted(x, result) \o Closing(x))
         \/ CreateFails(x) \/ SendFails(x) \/ WaitEnds(x) \/ WoundDown(x)
  PROVE  Ends(x) /\ QueueNext /\ Mute
<1> USE DEF rowVars, fireVars, liveVars, procVars, sessVars, histVars
<1>1. Unmoved /\ Idle /\ pc[x] # "off"
  BY DEF Unmoved, CheckEnds, CreateFails, SendFails, WaitEnds, WoundDown
<1>2. x \in Live
  BY <1>1 DEF Live
<1>3. \E result : Finish(x, result) /\ (todo' = Closing(x) \/ todo' = Counted(x, result) \o Closing(x))
  <2>1. CASE CheckEnds(x) /\ \E result : Finish(x, result) /\ (todo' = Closing(x) \/ todo' = Counted(x, result) \o Closing(x))
    BY <2>1
  <2>2. CASE CreateFails(x)
    BY <2>2 DEF CreateFails
  <2>3. CASE SendFails(x)
    BY <2>3 DEF SendFails
  <2>4. CASE WaitEnds(x)
    BY <2>4 DEF WaitEnds
  <2>5. CASE WoundDown(x)
    BY <2>5 DEF WoundDown
  <2> QED
    BY <2>1, <2>2, <2>3, <2>4, <2>5
<1> QED
  BY <1>1, <1>2, <1>3, EndAtRest

-----------------------------------------------------------------------------
(* The steps at which the row of a run that is not at work ends.               *)

LEMMA MinRun ==
  ASSUME NEW S \in SUBSET Runs, S # {}
  PROVE  Min(S) \in S /\ Min(S) \in Runs
<1>1. S \in SUBSET Nat
  BY Facts DEF Runs
<1> QED
  BY <1>1, MinIn

LEMMA RowEndsFollow ==
  ASSUME TypeOK, QueueInv, RunsInv, FollowLoops, Over(Arg) # {}
  PROVE  /\ RowEnds(Min(Over(Arg))) /\ QueueNext /\ (AsksIn(todo') => AsksIn(todo))
         /\ Min(Over(Arg)) \in Runs /\ \E result : todo' = Counted(Min(Over(Arg)), result) \o todo
<1> USE DEF rowVars, fireVars, liveVars, procVars, sessVars, histVars
<1> DEFINE x == Min(Over(Arg))
<1>1. Over(Arg) \in SUBSET Runs
  BY DEF Over, Following
<1>2. x \in Over(Arg) /\ x \in Runs
  BY <1>1, MinRun
<1>3. /\ Doing("follow") /\ \E result : Finish(x, result) /\ todo' = Counted(x, result) \o todo
      /\ loop' = [loop EXCEPT ![x] = "over"] /\ UNCHANGED <<home, pc, stop, exists, deleting, up>>
  BY DEF FollowLoops
<1>4. run[x].status \in Active /\ run[x].loop /\ loop[x] \in LoopEnds
  BY <1>2 DEF Over, Following
<1> HIDE DEF x
<1>5. PICK result : Finish(x, result) /\ todo' = Counted(x, result) \o todo
  BY <1>3
<1>6. todo # <<>> /\ todo[1][1] = "follow" /\ Gone = {} /\ \A o, y : Now(o, y) => o = "follow"
  BY <1>3, AtWork
<1>7. NoWork /\ "follow" \notin Exec
  BY <1>6 DEF NoWork, Exec
<1>8. Goes({}, {}, {x}) /\ (AsksIn(todo') => AsksIn(todo))
  BY <1>2, <1>5, <1>6, <1>7, GoCount
<1>9. NoWork' /\ SameEnds
  BY <1>6, <1>8, NoHead DEF SameEnds
<1>10. run[x].routine \in Routines
  BY <1>2, <1>4 DEF RunsInv, RunOK
<1>11. QueueNext
  BY <1>8, <1>10, GoesNext
<1>12. armed' \subseteq armed /\ run' = [run EXCEPT ![x] = Row(x, result)]
  BY <1>5 DEF Finish
<1>13. loop[x] # "active"
  BY <1>4 DEF LoopEnds
<1>14. RowEnds(x)
  BY <1>3, <1>4, <1>7, <1>9, <1>12, <1>13 DEF RowEnds, Keeps
<1> QED
  BY <1>2, <1>5, <1>8, <1>11, <1>14 DEF x

LEMMA RowEndsQueued ==
  ASSUME TypeOK, QueueInv, RunsInv, NEW x \in Runs \ Live, run[x].status = "queued",
         NEW result, run' = [run EXCEPT ![x] = Row(x, result)], Unmoved, UNCHANGED <<todo, armed>>,
         \A op \in Exec : \A y \in Runs : ~Now(op, y)
  PROVE  RowEnds(x) /\ QueueNext
<1>1. QueueNext /\ NoWork /\ NoWork' /\ SameEnds
  BY CalmSame
<1>2. loop[x] # "active" /\ run[x].status \in Active
  BY DEF RunsInv, RunOK, Active
<1> QED
  BY <1>1, <1>2 DEF RowEnds, Keeps, Unmoved

LEMMA RowEndsDrain ==
  ASSUME TypeOK, QueueInv, RunsInv, DrainSkips
  PROVE  RowEnds(Min(Drains)) /\ QueueNext /\ UNCHANGED todo /\ Min(Drains) \in Runs
<1> USE DEF rowVars, fireVars, liveVars, procVars, sessVars, histVars
<1> DEFINE x == Min(Drains)
<1>1. /\ Doing("drain") /\ x \in Lapsed /\ run' = [run EXCEPT ![x] = Row(x, "skipped")]
      /\ Unmoved /\ UNCHANGED <<todo, armed>>
  BY DEF DrainSkips, Unmoved
<1>2. x \in Runs \ Live /\ run[x].status = "queued"
  BY <1>1 DEF Lapsed, Drainable
<1>3. \A o, y : Now(o, y) => o = "drain"
  BY <1>1, AtWork
<1>4. \A op \in Exec : \A y \in Runs : ~Now(op, y)
  BY <1>3 DEF Exec
<1> HIDE DEF x
<1>5. RowEnds(x) /\ QueueNext
  BY <1>1, <1>2, <1>4, RowEndsQueued
<1> QED
  BY <1>1, <1>2, <1>5 DEF x

LEMMA RowEndsCancel ==
  ASSUME TypeOK, QueueInv, RunsInv, NEW x \in Runs, CancelRun(x), x \notin Live
  PROVE  RowEnds(x) /\ QueueNext /\ UNCHANGED todo
<1> USE DEF rowVars, fireVars, liveVars, procVars, sessVars, histVars
<1>1. /\ Idle /\ run[x].status = "queued" /\ run' = [run EXCEPT ![x] = Row(x, "cancelled")]
      /\ Unmoved /\ UNCHANGED <<todo, armed>>
  BY DEF CancelRun, Unmoved
<1>2. \A o, y : ~Now(o, y)
  BY <1>1, AtRest DEF Idle
<1> QED
  BY <1>1, <1>2, RowEndsQueued

-----------------------------------------------------------------------------
(* What a step that is about run x leaves of another run y.                    *)

Other(y) ==
    /\ run'[y] = run[y] /\ loop'[y] = loop[y] /\ home'[y] = home[y] /\ stop'[y] = stop[y]
    /\ pc'[y] = pc[y] \/ (pc[y] \in {"send", "wait"} /\ pc'[y] \in {"wait", "windDown"})
    /\ Closes(y)' <=> Closes(y)
    /\ \A op \in Exec : Now(op, y)' <=> Now(op, y)

LEMMA OtherLive ==
  ASSUME NEW y \in Runs, Other(y), UNCHANGED deleting, LiveOK(y)
  PROVE  LiveOK(y)'
<1>1. /\ Now("finish", y)' <=> Now("finish", y)
      /\ Now("loopStart", y)' <=> Now("loopStart", y)
      /\ Now("portStart", y)' <=> Now("portStart", y)
      /\ Now("loopRecord", y)' <=> Now("loopRecord", y)
  BY DEF Other, Exec
<1>2. Works1(y)' <=> Works1(y)
  BY DEF Other, Works1, Works
<1>3. Ending(y)' <=> Ending(y)
  BY <1>1 DEF Ending, Other
<1>4. /\ run'[y] = run[y] /\ loop'[y] = loop[y] /\ home'[y] = home[y] /\ stop'[y] = stop[y]
      /\ pc'[y] = pc[y] \/ (pc[y] \in {"send", "wait"} /\ pc'[y] \in {"wait", "windDown"})
  BY DEF Other
<1> QED
  BY <1>1, <1>2, <1>3, <1>4 DEF LiveOK

LEMMA OtherRun ==
  ASSUME NEW y \in Runs, Other(y), UNCHANGED <<deleting, exists, up>>, RunOK(y)
  PROVE  RunOK(y)'
<1>1. Now("loopRecord", y)' <=> Now("loopRecord", y)
  BY DEF Other, Exec
<1>2. run'[y] = run[y] /\ loop'[y] = loop[y]
  BY DEF Other
<1>3. y \in Live' <=> y \in Live
  BY DEF Other, Live
<1> QED
  BY <1>1, <1>2, <1>3 DEF RunOK

(* The step of a live run that goes on.                                        *)
Moves(x) ==
    /\ up /\ x \in Live /\ pc'[x] # "off" /\ Keeps
    /\ \A op \in Exec : \A y \in Runs : (Now(op, y) => y = x) /\ (Now(op, y)' => y = x)
    /\ \A y \in Runs \ {x} : /\ run'[y] = run[y] /\ loop'[y] = loop[y] /\ pc'[y] = pc[y] /\ home'[y] = home[y]
                             /\ Closes(y)' <=> Closes(y)
    /\ run'[x].routine = run[x].routine
    /\ run'[x].status \in Active => run[x].status \in Active \/ \A y \in ActiveRuns(run[x].routine) : y = x
    /\ home[x] = NoRun \/ (home'[x] = home[x] /\ ~Ending(x)')
    /\ armed' = armed \/ (armed' = armed \cup {home'[x]} /\ ~Ending(x)')

LEMMA MovesOther ==
  ASSUME NEW x, Moves(x), NEW y \in Runs \ {x}
  PROVE  Other(y)
<1>1. stop'[y] = stop[y]
  BY DEF Moves, Keeps
<1>2. \A op \in Exec : ~Now(op, y) /\ ~Now(op, y)'
  BY DEF Moves
<1> QED
  BY <1>1, <1>2 DEF Moves, Other

LEMMA LiveMoves ==
  ASSUME RunsInv, LiveInv, NEW x \in Runs, Moves(x), LiveOK(x)', RunOK(x)'
  PROVE  LiveInv' /\ RunsInv' /\ Live' = Live
<1>1. Live' = Live
  BY DEF Live, Moves
<1>2. UNCHANGED <<deleting, exists, up>>
  BY DEF Moves, Keeps
<1>3. ASSUME NEW y \in Runs
      PROVE  RunOK(y)'
  <2>1. CASE y = x
    BY <2>1
  <2>2. CASE y # x
    BY <2>2, <1>2, MovesOther, OtherRun DEF RunsInv
  <2> QED
    BY <2>1, <2>2
<1>4. ASSUME NEW y \in Live
      PROVE  LiveOK(y)'
  <2>0. y \in Runs
    BY DEF Live
  <2>1. CASE y = x
    BY <2>1
  <2>2. CASE y # x
    BY <2>0, <2>2, <1>2, MovesOther, OtherLive DEF LiveInv
  <2> QED
    BY <2>1, <2>2
<1>5. \A y \in Runs : run'[y].routine = run[y].routine
  BY DEF Moves
<1>6. Alone'
  BY <1>1, <1>5 DEF LiveInv, Alone, Live
<1> QED
  BY <1>1, <1>2, <1>3, <1>4, <1>6 DEF LiveInv, RunsInv

LEMMA SameActive ==
  ASSUME OverlapInv, \A y \in Runs : run'[y].routine = run[y].routine /\ (run'[y].status \in Active => run[y].status \in Active)
  PROVE  OverlapInv'
<1>1. \A r : ActiveRuns(r)' \subseteq ActiveRuns(r)
  BY DEF ActiveRuns
<1> QED
  BY <1>1 DEF OverlapInv

LEMMA OverlapMoves ==
  ASSUME OverlapInv, NEW x \in Runs, Moves(x)
  PROVE  OverlapInv'
<1>1. CASE run'[x].status \in Active => run[x].status \in Active
  <2>1. \A y \in Runs : run'[y].routine = run[y].routine /\ (run'[y].status \in Active => run[y].status \in Active)
    BY <1>1 DEF Moves
  <2> QED
    BY <2>1, SameActive
<1>2. CASE \A y \in ActiveRuns(run[x].routine) : y = x
  <2>0. PICK q : q = run[x].routine
    OBVIOUS
  <2>1. \A y \in Runs : run'[y].routine = run[y].routine /\ (y # x => run'[y] = run[y])
    BY DEF Moves
  <2>2. \A r : \A y \in ActiveRuns(r)' : y \in ActiveRuns(r) \/ (r = q /\ y = x)
    BY <2>0, <2>1 DEF ActiveRuns
  <2>3. \A y \in ActiveRuns(q)' : y = x
    BY <1>2, <2>0, <2>2
  <2>4. \A r : r # q => ActiveRuns(r)' \subseteq ActiveRuns(r)
    BY <2>2
  <2>5. ASSUME NEW r \in Routines
        PROVE  IF r \in Queued
                 THEN \A u, v, w \in ActiveRuns(r)' : u = v \/ v = w \/ u = w
                 ELSE \A u, v \in ActiveRuns(r)' : u = v
    <3>1. CASE r = q
      BY <3>1, <2>3
    <3>2. CASE r # q
      BY <3>2, <2>4 DEF OverlapInv
    <3> QED
      BY <3>1, <3>2
  <2> QED
    BY <2>5 DEF OverlapInv
<1> QED
  BY <1>1, <1>2 DEF Moves

LEMMA ArmedMoves ==
  ASSUME TypeOK, ArmedInv, NEW x \in Runs, Moves(x), Live' = Live
  PROVE  ArmedInv'
<1>1. ASSUME NEW s \in armed
      PROVE  \E y \in Live : home'[y] = s /\ ~Ending(y)'
  <2>1. PICK y \in Live : home[y] = s /\ ~Ending(y)
    BY DEF ArmedInv
  <2>2. y \in Runs /\ s # NoRun
    BY DEF Live, TypeOK, Runs, NoRun
  <2>3. CASE y = x
    BY <2>1, <2>2, <2>3 DEF Moves
  <2>4. CASE y # x
    <3>1. Other(y)
      BY <2>2, <2>4, MovesOther
    <3>2. Ending(y)' <=> Ending(y)
      BY <3>1 DEF Other, Ending, Exec
    <3> QED
      BY <2>1, <3>1, <3>2 DEF Other
  <2> QED
    BY <2>3, <2>4
<1>2. CASE armed' = armed
  BY <1>1, <1>2 DEF ArmedInv
<1>3. CASE armed' = armed \cup {home'[x]} /\ ~Ending(x)'
  <2>1. x \in Live
    BY DEF Moves
  <2> QED
    BY <1>1, <1>3, <2>1 DEF ArmedInv
<1> QED
  BY <1>2, <1>3 DEF Moves

LEMMA QueueMoves ==
  ASSUME QueueInv, NEW x \in Runs, Moves(x), Live' = Live, QueueNext,
         \A op \in Exec : Now(op, x)' => (op = "finish" <=> Closes(x)')
  PROVE  QueueInv'
<1>1. \A y \in Runs : Closes(y)' => y \in Live
  BY DEF QueueInv, Moves
<1>2. \A y \in Runs : run'[y].routine = run[y].routine
  BY DEF Moves
<1>3. \A y \in Runs : Has(todo, "outcome", y)' => run'[y].routine \in Routines
  BY <1>2 DEF QueueNext
<1>4. \A y \in Runs : \A op \in Exec : Now(op, y)' => y \in Live /\ (op = "finish" <=> Closes(y)')
  BY DEF Moves
<1>5. ExecFirst(todo)' /\ Ordered(todo)' /\ OnceEach(todo)'
  BY DEF QueueNext
<1> QED
  BY <1>1, <1>3, <1>4, <1>5 DEF QueueInv

LEMMA UpStays ==
  ASSUME up, UNCHANGED up
  PROVE  DownInv'
BY DEF DownInv

-----------------------------------------------------------------------------
(* What the three kinds of step above preserve.                                *)

LEMMA QuietCore ==
  ASSUME TypeOK, CoreInv, Quiet, QueueNext
  PROVE  CoreInv'
<1>1. QueueInv /\ RunsInv /\ LiveInv /\ OverlapInv /\ ArmedInv
  BY DEF CoreInv
<1>2. ASSUME NEW y \in Runs
      PROVE  Other(y)
  <2>1. /\ run'[y] = run[y] /\ loop'[y] = loop[y] /\ home'[y] = home[y] /\ stop'[y] = stop[y]
        /\ pc'[y] = pc[y] \/ (pc[y] \in {"send", "wait"} /\ pc'[y] \in {"wait", "windDown"})
    BY DEF Quiet, Keeps
  <2>2. Closes(y)' <=> Closes(y)
    BY DEF Quiet, SameEnds
  <2>3. \A op \in Exec : ~Now(op, y) /\ ~Now(op, y)'
    BY DEF Quiet, NoWork
  <2> QED
    BY <2>1, <2>2, <2>3 DEF Other
<1>3. UNCHANGED <<run, deleting, exists, up>> /\ armed' \subseteq armed
  BY DEF Quiet, Keeps
<1>4. Live' = Live
  <2>1. \A y \in Runs : y \in Live' <=> y \in Live
    BY <1>2 DEF Other, Live
  <2> QED
    BY <2>1 DEF Live
<1>5. RunsInv'
  BY <1>1, <1>2, <1>3, OtherRun DEF RunsInv
<1>6. LiveInv'
  <2>1. \A y \in Live : LiveOK(y)'
    BY <1>1, <1>2, <1>3, OtherLive DEF LiveInv, Live
  <2>2. Alone'
    BY <1>1, <1>3, <1>4 DEF LiveInv, Alone
  <2> QED
    BY <1>4, <2>1, <2>2 DEF LiveInv
<1>7. OverlapInv'
  BY <1>1, <1>3, SameActive
<1>8. ArmedInv'
  <2>1. \A y \in Live : home'[y] = home[y] /\ (Ending(y)' <=> Ending(y))
    <3>1. ASSUME NEW y \in Live
          PROVE  home'[y] = home[y] /\ (Ending(y)' <=> Ending(y))
      <4>1. y \in Runs
        BY DEF Live
      <4>2. Other(y)
        BY <4>1, <1>2
      <4> QED
        BY <4>2 DEF Other, Ending, Exec
    <3> QED
      BY <3>1
  <2> QED
    BY <1>1, <1>3, <1>4, <2>1 DEF ArmedInv
<1>9. QueueInv'
  <2>1. \A y \in Runs : Closes(y)' => y \in Live
    BY <1>1, <1>2 DEF QueueInv, Other
  <2>2. \A y \in Runs : Has(todo, "outcome", y)' => run'[y].routine \in Routines
    BY <1>3 DEF QueueNext
  <2>3. \A y \in Runs : \A op \in Exec : ~Now(op, y)'
    BY DEF Quiet, NoWork
  <2>4. ExecFirst(todo)' /\ Ordered(todo)' /\ OnceEach(todo)'
    BY DEF QueueNext
  <2> QED
    BY <1>4, <2>1, <2>2, <2>3, <2>4 DEF QueueInv
<1> QED
  BY <1>1, <1>5, <1>6, <1>7, <1>8, <1>9 DEF CoreInv

LEMMA EndsCore ==
  ASSUME TypeOK, CoreInv, NEW x \in Runs, Ends(x), QueueNext
  PROVE  CoreInv'
<1>1. QueueInv /\ RunsInv /\ LiveInv /\ OverlapInv /\ ArmedInv
  BY DEF CoreInv
<1>2. PICK result : Finish(x, result)
  BY DEF Ends
<1>3. /\ up /\ x \in Live /\ UNCHANGED <<loop, home, pc, stop, exists, deleting, up>> /\ Live' = Live
      /\ ~Now("loopRecord", x) /\ (~Closes(x) \/ Now("finish", x))
  BY DEF Ends, Keeps, Live
<1>4. run' = [run EXCEPT ![x] = Row(x, result)] /\ (armed' = armed \/ armed' = armed \ {home[x]}) /\ (home[x] = NoRun => armed' = armed)
      /\ (home[x] # NoRun => armed' = armed \ {home[x]})
  BY <1>2 DEF Finish, LeavesArmed
<1>5. /\ run'[x] = Row(x, result) /\ \A y \in Runs \ {x} : run'[y] = run[y]
  BY <1>4 DEF TypeOK
<1>6. /\ run'[x].routine = run[x].routine /\ run'[x].loop = run[x].loop
      /\ run'[x].status \in Ended \cup {"deleted"}
  <2>1. /\ Row(x, result).routine = run[x].routine /\ Row(x, result).loop = run[x].loop
        /\ Row(x, result).status = IF run[x].status = "deleted" THEN "deleted" ELSE
                                      IF result = "interrupted" THEN "interrupted" ELSE "ended"
    BY RowType
  <2>2. Row(x, result).status \in Ended \cup {"deleted"}
    BY <2>1 DEF Ended
  <2> QED
    BY <1>5, <2>1, <2>2
<1>7. run'[x].status \notin Active /\ run'[x].status # "none" /\ run'[x].status \notin {"checking", "running", "queued"}
  BY <1>6 DEF Active, Ended
<1>8. ASSUME NEW y \in Runs \ {x}
      PROVE  Other(y)
  <2>1. \A op \in Exec : ~Now(op, y) /\ ~Now(op, y)'
    BY DEF Ends, NoWork
  <2>2. Closes(y)' <=> Closes(y)
    BY DEF Ends
  <2> QED
    BY <2>1, <2>2, <1>3, <1>5 DEF Other
<1>9. Ending(x)' /\ ~Works1(x)' /\ \A op \in Exec : ~Now(op, x)'
  BY DEF Ends, NoWork, Ending, Works1, Works, Exec
<1>10. LiveOK(x)
  BY <1>1, <1>3 DEF LiveInv
<1>11. loop[x] # "active" \/ run[x].loop
  BY <1>3, <1>10 DEF LiveOK
<1>12. LiveOK(x)'
  <2>1. run'[x].routine \in Routines
    BY <1>6, <1>10 DEF LiveOK
  <2>2. ~Now("loopStart", x)' /\ ~Now("portStart", x)' /\ ~Now("loopRecord", x)'
    BY <1>9 DEF Exec
  <2>3. ~(loop'[x] = "active" /\ ~run'[x].loop)
    BY <1>3, <1>6, <1>11
  <2>4. run'[x].routine \in deleting' => stop'[x] # "no"
    BY <1>3, <1>6, <1>10 DEF LiveOK
  <2> QED
    BY <1>7, <1>9, <2>1, <2>2, <2>3, <2>4 DEF LiveOK
<1>13. loop[x] # "active"
  <2>1. ~Ending(x)
    BY <1>3 DEF Ending
  <2>2. loop[x] = "none"
    BY <1>3, <1>10, <2>1 DEF LiveOK
  <2> QED
    BY <2>2
<1>14. RunOK(x)'
  BY <1>3, <1>6, <1>7, <1>13 DEF RunOK
<1>15. RunsInv'
  BY <1>1, <1>3, <1>8, <1>14, OtherRun DEF RunsInv
<1>16. LiveInv'
  <2>1. \A y \in Live : LiveOK(y)'
    BY <1>1, <1>3, <1>8, <1>12, OtherLive DEF LiveInv, Live
  <2>2. \A y \in Runs : run'[y].routine = run[y].routine
    BY <1>5, <1>6
  <2>3. Alone'
    BY <1>1, <1>3, <2>2 DEF LiveInv, Alone, Live
  <2> QED
    BY <1>3, <2>1, <2>3 DEF LiveInv
<1>17. OverlapInv'
  <2>1. \A y \in Runs : run'[y].routine = run[y].routine /\ (run'[y].status \in Active => run[y].status \in Active)
    BY <1>5, <1>6, <1>7
  <2> QED
    BY <1>1, <2>1, SameActive
<1>18. ArmedInv'
  <2>1. ASSUME NEW s \in armed'
        PROVE  \E y \in Live : home'[y] = s /\ ~Ending(y)'
    <3>1. s \in armed /\ s # NoRun
      BY <1>4 DEF TypeOK, Runs, NoRun
    <3>2. PICK y \in Live : home[y] = s /\ ~Ending(y)
      BY <1>1, <3>1 DEF ArmedInv
    <3>3. y # x
      BY <1>4, <3>1, <3>2
    <3>4. y \in Runs
      BY DEF Live
    <3>5. Ending(y)' <=> Ending(y)
      BY <1>8, <3>3, <3>4 DEF Other, Ending, Exec
    <3> QED
      BY <1>3, <3>2, <3>5
  <2> QED
    BY <1>3, <2>1 DEF ArmedInv
<1>19. QueueInv'
  <2>1. \A y \in Runs : Closes(y)' => y \in Live
    BY <1>1, <1>3 DEF QueueInv, Ends
  <2>2. \A y \in Runs : Has(todo, "outcome", y)' => run'[y].routine \in Routines
    BY <1>5, <1>6 DEF QueueNext
  <2>3. \A y \in Runs : \A op \in Exec : ~Now(op, y)'
    BY DEF Ends, NoWork
  <2>4. ExecFirst(todo)' /\ Ordered(todo)' /\ OnceEach(todo)'
    BY DEF QueueNext
  <2> QED
    BY <1>3, <2>1, <2>2, <2>3, <2>4 DEF QueueInv
<1> QED
  BY <1>15, <1>16, <1>17, <1>18, <1>19 DEF CoreInv

LEMMA RowEndsCore ==
  ASSUME TypeOK, CoreInv, NEW x \in Runs, RowEnds(x), QueueNext
  PROVE  CoreInv'
<1>1. QueueInv /\ RunsInv /\ LiveInv /\ OverlapInv /\ ArmedInv
  BY DEF CoreInv
<1>2. PICK result : run' = [run EXCEPT ![x] = Row(x, result)]
  BY DEF RowEnds
<1>3. /\ run[x].status \in Active /\ (x \notin Live \/ run[x].loop) /\ UNCHANGED <<home, pc, stop, exists, deleting, up>>
      /\ Live' = Live /\ armed' \subseteq armed /\ loop'[x] # "active" /\ (\A y \in Runs \ {x} : loop'[y] = loop[y])
      /\ (\A y \in Runs : Closes(y)' <=> Closes(y))
  BY DEF RowEnds, Keeps, Live, TypeOK, SameEnds
<1>4. \A y \in Runs : \A op \in Exec : ~Now(op, y) /\ ~Now(op, y)'
  BY DEF RowEnds, NoWork
<1>5. /\ run'[x] = Row(x, result) /\ \A y \in Runs \ {x} : run'[y] = run[y]
  BY <1>2 DEF TypeOK
<1>6. /\ run'[x].routine = run[x].routine /\ run'[x].loop = run[x].loop
      /\ run'[x].status \in Ended \cup {"deleted"}
  <2>1. /\ Row(x, result).routine = run[x].routine /\ Row(x, result).loop = run[x].loop
        /\ Row(x, result).status = IF run[x].status = "deleted" THEN "deleted" ELSE
                                      IF result = "interrupted" THEN "interrupted" ELSE "ended"
    BY RowType
  <2>2. Row(x, result).status \in Ended \cup {"deleted"}
    BY <2>1 DEF Ended
  <2> QED
    BY <1>5, <2>1, <2>2
<1>7. run'[x].status \notin Active /\ run'[x].status # "none" /\ run'[x].status \notin {"checking", "running", "queued"}
  BY <1>6 DEF Active, Ended
<1>8. ASSUME NEW y \in Runs \ {x}
      PROVE  Other(y)
  BY <1>3, <1>4, <1>5 DEF Other
<1>9. \A y \in Runs : Ending(y)' <=> Ending(y)
  BY <1>3, <1>4 DEF Ending, Exec
<1>12. ASSUME x \in Live
       PROVE  LiveOK(x)'
  <2>0. run[x].loop /\ LiveOK(x)
    BY <1>1, <1>3, <1>12 DEF LiveInv
  <2>1. run'[x].routine \in Routines /\ Ending(x)
    BY <1>6, <2>0 DEF LiveOK
  <2>2. ~Now("loopStart", x)' /\ ~Now("portStart", x)' /\ ~Now("loopRecord", x)' /\ ~Works1(x)'
    BY <1>4 DEF Exec, Works1, Works
  <2>3. Ending(x)' /\ run'[x].loop
    BY <1>6, <1>9, <2>0, <2>1
  <2>4. run'[x].routine \in deleting' => stop'[x] # "no"
    BY <1>3, <1>6, <2>0 DEF LiveOK
  <2> QED
    BY <1>7, <2>1, <2>2, <2>3, <2>4 DEF LiveOK
<1>14. RunOK(x)'
  BY <1>3, <1>6, <1>7 DEF RunOK
<1>15. RunsInv'
  BY <1>1, <1>3, <1>8, <1>14, OtherRun DEF RunsInv
<1>16. LiveInv'
  <2>1. \A y \in Live : LiveOK(y)'
    BY <1>1, <1>3, <1>8, <1>12, OtherLive DEF LiveInv, Live
  <2>2. \A y \in Runs : run'[y].routine = run[y].routine
    BY <1>5, <1>6
  <2>3. Alone'
    BY <1>1, <1>3, <2>2 DEF LiveInv, Alone, Live
  <2> QED
    BY <1>3, <2>1, <2>3 DEF LiveInv
<1>17. OverlapInv'
  <2>1. \A y \in Runs : run'[y].routine = run[y].routine /\ (run'[y].status \in Active => run[y].status \in Active)
    BY <1>5, <1>6, <1>7
  <2> QED
    BY <1>1, <2>1, SameActive
<1>18. ArmedInv'
  <2>1. \A y \in Live : Ending(y)' <=> Ending(y)
    BY <1>9 DEF Live
  <2> QED
    BY <1>1, <1>3, <2>1 DEF ArmedInv
<1>19. QueueInv'
  <2>1. \A y \in Runs : Closes(y)' => y \in Live
    BY <1>1, <1>3 DEF QueueInv
  <2>2. \A y \in Runs : Has(todo, "outcome", y)' => run'[y].routine \in Routines
    BY <1>5, <1>6 DEF QueueNext
  <2>4. ExecFirst(todo)' /\ Ordered(todo)' /\ OnceEach(todo)'
    BY DEF QueueNext
  <2> QED
    BY <1>3, <1>4, <2>1, <2>2, <2>4 DEF QueueInv
<1> QED
  BY <1>15, <1>16, <1>17, <1>18, <1>19 DEF CoreInv

\* A live run that goes on, with what its own invariants say of the next state.
LEMMA MovesCore ==
  ASSUME TypeOK, CoreInv, NEW x \in Runs, Moves(x), QueueNext, LiveOK(x)', RunOK(x)',
         \A op \in Exec : Now(op, x)' => (op = "finish" <=> Closes(x)')
  PROVE  CoreInv'
<1>1. QueueInv /\ RunsInv /\ LiveInv /\ OverlapInv /\ ArmedInv
  BY DEF CoreInv
<1>2. LiveInv' /\ RunsInv' /\ Live' = Live
  BY <1>1, LiveMoves
<1>3. OverlapInv'
  BY <1>1, OverlapMoves
<1>4. ArmedInv'
  BY <1>1, <1>2, ArmedMoves
<1>5. QueueInv'
  BY <1>1, <1>2, QueueMoves
<1> QED
  BY <1>2, <1>3, <1>4, <1>5 DEF CoreInv

-----------------------------------------------------------------------------
(* An execution that goes on, statement by statement.                          *)

LEMMA AtWorks ==
  ASSUME TypeOK, CoreInv, NEW op \in Works, Doing(op)
  PROVE  /\ up /\ todo # <<>> /\ todo[1][1] = op /\ Arg \in Runs /\ Arg \in Live /\ ~Closes(Arg) /\ ~Ending(Arg) /\ Gone = {}
         /\ LiveOK(Arg) /\ RunOK(Arg) /\ run[Arg].status \in Active /\ pc[Arg] \in {"begin", "check"}
         /\ home[Arg] = NoRun /\ ~run[Arg].loop /\ run[Arg].routine \in Routines
         /\ Now(op, Arg) /\ \A o, y : Now(o, y) => o = op /\ y = Arg
         /\ ~AsksIn(todo) /\ ~AsksIn(Tail(todo)) /\ op \notin Light
<1>1. op \in Exec /\ op # "finish" /\ op # "forget" /\ op \notin Light /\ op \notin Asked
  BY DEF Works, Exec, Light, Asked
<1>2. /\ up /\ todo # <<>> /\ todo[1][1] = op /\ Arg \in Runs /\ Arg \in Live /\ ~Closes(Arg) /\ Gone = {}
      /\ Now(op, Arg) /\ \A o, y : Now(o, y) => o = op /\ y = Arg
  BY <1>1, AtWork DEF CoreInv
<1>3. ~AsksIn(todo) /\ ~AsksIn(Tail(todo))
  BY <1>1, <1>2, Rest DEF CoreInv
<1>4. LiveOK(Arg) /\ RunOK(Arg) /\ ~Ending(Arg) /\ Works1(Arg)
  BY <1>2 DEF CoreInv, LiveInv, RunsInv, Ending, Works1
<1>5. run[Arg].status \in Active /\ pc[Arg] \in {"begin", "check"} /\ home[Arg] = NoRun /\ ~run[Arg].loop /\ run[Arg].routine \in Routines
  BY <1>4 DEF LiveOK
<1> QED
  BY <1>1, <1>2, <1>3, <1>4, <1>5

\* The next statement of the execution is at the head; or, for o = "none", the execution waits.
Onward(o, x) ==
    /\ QueueNext /\ ~AsksIn(todo') /\ \A y : Closes(y)' <=> Closes(y)
    /\ \A op \in Exec : \A y : Now(op, y)' <=> op = o /\ y = x

LEMMA Steps ==
  ASSUME TypeOK, CoreInv, NEW op \in Works, Doing(op)
  PROVE  /\ Front(<<>>) => Onward("none", Arg)
         /\ \A o \in Works : Front(<<<<o, Arg>>>>) => Onward(o, Arg)
<1>1. /\ todo # <<>> /\ todo[1][1] = op /\ Arg \in Runs /\ ~AsksIn(Tail(todo)) /\ op \notin Light /\ Gone = {}
  BY AtWorks
<1>0. QueueInv
  BY DEF CoreInv
<1>2. ASSUME Front(<<>>)
      PROVE  Onward("none", Arg)
  <2>1. Goes({}, {}, {}) /\ ~AsksIn(todo')
    BY <1>0, <1>1, <1>2, GoOn
  <2>2. QueueNext
    BY <1>0, <2>1, GoesNext
  <2>3. "none" \notin Exec
    BY DEF Exec
  <2>4. \A p \in Exec : \A y : ~Now(p, y)'
    BY <2>1 DEF Goes
  <2> QED
    BY <1>1, <2>1, <2>2, <2>3, <2>4 DEF Onward, Goes
<1>3. ASSUME NEW o \in Works, Front(<<<<o, Arg>>>>)
      PROVE  Onward(o, Arg)
  <2> DEFINE f == <<o, Arg>>
  <2>1. f \in Frames
    BY <1>1, FrameIn DEF Works, Exec
  <2>2. f[1] = o /\ f[2] = Arg /\ <<f[1], f[2]>> = f
    OBVIOUS
  <2> HIDE DEF f
  <2>3. Front(<<f>>)
    BY <1>3 DEF f
  <2>4. o \notin {"forget", "outcome"} /\ o \notin Asked /\ o \in Exec
    BY DEF Works, Exec, Asked
  <2>5. Goes({<<f[1], f[2]>>}, {}, {}) /\ (AsksIn(todo') <=> f[1] \in Asked \/ AsksIn(Tail(todo)))
    BY <1>0, <1>1, <2>1, <2>2, <2>3, <2>4, GoTo
  <2>6. Goes({<<o, Arg>>}, {}, {})
    BY <2>2, <2>5
  <2>7. QueueNext
    BY <1>0, <2>6, GoesNext
  <2>8. \A p \in Exec : \A y : Now(p, y)' <=> p = o /\ y = Arg
    BY <2>6 DEF Goes
  <2> QED
    BY <1>1, <2>2, <2>4, <2>5, <2>6, <2>7, <2>8 DEF Onward, Goes
<1> QED
  BY <1>2, <1>3

\* An execution that has its run to itself and is not at its end.
Working(x) ==
    /\ up /\ x \in Live /\ ~Closes(x) /\ \A op \in Exec : \A y \in Runs : Now(op, y) => y = x
    /\ run[x].status \in Active /\ pc[x] \in {"begin", "check"}

LEMMA OnwardCore ==
  ASSUME TypeOK, CoreInv, NEW x \in Runs, Working(x), NEW o \in Works \cup {"none"}, Onward(o, x), Keeps,
         \A y \in Runs \ {x} : run'[y] = run[y] /\ loop'[y] = loop[y] /\ pc'[y] = pc[y] /\ home'[y] = home[y],
         run'[x].routine = run[x].routine, run'[x].loop = run[x].loop,
         run'[x].status \in {"checking", "running"} \/ (run'[x].status = run[x].status /\ o # "loopRecord"),
         pc'[x] # "off", pc'[x] = "begin" => o \in Works, o \in Works => pc'[x] \in {"begin", "check"},
         pc'[x] = "create" => run[x].routine \notin Looped,
         home'[x] = home[x] \/ pc'[x] \notin {"begin", "check", "create"},
         armed' = armed \/ armed' = armed \cup {home'[x]},
         o \in {"loopStart", "portStart", "loopRecord"} => run[x].routine \in Looped,
         o \in {"portStart", "loopRecord"} => run'[x].status = "running",
         loop'[x] = IF o = "loopRecord" THEN "active" ELSE "none"
  PROVE  CoreInv'
<1>1. QueueInv /\ LiveOK(x) /\ RunOK(x)
  BY DEF CoreInv, LiveInv, RunsInv, Working
<1>2. /\ up /\ x \in Live /\ ~Closes(x) /\ \A op \in Exec : \A y \in Runs : Now(op, y) => y = x
  BY DEF Working
<1>3. run[x].status \in Active /\ ~Ending(x) /\ run[x].routine \in Routines /\ exists[run[x].routine] /\ ~run[x].loop
      /\ home[x] = NoRun
  BY <1>1, <1>2 DEF Working, LiveOK, RunOK, Ending
<1>4. ~Closes(x)' /\ ~Ending(x)' /\ QueueNext /\ (\A y : Closes(y)' <=> Closes(y)) /\ \A op \in Exec : \A y : Now(op, y)' <=> op = o /\ y = x
  BY <1>2 DEF Onward, Ending
<1>5. run'[x].status \in Active
  BY <1>3 DEF Active
<1>6. UNCHANGED <<stop, exists, deleting, up>>
  BY DEF Keeps
<1>7. x \in Live'
  BY DEF Live
<1>8. "none" \notin Exec /\ o # "finish" /\ {"loopStart", "portStart", "loopRecord"} \subseteq Works /\ Works \subseteq Exec
  BY DEF Works, Exec
<1>9. Works1(x)' <=> o \in Works
  BY <1>4, <1>8 DEF Works1
<1>10. /\ Now("loopStart", x)' <=> o = "loopStart"
       /\ Now("portStart", x)' <=> o = "portStart"
       /\ Now("loopRecord", x)' <=> o = "loopRecord"
       /\ ~Now("finish", x)'
  BY <1>4, <1>8 DEF Exec
<1>11. Moves(x)
  BY <1>2, <1>3, <1>4, <1>5 DEF Moves
<1>12. LiveOK(x)'
  <2>1. run'[x].routine \in Routines /\ ~run'[x].loop /\ run'[x].status \in Active
    BY <1>3, <1>5
  <2>2. loop'[x] = "none" \/ Now("loopRecord", x)'
    BY <1>10
  <2>3. pc'[x] = "begin" => Works1(x)'
    BY <1>9
  <2>4. pc'[x] = "create" => run'[x].routine \notin Looped
    OBVIOUS
  <2>5. pc'[x] \in {"begin", "check"} \/ pc'[x] = "create" => home'[x] = NoRun
    BY <1>3
  <2>6. Works1(x)' => pc'[x] \in {"begin", "check"}
    BY <1>9
  <2>7. Now("loopStart", x)' \/ Now("portStart", x)' \/ Now("loopRecord", x)' => run'[x].routine \in Looped
    BY <1>10
  <2>8. Now("portStart", x)' \/ Now("loopRecord", x)' => run'[x].status = "running"
    BY <1>10
  <2>9. Now("loopRecord", x)' <=> loop'[x] = "active" /\ ~run'[x].loop
    BY <1>3, <1>10
  <2>10. run'[x].routine \in deleting' => stop'[x] # "no"
    BY <1>1, <1>6 DEF LiveOK
  <2> QED
    BY <1>4, <2>1, <2>2, <2>3, <2>4, <2>5, <2>6, <2>7, <2>8, <2>9, <2>10 DEF LiveOK
<1>13. RunOK(x)'
  <2>1. run'[x].status # "none" /\ exists'[run'[x].routine] /\ run'[x].routine \in Routines /\ ~run'[x].loop
    BY <1>3, <1>5, <1>6 DEF Active
  <2>2. run'[x].status = "queued" => loop'[x] = "none" /\ run'[x].routine \notin deleting'
    BY <1>1, <1>6 DEF RunOK
  <2>3. loop'[x] = "active" => /\ run'[x].status = "running" /\ run'[x].routine \in Looped /\ Now("loopRecord", x)'
    BY <1>10
  <2> QED
    BY <1>7, <2>1, <2>2, <2>3 DEF RunOK
<1>14. \A op \in Exec : Now(op, x)' => (op = "finish" <=> Closes(x)')
  BY <1>4, <1>8
<1> QED
  BY <1>4, <1>11, <1>12, <1>13, <1>14, MovesCore

LEMMA WorkingArg ==
  ASSUME TypeOK, CoreInv, NEW op \in Works \ {"loopRecord"}, Doing(op)
  PROVE  /\ Working(Arg) /\ Arg \in Runs /\ ~AsksIn(todo) /\ loop[Arg] = "none" /\ home[Arg] = NoRun
         /\ (op \in {"loopStart", "portStart"} => run[Arg].routine \in Looped)
         /\ (op = "portStart" => run[Arg].status = "running")
<1>1. /\ up /\ Arg \in Runs /\ Arg \in Live /\ ~Closes(Arg) /\ ~Ending(Arg)
      /\ LiveOK(Arg) /\ run[Arg].status \in Active /\ pc[Arg] \in {"begin", "check"} /\ home[Arg] = NoRun
      /\ Now(op, Arg) /\ (\A o, y : Now(o, y) => o = op /\ y = Arg) /\ ~AsksIn(todo)
  BY AtWorks
<1>2. ~Now("loopRecord", Arg)
  BY <1>1
<1>3. loop[Arg] = "none"
  BY <1>1, <1>2 DEF LiveOK
<1>4. /\ (op \in {"loopStart", "portStart"} => run[Arg].routine \in Looped)
      /\ (op = "portStart" => run[Arg].status = "running")
  BY <1>1 DEF LiveOK
<1>5. Working(Arg)
  BY <1>1 DEF Working
<1> QED
  BY <1>1, <1>3, <1>4, <1>5

LEMMA RunStatus ==
  ASSUME TypeOK, NEW x \in Runs, NEW v, run' = [run EXCEPT ![x].status = v]
  PROVE  /\ run'[x].status = v /\ run'[x].routine = run[x].routine /\ run'[x].loop = run[x].loop
         /\ \A y \in Runs \ {x} : run'[y] = run[y]
<1> DEFINE R == [status : Active \cup Ended \cup {"none", "deleted"}, routine : Routines \cup {"none"}, manual : BOOLEAN, loop : BOOLEAN]
<1>1. run \in [Runs -> R]
  BY DEF TypeOK
<1>2. run'[x] = [run[x] EXCEPT !.status = v] /\ \A y \in Runs \ {x} : run'[y] = run[y]
  BY <1>1
<1>3. run[x] \in R
  BY <1>1
<1> QED
  BY <1>2, <1>3

\* The steps of an execution that do not end it, one by one.
LEMMA BeginCore ==
  ASSUME TypeOK, CoreInv, Begin, ~\E status : /\ Finish(Arg, status) /\ UNCHANGED pc
                                              /\ todo' = Counted(Arg, status) \o Tail(todo) \o Closing(Arg)
  PROVE  CoreInv' /\ Mute /\ Doing("begin")
<1> USE DEF rowVars, fireVars, liveVars, procVars, sessVars, histVars
<1> DEFINE x == Arg
<1>1. Doing("begin") /\ Keeps /\ UNCHANGED <<loop, home>>
  BY DEF Begin, Keeps
<1>2. "begin" \in Works \ {"loopRecord"} /\ "work" \in Works
  BY DEF Works, Exec
<1>3. Working(Arg) /\ Arg \in Runs /\ ~AsksIn(todo) /\ loop[Arg] = "none"
  BY <1>1, <1>2, WorkingArg
<1>4. (Front(<<>>) => Onward("none", Arg)) /\ (Front(<<<<"work", Arg>>>>) => Onward("work", Arg))
  BY <1>1, <1>2, Steps
<1>5. CASE run' = [run EXCEPT ![x].status = "checking"] /\ pc' = [pc EXCEPT ![x] = "check"] /\ Front(<<>>) /\ UNCHANGED armed
  <2>1. Onward("none", x)
    BY <1>4, <1>5
  <2> HIDE DEF x
  <2>2. x \in Runs /\ Working(x) /\ ~AsksIn(todo) /\ loop[x] = "none"
    BY <1>3 DEF x
  <2>3. /\ run'[x].status = "checking" /\ run'[x].routine = run[x].routine /\ run'[x].loop = run[x].loop
        /\ \A y \in Runs \ {x} : run'[y] = run[y]
    BY <1>5, <2>2, RunStatus
  <2>4. pc'[x] = "check" /\ \A y \in Runs \ {x} : pc'[y] = pc[y]
    BY <1>5, <2>2 DEF TypeOK
  <2>5. CoreInv'
    BY <1>1, <1>5, <2>1, <2>2, <2>3, <2>4, OnwardCore DEF Works, Exec
  <2> QED
    BY <1>1, <2>1, <2>2, <2>5 DEF Onward, Mute
<1>6. CASE Front(<<<<"work", x>>>>) /\ UNCHANGED <<run, pc, armed>>
  <2>1. Onward("work", x)
    BY <1>4, <1>6
  <2> HIDE DEF x
  <2>2. x \in Runs /\ Working(x) /\ ~AsksIn(todo) /\ loop[x] = "none"
    BY <1>3 DEF x
  <2>3. pc[x] \in {"begin", "check"}
    BY <2>2 DEF Working
  <2>5. CoreInv'
    BY <1>1, <1>2, <1>6, <2>1, <2>2, <2>3, OnwardCore
  <2> QED
    BY <1>1, <2>1, <2>2, <2>5 DEF Onward, Mute
<1> QED
  BY <1>5, <1>6 DEF Begin

LEMMA CheckCore ==
  ASSUME TypeOK, CoreInv, NEW x \in Runs, CheckEnds(x), stop[x] = "no", todo' = <<<<"work", x>>>>, UNCHANGED <<run, armed>>
  PROVE  CoreInv' /\ Mute
<1> USE DEF rowVars, fireVars, liveVars, procVars, sessVars, histVars
<1>1. Idle /\ pc[x] = "check" /\ Keeps /\ UNCHANGED <<loop, home, pc>>
  BY DEF CheckEnds, Keeps
<1>2. x \in Live /\ up /\ todo = <<>> /\ QueueInv
  BY <1>1 DEF Live, Idle, CoreInv
<1>3. (\A op, y : ~Now(op, y)) /\ ~AsksIn(todo) /\ (\A y : ~Closes(y) /\ ~Ending(y)) /\ Gone = {}
  BY <1>2, AtRest
<1>4. LiveOK(x)
  BY <1>2 DEF CoreInv, LiveInv
<1>5. loop[x] = "none" /\ run[x].status \in Active
  BY <1>3, <1>4 DEF LiveOK
<1>6. Working(x)
  BY <1>1, <1>2, <1>3, <1>5 DEF Working
<1>7. Onward("work", x)
  <2> DEFINE f == <<"work", x>>
  <2>1. f \in Frames
    BY FrameIn, Zenon
  <2>2. f[1] = "work" /\ f[2] = x /\ <<f[1], f[2]>> = f /\ todo' = <<f>>
    OBVIOUS
  <2>5. "work" \notin {"forget", "outcome"} /\ "work" \notin Asked
    BY DEF Asked
  <2> HIDE DEF f
  <2>3. Goes({<<f[1], f[2]>>}, {}, {}) /\ ~AsksIn(todo')
    BY <1>2, <2>1, <2>2, <2>5, StartOne
  <2>4. Goes({<<"work", x>>}, {}, {})
    BY <2>2, <2>3
  <2>6. QueueNext
    BY <1>2, <2>4, GoesNext
  <2>7. \A p \in Exec : \A y : Now(p, y)' <=> p = "work" /\ y = x
    BY <2>4 DEF Goes
  <2> QED
    BY <1>3, <2>3, <2>4, <2>6, <2>7 DEF Onward, Goes
<1>8. "work" \in Works
  BY DEF Works, Exec
<1>9. CoreInv'
  BY <1>1, <1>5, <1>6, <1>7, <1>8, OnwardCore
<1> QED
  BY <1>3, <1>7, <1>9 DEF Onward, Mute

LEMMA WorkCore ==
  ASSUME TypeOK, CoreInv, Work, ~\E status : Finish(Arg, status) /\ UNCHANGED <<pc, home>> /\ todo' = Tail(todo) \o Closing(Arg)
  PROVE  CoreInv' /\ Mute
<1> USE DEF rowVars, fireVars, liveVars, procVars, sessVars, histVars
<1> DEFINE x == Arg
           s == kept[run[Arg].routine]
<1>1. Doing("work") /\ Keeps /\ UNCHANGED loop
  BY DEF Work, Keeps
<1>2. "work" \in Works \ {"loopRecord"} /\ "loopStart" \in Works /\ "none" \notin Works
  BY DEF Works, Exec
<1>3. Working(x) /\ x \in Runs /\ ~AsksIn(todo) /\ loop[x] = "none" /\ home[x] = NoRun
  BY <1>1, <1>2, WorkingArg
<1>4. (Front(<<>>) => Onward("none", x)) /\ (Front(<<<<"loopStart", x>>>>) => Onward("loopStart", x))
  BY <1>1, <1>2, Steps
<1>5. \/ run[x].routine \in Looped /\ Front(<<<<"loopStart", x>>>>) /\ UNCHANGED <<run, pc, home, armed>>
      \/ /\ armed' = armed \cup {s} /\ home' = [home EXCEPT ![x] = s]
         /\ run' = [run EXCEPT ![x].status = "running"]
         /\ pc' = [pc EXCEPT ![x] = "send"] /\ Front(<<>>)
      \/ /\ run[x].routine \notin Looped /\ pc' = [pc EXCEPT ![x] = "create"] /\ Front(<<>>)
         /\ UNCHANGED <<run, home, armed>>
  BY DEF Work, UseKept
<1> HIDE DEF x, s
<1>6. CASE run[x].routine \in Looped /\ Front(<<<<"loopStart", x>>>>) /\ UNCHANGED <<run, pc, home, armed>>
  <2>1. Onward("loopStart", x)
    BY <1>4, <1>6
  <2>3. pc[x] \in {"begin", "check"}
    BY <1>3 DEF Working
  <2>5. CoreInv'
    BY <1>1, <1>2, <1>3, <1>6, <2>1, <2>3, OnwardCore
  <2> QED
    BY <1>3, <2>1, <2>5 DEF Onward, Mute
<1>7. CASE /\ armed' = armed \cup {s} /\ home' = [home EXCEPT ![x] = s]
           /\ run' = [run EXCEPT ![x].status = "running"]
           /\ pc' = [pc EXCEPT ![x] = "send"] /\ Front(<<>>)
  <2>1. Onward("none", x)
    BY <1>4, <1>7
  <2>3. /\ run'[x].status = "running" /\ run'[x].routine = run[x].routine /\ run'[x].loop = run[x].loop
        /\ \A y \in Runs \ {x} : run'[y] = run[y]
    BY <1>3, <1>7, RunStatus
  <2>4. pc'[x] = "send" /\ home'[x] = s /\ \A y \in Runs \ {x} : pc'[y] = pc[y] /\ home'[y] = home[y]
    BY <1>3, <1>7 DEF TypeOK
  <2>5. CoreInv'
    BY <1>1, <1>2, <1>3, <1>7, <2>1, <2>3, <2>4, OnwardCore
  <2> QED
    BY <1>3, <2>1, <2>5 DEF Onward, Mute
<1>8. CASE /\ run[x].routine \notin Looped /\ pc' = [pc EXCEPT ![x] = "create"] /\ Front(<<>>)
           /\ UNCHANGED <<run, home, armed>>
  <2>1. Onward("none", x)
    BY <1>4, <1>8
  <2>4. pc'[x] = "create" /\ \A y \in Runs \ {x} : pc'[y] = pc[y]
    BY <1>3, <1>8 DEF TypeOK
  <2>5. CoreInv'
    BY <1>1, <1>2, <1>3, <1>8, <2>1, <2>4, OnwardCore
  <2> QED
    BY <1>3, <2>1, <2>5 DEF Onward, Mute
<1> QED
  BY <1>5, <1>6, <1>7, <1>8

LEMMA LoopStartCore ==
  ASSUME TypeOK, CoreInv, LoopStart, run' = [run EXCEPT ![Arg].status = "running"], Front(<<<<"portStart", Arg>>>>), UNCHANGED armed
  PROVE  CoreInv' /\ Mute
<1> USE DEF rowVars, fireVars, liveVars, procVars, sessVars, histVars
<1> DEFINE x == Arg
<1>1. Doing("loopStart") /\ Keeps /\ UNCHANGED <<loop, home, pc>>
  BY DEF LoopStart, Keeps
<1>2. "loopStart" \in Works \ {"loopRecord"} /\ "portStart" \in Works
  BY DEF Works, Exec
<1>3. Working(x) /\ x \in Runs /\ ~AsksIn(todo) /\ loop[x] = "none" /\ home[x] = NoRun /\ run[x].routine \in Looped
  BY <1>1, <1>2, WorkingArg
<1>4. Onward("portStart", x) /\ run' = [run EXCEPT ![x].status = "running"]
  BY <1>1, <1>2, Steps
<1> HIDE DEF x
<1>5. /\ run'[x].status = "running" /\ run'[x].routine = run[x].routine /\ run'[x].loop = run[x].loop
      /\ \A y \in Runs \ {x} : run'[y] = run[y]
  BY <1>3, <1>4, RunStatus
<1>6. pc[x] \in {"begin", "check"}
  BY <1>3 DEF Working
<1>7. CoreInv'
  BY <1>1, <1>2, <1>3, <1>4, <1>5, <1>6, OnwardCore
<1> QED
  BY <1>3, <1>4, <1>7 DEF Onward, Mute

LEMMA PortStartCore ==
  ASSUME TypeOK, CoreInv, PortStart, loop' = [loop EXCEPT ![Arg] = "active"], Front(<<<<"loopRecord", Arg>>>>), UNCHANGED <<run, armed>>
  PROVE  CoreInv' /\ Mute
<1> USE DEF rowVars, fireVars, liveVars, procVars, sessVars, histVars
<1> DEFINE x == Arg
<1>1. Doing("portStart") /\ Keeps /\ UNCHANGED <<home, pc>>
  BY DEF PortStart, Keeps
<1>2. "portStart" \in Works \ {"loopRecord"} /\ "loopRecord" \in Works
  BY DEF Works, Exec
<1>3. Working(x) /\ x \in Runs /\ ~AsksIn(todo) /\ loop[x] = "none" /\ home[x] = NoRun /\ run[x].routine \in Looped /\ run[x].status = "running"
  BY <1>1, <1>2, WorkingArg
<1>4. Onward("loopRecord", x) /\ loop' = [loop EXCEPT ![x] = "active"]
  BY <1>1, <1>2, Steps
<1> HIDE DEF x
<1>5. loop'[x] = "active" /\ \A y \in Runs \ {x} : loop'[y] = loop[y]
  BY <1>3, <1>4 DEF TypeOK
<1>6. pc[x] \in {"begin", "check"}
  BY <1>3 DEF Working
<1>7. CoreInv'
  BY <1>1, <1>2, <1>3, <1>4, <1>5, <1>6, OnwardCore
<1> QED
  BY <1>3, <1>4, <1>7 DEF Onward, Mute

LEMMA LoopRecordCore ==
  ASSUME TypeOK, CoreInv, LoopRecord
  PROVE  CoreInv' /\ Mute
<1> USE DEF rowVars, fireVars, liveVars, procVars, sessVars, histVars
<1>x. PICK x : x = Arg
  OBVIOUS
<1>0. "loopRecord" \in Works
  BY DEF Works, Exec
<1>1. /\ Doing("loopRecord") /\ Keeps /\ UNCHANGED <<loop, home, pc, armed>>
      /\ run' = [run EXCEPT ![x].loop = TRUE, ![x].status = "running"] /\ todo' = Tail(todo) \o Closing(x)
  BY <1>x DEF LoopRecord, Keeps
<1>2. /\ up /\ todo # <<>> /\ todo[1][1] = "loopRecord" /\ x \in Runs /\ x \in Live /\ ~Closes(x) /\ ~Ending(x) /\ Gone = {}
      /\ LiveOK(x) /\ RunOK(x) /\ run[x].status \in Active
      /\ home[x] = NoRun /\ ~run[x].loop /\ run[x].routine \in Routines
      /\ Now("loopRecord", x) /\ (\A o, y : Now(o, y) => o = "loopRecord" /\ y = x)
      /\ ~AsksIn(todo) /\ ~AsksIn(Tail(todo)) /\ "loopRecord" \notin Light
  BY <1>x, <1>0, <1>1, AtWorks
<1>3. QueueInv
  BY DEF CoreInv
<1>4. Goes({}, {x}, {x}) /\ ~AsksIn(todo')
  BY <1>1, <1>2, <1>3, GoEnd
<1>5. QueueNext
  BY <1>2, <1>3, <1>4, GoesNext
<1>6. NoWork' /\ \A y : Closes(y)' <=> Closes(y) \/ y = x
  BY <1>2, <1>4, NoHead
<1>7. /\ run'[x].status = "running" /\ run'[x].routine = run[x].routine /\ run'[x].loop = TRUE
      /\ \A y \in Runs \ {x} : run'[y] = run[y]
  <2> DEFINE R == [status : Active \cup Ended \cup {"none", "deleted"}, routine : Routines \cup {"none"}, manual : BOOLEAN, loop : BOOLEAN]
  <2>1. run \in [Runs -> R]
    BY DEF TypeOK
  <2>2. run'[x] = [run[x] EXCEPT !.loop = TRUE, !.status = "running"] /\ \A y \in Runs \ {x} : run'[y] = run[y]
    BY <1>1, <1>2, <2>1
  <2>3. run[x] \in R
    BY <1>2, <2>1
  <2> QED
    BY <2>2, <2>3
<1>8. pc[x] # "off"
  BY <1>2 DEF Live
<1>9. Moves(x)
  BY <1>1, <1>2, <1>6, <1>7, <1>8 DEF Moves, NoWork
<1>10. ~Works1(x)' /\ (\A op \in Exec : ~Now(op, x)') /\ Ending(x)'
  BY <1>2, <1>6 DEF NoWork, Works1, Works, Ending, Exec
<1>11. LiveOK(x)'
  <2>1. ~Now("loopStart", x)' /\ ~Now("portStart", x)' /\ ~Now("loopRecord", x)'
    BY <1>10 DEF Exec
  <2>2. run'[x].routine \in Routines
    BY <1>2, <1>7
  <2>4. run'[x].routine \in deleting' => stop'[x] # "no"
    BY <1>1, <1>2, <1>7 DEF LiveOK, Keeps
  <2> QED
    BY <1>7, <1>10, <2>1, <2>2, <2>4 DEF LiveOK
<1>12. RunOK(x)'
  <2>1. run[x].routine \in Looped
    BY <1>2 DEF LiveOK
  <2>2. exists'[run[x].routine] /\ run[x].routine \in Routines
    BY <1>1, <1>2 DEF RunOK, Keeps
  <2> QED
    BY <1>7, <2>1, <2>2 DEF RunOK
<1>13. CoreInv'
  BY <1>2, <1>5, <1>9, <1>10, <1>11, <1>12, MovesCore
<1> QED
  BY <1>2, <1>4, <1>13 DEF Mute

\* The session is there: the run goes on with it, or ends at once for what came meanwhile.
\* createSession has answered: the session is the run's, armed, and it is sent to or stopped.
LEMMA CreatedCore ==
  ASSUME TypeOK, CoreInv, NEW x \in Runs, Created(x)
  PROVE  CoreInv' /\ Mute
<1> USE DEF rowVars, fireVars, liveVars, procVars, sessVars, histVars
<1>1. /\ Idle /\ pc[x] = "create" /\ armed' = armed \cup {x} /\ home' = [home EXCEPT ![x] = x] /\ Keeps /\ UNCHANGED loop
  BY DEF Created, Keeps, HasSession
<1>2. x \in Live /\ up /\ todo = <<>> /\ QueueInv
  BY <1>1 DEF Live, Idle, CoreInv
<1>3. (\A op, y : ~Now(op, y)) /\ ~AsksIn(todo) /\ (\A y : ~Closes(y) /\ ~Ending(y)) /\ Gone = {}
  BY <1>2, AtRest
<1>4. LiveOK(x) /\ RunOK(x)
  BY <1>2 DEF CoreInv, LiveInv, RunsInv
<1>5. /\ run[x].routine \in Routines \ Looped /\ ~run[x].loop /\ loop[x] = "none" /\ home[x] = NoRun
      /\ (run[x].status \in Active \cup {"deleted"} \/ (run[x].status = "ended" /\ run[x].routine \in deleting))
      /\ (stop[x] = "no" => run[x].status \in Active)
  BY <1>1, <1>3, <1>4 DEF LiveOK
<1>6. home'[x] = x /\ \A y \in Runs \ {x} : home'[y] = home[y]
  BY <1>1 DEF TypeOK
<1>7. run[x].status = "deleted" \/ run[x].status \in Active \/ \A y \in ActiveRuns(run[x].routine) : y = x
  <2> SUFFICES ASSUME run[x].status = "ended", run[x].routine \in deleting, NEW y \in ActiveRuns(run[x].routine)
               PROVE  y = x
    BY <1>5
  <2>1. y \in Runs /\ run[y].routine = run[x].routine /\ run[y].status \in Active /\ RunOK(y)
    BY DEF ActiveRuns, CoreInv, RunsInv
  <2>2. run[y].status \in {"checking", "running"} /\ ~run[y].loop
    BY <1>5, <2>1 DEF RunOK, Active
  <2>3. y \in Live
    BY <1>2, <2>1, <2>2 DEF RunOK
  <2> QED
    BY <1>2, <2>1, <2>3 DEF CoreInv, LiveInv, Alone
<1>8. exists[run[x].routine] \/ run[x].status = "deleted"
  BY <1>4, <1>5 DEF CoreInv, RunsInv, RunOK
<1>9. UNCHANGED <<stop, exists, deleting, up>>
  BY <1>1 DEF Keeps
\* The run's end follows: finish is at the head, and its finally behind.
<1>10. ASSUME NEW result \in Results, todo' = <<<<"finish", x, result>>>> \o Closing(x), UNCHANGED pc,
              run'[x].routine = run[x].routine, run'[x].loop = run[x].loop, \A y \in Runs \ {x} : run'[y] = run[y],
              run'[x].status = run[x].status \/ (run[x].status # "deleted" /\ run'[x].status = "running" /\ stop[x] # "no")
       PROVE  CoreInv' /\ Mute
  <2>1. Goes({<<"finish", x>>}, {x}, {}) /\ ~AsksIn(todo')
    BY <1>2, <1>10, StartFinish
  <2>2. QueueNext
    BY <1>2, <2>1, GoesNext
  <2>3. /\ \A y : Closes(y)' <=> y = x
        /\ \A op \in Exec : \A y : Now(op, y)' <=> op = "finish" /\ y = x
    BY <1>3, <2>1 DEF Goes
  <2>4. Now("finish", x)' /\ ~Now("loopStart", x)' /\ ~Now("portStart", x)' /\ ~Now("loopRecord", x)' /\ ~Works1(x)'
    BY <2>3 DEF Exec, Works1, Works
  <2>5. ~Ending(x)'
    BY <2>4 DEF Ending
  <2>6. Moves(x)
    <3>1. run'[x].status \in Active => run[x].status \in Active \/ \A y \in ActiveRuns(run[x].routine) : y = x
      BY <1>7, <1>10 DEF Active
    <3> QED
      BY <1>1, <1>2, <1>3, <1>5, <1>6, <1>10, <2>3, <2>5, <3>1 DEF Moves
  <2>7. LiveOK(x)'
    <3>1. run'[x].status \in Active \cup {"deleted"} \/ (run'[x].status = "ended" /\ run'[x].routine \in deleting')
      BY <1>5, <1>9, <1>10 DEF Active
    <3>2. stop'[x] = "no" => run'[x].status \in Active
      BY <1>5, <1>9, <1>10
    <3>3. run'[x].routine \in deleting' => stop'[x] # "no"
      BY <1>4, <1>9, <1>10 DEF LiveOK
    <3> QED
      BY <1>1, <1>5, <1>10, <2>4, <2>5, <3>1, <3>2, <3>3 DEF LiveOK
  <2>8. RunOK(x)'
    <3>1. x \in Live'
      BY <1>2, <1>10 DEF Live
    <3>2. run'[x].status \in Active => exists'[run'[x].routine]
      BY <1>8, <1>9, <1>10 DEF Active
    <3>3. run'[x].status = "queued" => run'[x].routine \notin deleting'
      BY <1>4, <1>9, <1>10 DEF RunOK
    <3>4. run'[x].status # "none"
      BY <1>5, <1>10 DEF Active
    <3> QED
      BY <1>1, <1>5, <1>10, <3>1, <3>2, <3>3, <3>4 DEF RunOK
  <2> QED
    BY <1>3, <2>1, <2>2, <2>3, <2>6, <2>7, <2>8, MovesCore DEF Mute
<1>11. CASE todo' = <<<<"finish", x, "failed">>>> \o Closing(x) /\ UNCHANGED <<run, pc>>
  BY <1>10, <1>11 DEF Results
<1>12. ASSUME run' = [run EXCEPT ![x].status = IF @ = "deleted" THEN @ ELSE "running"]
       PROVE  /\ run'[x].status = (IF run[x].status = "deleted" THEN "deleted" ELSE "running")
              /\ run'[x].routine = run[x].routine /\ run'[x].loop = run[x].loop /\ \A y \in Runs \ {x} : run'[y] = run[y]
  <2>0. PICK v : v = (IF run[x].status = "deleted" THEN "deleted" ELSE "running")
    OBVIOUS
  <2>1. run' = [run EXCEPT ![x].status = v]
    BY <1>12, <2>0
  <2>2. /\ run'[x].status = v /\ run'[x].routine = run[x].routine /\ run'[x].loop = run[x].loop
        /\ \A y \in Runs \ {x} : run'[y] = run[y]
    BY <2>1, RunStatus
  <2> QED
    BY <2>0, <2>2
<1>13. CASE /\ run' = [run EXCEPT ![x].status = IF @ = "deleted" THEN @ ELSE "running"] /\ stop[x] # "no" /\ UNCHANGED pc
            /\ todo' = <<<<"finish", x, StoppedAs(x)>>>> \o Closing(x)
  <2>1. StoppedAs(x) \in Results
    BY DEF StoppedAs, Results
  <2> QED
    BY <1>10, <1>12, <1>13, <2>1
<1>14. CASE /\ run' = [run EXCEPT ![x].status = IF @ = "deleted" THEN @ ELSE "running"] /\ stop[x] = "no"
            /\ UNCHANGED todo /\ pc' = [pc EXCEPT ![x] = "send"]
  <2>1. run[x].status \in Active
    BY <1>5, <1>14
  <2>2. run'[x].status = "running"
    BY <1>12, <1>14, <2>1 DEF Active
  <2>3. QueueNext /\ NoWork /\ NoWork' /\ SameEnds
    BY <1>2, <1>3, <1>14, CalmSame
  <2>4. pc'[x] = "send" /\ \A y \in Runs \ {x} : pc'[y] = pc[y]
    BY <1>14 DEF TypeOK
  <2>5. (\A op, y : ~Now(op, y)') /\ (\A y : ~Closes(y)' /\ ~Ending(y)') /\ ~AsksIn(todo')
    BY <1>3, <1>14 DEF Now, Closes, Ending
  <2>6. Moves(x)
    BY <1>1, <1>2, <1>3, <1>5, <1>6, <1>12, <1>14, <2>1, <2>4, <2>5 DEF Moves
  <2>7. LiveOK(x)'
    <3>1. ~Works1(x)'
      BY <2>5 DEF Works1
    <3>3. run'[x].routine \in deleting' => stop'[x] # "no"
      BY <1>4, <1>9, <1>12, <1>14 DEF LiveOK
    <3> QED
      BY <1>1, <1>5, <1>12, <1>14, <2>2, <2>4, <2>5, <3>1, <3>3 DEF LiveOK, Active
  <2>8. RunOK(x)'
    <3>1. x \in Live'
      BY <2>4 DEF Live
    <3>2. exists'[run'[x].routine]
      BY <1>8, <1>9, <1>12, <1>14, <2>1 DEF Active
    <3> QED
      BY <1>1, <1>5, <1>12, <1>14, <2>2, <3>1, <3>2 DEF RunOK, Active
  <2> QED
    BY <1>3, <2>3, <2>5, <2>6, <2>7, <2>8, MovesCore DEF Mute
<1> QED
  BY <1>11, <1>13, <1>14 DEF Created, AfterCreate

-----------------------------------------------------------------------------
(* The steps that begin or forget a live run, and those of the queue of runs.  *)

\* A queued run is taken into the live set: it was its routine's only candidate.
LEMMA StartsCore ==
  ASSUME TypeOK, CoreInv, DrainStarts
  PROVE  CoreInv' /\ Mute
<1> USE DEF rowVars, fireVars, liveVars, procVars, sessVars, histVars
<1>x. PICK x : x = Min(Drains)
  OBVIOUS
<1>1. /\ Doing("drain") /\ x \in Startable /\ UNCHANGED <<run, loop, armed, exists, deleting, up>>
      /\ pc' = [pc EXCEPT ![x] = "begin"] /\ stop' = [stop EXCEPT ![x] = "no"] /\ home' = [home EXCEPT ![x] = NoRun]
      /\ todo' = <<<<"begin", x>>>> \o todo
  BY <1>x DEF DrainStarts
<1>2. x \in Runs /\ x \notin Live /\ run[x].status = "queued" /\ run[x].routine \notin deleting /\ ~RoutineIsLive(run[x].routine)
  BY <1>1 DEF Startable, Drainable
<1>3. QueueInv /\ RunsInv /\ LiveInv /\ OverlapInv /\ ArmedInv /\ RunOK(x)
  BY <1>2 DEF CoreInv, RunsInv
<1>4. up /\ todo # <<>> /\ todo[1][1] = "drain" /\ Gone = {} /\ \A o, y : Now(o, y) => o = "drain"
  <2>1. QueueInv /\ Doing("drain")
    BY <1>1, <1>3
  <2> QED
    BY <2>1, AtWork
<1>5. "drain" \notin Exec /\ "drain" \notin Light /\ "drain" \notin Asked /\ "begin" \in Works /\ Works \subseteq Exec /\ "begin" # "finish"
  BY DEF Exec, Light, Asked, Works
<1>6. ~AsksIn(todo)
  BY <1>3, <1>4, <1>5, Rest
<1>7. Goes({<<"begin", x>>}, {}, {}) /\ ~AsksIn(todo')
  <2> DEFINE f == <<"begin", x>>
  <2>1. f \in Frames
    BY <1>2, FrameIn, Zenon
  <2>2. f[1] = "begin" /\ f[2] = x /\ <<f[1], f[2]>> = f /\ todo' = <<f>> \o todo
    BY <1>1
  <2>3. "begin" \notin Asked /\ "drain" \notin Exec \cup {"forget"}
    BY <1>5 DEF Asked
  <2> HIDE DEF f
  <2>4. Goes({<<f[1], f[2]>>}, {}, {}) /\ (AsksIn(todo') <=> f[1] \in Asked \/ AsksIn(todo))
    BY <1>3, <1>4, <1>6, <2>1, <2>2, <2>3, GoFirst
  <2>5. <<f[1], f[2]>> = <<"begin", x>>
    BY <2>2
  <2> QED
    BY <1>6, <2>2, <2>3, <2>4, <2>5
<1>8. QueueNext
  BY <1>3, <1>7, GoesNext
<1>9. /\ \A y : Closes(y)' <=> Closes(y)
      /\ \A op \in Exec : \A y : Now(op, y)' <=> op = "begin" /\ y = x
  BY <1>4, <1>7 DEF Goes
<1>10. ~Closes(x) /\ \A op \in Exec : \A y : ~Now(op, y)
  BY <1>2, <1>3, <1>4, <1>5 DEF QueueInv
<1>11. /\ pc'[x] = "begin" /\ stop'[x] = "no" /\ home'[x] = NoRun
       /\ \A y \in Runs \ {x} : pc'[y] = pc[y] /\ stop'[y] = stop[y] /\ home'[y] = home[y]
  BY <1>1, <1>2 DEF TypeOK
<1>12. Live' = Live \cup {x}
  BY <1>2, <1>11 DEF Live
<1>13. ASSUME NEW y \in Runs \ {x}
       PROVE  Other(y)
  BY <1>1, <1>9, <1>10, <1>11 DEF Other
<1>14. Works1(x)' /\ ~Now("finish", x)' /\ ~Now("loopStart", x)' /\ ~Now("portStart", x)' /\ ~Now("loopRecord", x)' /\ ~Closes(x)' /\ ~Ending(x)'
  BY <1>5, <1>9, <1>10 DEF Works1, Works, Exec, Ending
<1>15. LiveOK(x)'
  <2>1. run[x].routine \in Routines /\ ~run[x].loop /\ loop[x] = "none" /\ run[x].status \in Active
    BY <1>2, <1>3 DEF RunOK, Active
  <2> QED
    BY <1>1, <1>2, <1>11, <1>14, <2>1 DEF LiveOK
<1>16. RunsInv'
  <2>1. RunOK(x)'
    BY <1>1, <1>2, <1>3, <1>12 DEF RunOK
  <2> QED
    BY <1>1, <1>3, <1>13, <2>1, OtherRun DEF RunsInv
<1>17. LiveInv'
  <2>1. \A y \in Live : y \in Runs /\ y # x /\ LiveOK(y)
    BY <1>2, <1>3 DEF Live, LiveInv
  <2>2. \A y \in Live : LiveOK(y)'
    BY <1>1, <1>13, <2>1, OtherLive
  <2>3. Alone'
    BY <1>1, <1>2, <1>3, <1>12 DEF LiveInv, Alone, RoutineIsLive
  <2> QED
    BY <1>12, <1>15, <2>2, <2>3 DEF LiveInv
<1>18. OverlapInv'
  BY <1>1, <1>3, SameActive
<1>19. ArmedInv'
  <2>1. ASSUME NEW y \in Live
        PROVE  home'[y] = home[y] /\ (Ending(y)' <=> Ending(y))
    <3>1. y \in Runs \ {x}
      BY <1>2 DEF Live
    <3> QED
      BY <1>13, <3>1 DEF Other, Ending, Exec
  <2> QED
    BY <1>1, <1>3, <1>12, <2>1 DEF ArmedInv
<1>20. QueueInv'
  <2>1. \A y \in Runs : Closes(y)' => y \in Live'
    BY <1>3, <1>9, <1>12 DEF QueueInv
  <2>2. \A y \in Runs : Has(todo, "outcome", y)' => run'[y].routine \in Routines
    BY <1>1, <1>8 DEF QueueNext
  <2>3. \A y \in Runs : \A op \in Exec : Now(op, y)' => y \in Live' /\ (op = "finish" <=> Closes(y)')
    BY <1>9, <1>10, <1>12, <1>5
  <2>4. ExecFirst(todo)' /\ Ordered(todo)' /\ OnceEach(todo)'
    BY <1>8 DEF QueueNext
  <2> QED
    BY <2>1, <2>2, <2>3, <2>4 DEF QueueInv
<1> QED
  BY <1>6, <1>7, <1>16, <1>17, <1>18, <1>19, <1>20 DEF CoreInv, Mute

LEMMA ForgetCore ==
  ASSUME TypeOK, CoreInv, Forget
  PROVE  CoreInv' /\ Mute
<1> USE DEF rowVars, fireVars, liveVars, procVars, sessVars, histVars
<1>x. PICK x : x = Arg
  OBVIOUS
<1>1. /\ Doing("forget") /\ UNCHANGED <<run, loop, armed, exists, deleting, up>> /\ Front(<<>>)
      /\ pc' = [pc EXCEPT ![x] = "off"] /\ stop' = [stop EXCEPT ![x] = "no"] /\ home' = [home EXCEPT ![x] = NoRun]
  BY <1>x DEF Forget, Forgotten
<1>2. QueueInv /\ RunsInv /\ LiveInv /\ OverlapInv /\ ArmedInv
  BY DEF CoreInv
<1>3. up /\ todo # <<>> /\ todo[1][1] = "forget" /\ todo[1][2] = x /\ todo[1] \in Frames /\ \A o, y : Now(o, y) => o = "forget"
  BY <1>x, <1>1, <1>2, AtWork
<1>4. x \in Runs /\ Closes(x)
  BY <1>2, <1>3, FrameShape, Rest DEF Closes
<1>5. x \in Live /\ LiveOK(x) /\ RunOK(x)
  BY <1>2, <1>4 DEF QueueInv, LiveInv, RunsInv
<1>6. "forget" \notin Exec /\ "forget" \notin Light /\ "forget" \notin Asked /\ Gone = {x}
  BY <1>3 DEF Exec, Light, Asked, Gone
<1>7. Goes({}, {}, {}) /\ (AsksIn(todo') <=> AsksIn(Tail(todo)))
  BY <1>1, <1>2, <1>3, GoOn
<1>8. ~AsksIn(todo) /\ ~AsksIn(todo')
  BY <1>2, <1>3, <1>6, <1>7, Rest
<1>9. QueueNext
  BY <1>2, <1>7, GoesNext
<1>10. /\ \A y : Closes(y)' <=> Closes(y) /\ y # x
       /\ \A op \in Exec : \A y : ~Now(op, y) /\ ~Now(op, y)'
  BY <1>3, <1>6, <1>7 DEF Goes
<1>11. /\ pc'[x] = "off" /\ \A y \in Runs \ {x} : pc'[y] = pc[y] /\ stop'[y] = stop[y] /\ home'[y] = home[y]
  BY <1>1, <1>4 DEF TypeOK
<1>12. Live' = Live \ {x}
  BY <1>11 DEF Live
<1>13. ASSUME NEW y \in Runs \ {x}
       PROVE  Other(y)
  BY <1>1, <1>10, <1>11 DEF Other
<1>14. Ending(x) /\ ~Now("loopRecord", x)
  BY <1>4, <1>10 DEF Ending, Exec
<1>15. RunsInv'
  <2>1. run[x].status \notin Active \/ run[x].loop
    BY <1>5, <1>14 DEF LiveOK
  <2>2. ~(loop[x] = "active" /\ ~run[x].loop)
    BY <1>5, <1>14 DEF LiveOK
  <2>3. RunOK(x)'
    BY <1>1, <1>5, <2>1, <2>2 DEF RunOK, Active
  <2> QED
    BY <1>1, <1>2, <1>13, <2>3, OtherRun DEF RunsInv
<1>16. LiveInv'
  <2>1. \A y \in Live' : LiveOK(y)'
    BY <1>1, <1>2, <1>12, <1>13, OtherLive DEF LiveInv, Live
  <2>2. Alone'
    BY <1>1, <1>2, <1>12 DEF LiveInv, Alone
  <2> QED
    BY <2>1, <2>2 DEF LiveInv
<1>17. OverlapInv'
  BY <1>1, <1>2, SameActive
<1>18. ArmedInv'
  <2>1. ASSUME NEW s \in armed
        PROVE  \E y \in Live' : home'[y] = s /\ ~Ending(y)'
    <3>1. PICK y \in Live : home[y] = s /\ ~Ending(y)
      BY <1>2 DEF ArmedInv
    <3>2. y \in Runs \ {x} /\ y \in Live'
      BY <1>12, <1>14, <3>1 DEF Live
    <3>3. home'[y] = home[y] /\ (Ending(y)' <=> Ending(y))
      BY <1>13, <3>2 DEF Other, Ending, Exec
    <3> QED
      BY <3>1, <3>2, <3>3
  <2> QED
    BY <1>1, <2>1 DEF ArmedInv
<1>19. QueueInv'
  <2>1. \A y \in Runs : Closes(y)' => y \in Live'
    BY <1>2, <1>10, <1>12 DEF QueueInv
  <2>2. \A y \in Runs : Has(todo, "outcome", y)' => run'[y].routine \in Routines
    BY <1>1, <1>9 DEF QueueNext
  <2>4. ExecFirst(todo)' /\ Ordered(todo)' /\ OnceEach(todo)'
    BY <1>9 DEF QueueNext
  <2> QED
    BY <1>10, <2>1, <2>2, <2>4 DEF QueueInv
<1> QED
  BY <1>8, <1>15, <1>16, <1>17, <1>18, <1>19 DEF CoreInv, Mute

\* A fire is admitted: by what it read of the routine, no policy is broken.
LEMMA AdmitsCore ==
  ASSUME TypeOK, CoreInv, Admit, ~Declined(Arg), Unused # {}, exists[Arg]
  PROVE  /\ CoreInv' /\ ~AsksIn(todo') /\ Min(Unused) \in Unused /\ Unused \subseteq Runs /\ Arg \in Routines
         /\ run' = [run EXCEPT ![Min(Unused)] = [status |-> "queued", routine |-> Arg, manual |-> Head(todo)[4], loop |-> FALSE]]
         /\ rows' = Written(Arg, Head(todo)[3]) /\ todo # <<>> /\ todo[1][1] = "admit" /\ Front(<<<<"drain", 0>>>>)
<1> USE DEF rowVars, fireVars, liveVars, procVars, sessVars, histVars
<1>r. PICK r : r = Arg
  OBVIOUS
<1>x. PICK x : x = Min(Unused)
  OBVIOUS
<1>q. PICK q : q = [status |-> "queued", routine |-> r, manual |-> Head(todo)[4], loop |-> FALSE]
  OBVIOUS
<1>1. /\ Doing("admit") /\ UNCHANGED <<loop, pc, stop, home, armed, exists, deleting, up>> /\ Front(<<<<"drain", 0>>>>)
      /\ run' = [run EXCEPT ![x] = q] /\ r \notin deleting /\ ~StandsDown(r) /\ rows' = Written(r, Head(todo)[3])
  BY <1>r, <1>x, <1>q DEF Admit, Declined
<1>2. QueueInv /\ RunsInv /\ LiveInv /\ OverlapInv /\ ArmedInv
  BY DEF CoreInv
<1>3. todo # <<>> /\ todo[1][1] = "admit" /\ todo[1][2] = r /\ todo[1] \in Frames /\ up
  BY <1>1, <1>2, <1>r, AtWork
<1>4. r \in Routines
  BY <1>3, FrameShape
<1>5. x \in Unused /\ x \in Runs /\ Unused \subseteq Runs
  <2>1. Unused \in SUBSET Runs
    BY Facts DEF Unused, TypeOK, Runs
  <2> QED
    BY <1>x, <2>1, MinRun
<1>6. run[x].status = "none" /\ RunOK(x)
  BY <1>2, <1>5 DEF Unused, RunsInv
<1>7. run[x].routine = "none" /\ loop[x] = "none" /\ x \notin Live
  <2>1. run[x].routine = "none" /\ loop[x] = "none"
    BY <1>6 DEF RunOK
  <2> QED
    BY <1>2, <2>1, Facts DEF LiveInv, LiveOK
<1>8. /\ run'[x].status = "queued" /\ run'[x].routine = r /\ run'[x].loop = FALSE
      /\ \A y \in Runs \ {x} : run'[y] = run[y]
  BY <1>1, <1>5, <1>q DEF TypeOK
<1>9. QueueNext /\ NoWork /\ NoWork' /\ SameEnds
  <2>1. <<"drain", 0>> \in Frames
    BY FrameIn, Zenon
  <2>2. "admit" \notin Exec \cup {"forget"} /\ "drain" \notin Exec \cup {"forget", "outcome"} /\ "admit" \notin Light
    BY DEF Exec, Light
  <2>3. <<"drain", 0>>[1] = "drain"
    OBVIOUS
  <2> QED
    BY <1>1, <1>2, <2>1, <2>2, <2>3, CalmTo
<1>10. ~AsksIn(todo')
  <2>1. <<"drain", 0>> \in Frames
    BY FrameIn, Zenon
  <2>2. "admit" \notin Light /\ "drain" \notin {"forget", "outcome"} /\ "drain" \notin Asked
    BY DEF Light, Asked
  <2>3. <<"drain", 0>>[1] = "drain"
    OBVIOUS
  <2>4. AsksIn(todo') <=> <<"drain", 0>>[1] \in Asked \/ AsksIn(Tail(todo))
    BY <1>1, <1>2, <1>3, <2>1, <2>2, <2>3, GoTo
  <2> QED
    BY <1>2, <1>3, <2>2, <2>3, <2>4, Rest
<1>11. ASSUME NEW y \in Runs \ {x}
       PROVE  Other(y)
  BY <1>1, <1>8, <1>9 DEF Other, NoWork, SameEnds
<1>12. Live' = Live
  BY <1>1 DEF Live
<1>13. RunsInv'
  <2>1. RunOK(x)'
    BY <1>r, <1>1, <1>4, <1>7, <1>8, <1>12 DEF RunOK, Active
  <2> QED
    BY <1>1, <1>2, <1>11, <2>1, OtherRun DEF RunsInv
<1>14. LiveInv'
  <2>1. \A y \in Live : y \in Runs \ {x} /\ LiveOK(y)
    BY <1>2, <1>7 DEF Live, LiveInv
  <2>2. \A y \in Live : LiveOK(y)' /\ run'[y] = run[y]
    BY <1>1, <1>8, <1>11, <2>1, OtherLive
  <2>3. Alone'
    BY <1>2, <1>12, <2>2 DEF LiveInv, Alone
  <2> QED
    BY <1>12, <2>2, <2>3 DEF LiveInv
<1>15. OverlapInv'
  <2>1. \A p : \A y \in ActiveRuns(p)' : y \in ActiveRuns(p) \/ (p = r /\ y = x)
    BY <1>8 DEF ActiveRuns
  <2>2. ASSUME r \notin Queued
        PROVE  ActiveRuns(r) = {}
    BY <1>1, <2>2 DEF StandsDown
  <2>3. ASSUME NEW y \in ActiveRuns(r)
        PROVE  y \in Live /\ run[y].routine = r
    <3>1. y \in Runs /\ run[y].routine = r /\ run[y].status \in Active /\ ~run[y].loop /\ ~Waiting(y) /\ RunOK(y)
      BY <1>1, <1>2, <2>3 DEF ActiveRuns, StandsDown, RunsInv
    <3>2. CASE run[y].status = "queued"
      BY <3>1, <3>2 DEF Waiting
    <3>3. CASE run[y].status \in {"checking", "running"}
      BY <1>3, <3>1, <3>3 DEF RunOK
    <3> QED
      BY <3>1, <3>2, <3>3 DEF Active
  <2>4. \A y, z \in ActiveRuns(r) : y = z
    BY <1>2, <2>3 DEF LiveInv, Alone
  <2>5. ASSUME NEW p \in Routines
        PROVE  IF p \in Queued
                 THEN \A u, v, w \in ActiveRuns(p)' : u = v \/ v = w \/ u = w
                 ELSE \A u, v \in ActiveRuns(p)' : u = v
    <3>1. CASE p # r
      <4>1. ActiveRuns(p)' \subseteq ActiveRuns(p)
        BY <2>1, <3>1
      <4> QED
        BY <1>2, <4>1 DEF OverlapInv
    <3>2. CASE p = r
      BY <2>1, <2>2, <2>4, <3>2
    <3> QED
      BY <3>1, <3>2
  <2> QED
    BY <2>5 DEF OverlapInv
<1>16. ArmedInv'
  <2>1. ASSUME NEW y \in Live
        PROVE  home'[y] = home[y] /\ (Ending(y)' <=> Ending(y))
    <3>1. y \in Runs \ {x}
      BY <1>7 DEF Live
    <3> QED
      BY <1>11, <3>1 DEF Other, Ending, Exec
  <2> QED
    BY <1>1, <1>2, <1>12, <2>1 DEF ArmedInv
<1>17. QueueInv'
  <2>1. \A y \in Runs : Closes(y)' => y \in Live'
    BY <1>2, <1>9, <1>12 DEF QueueInv, SameEnds
  <2>2. \A y \in Runs : Has(todo, "outcome", y)' => run'[y].routine \in Routines
    BY <1>4, <1>8, <1>9 DEF QueueNext
  <2>4. ExecFirst(todo)' /\ Ordered(todo)' /\ OnceEach(todo)'
    BY <1>9 DEF QueueNext
  <2> QED
    BY <1>9, <2>1, <2>2, <2>4 DEF QueueInv, NoWork
<1> QED
  BY <1>r, <1>x, <1>q, <1>1, <1>3, <1>4, <1>5, <1>10, <1>13, <1>14, <1>15, <1>16, <1>17 DEF CoreInv

\* A loop ends while no handler runs; its run is not at work.
\* A loop ends: its run is still open, and follows it or is at the statement that records it.
LEMMA LoopEndedCore ==
  ASSUME TypeOK, CoreInv, DownInv, NEW x \in Runs, NEW end \in LoopEnds, LoopEnded(x, end)
  PROVE  CoreInv' /\ Mute
<1> USE DEF rowVars, fireVars, liveVars, procVars, sessVars, histVars
<1>1. /\ todo = <<>> /\ loop[x] = "active" /\ loop' = [loop EXCEPT ![x] = end]
      /\ UNCHANGED <<run, pc, stop, home, armed, exists, deleting, up>>
      /\ todo' = IF up THEN <<<<"follow", run[x].routine>>>> ELSE <<>>
  BY DEF LoopEnded
<1>2. QueueInv /\ RunsInv /\ LiveInv /\ OverlapInv /\ ArmedInv /\ RunOK(x)
  BY DEF CoreInv, RunsInv
<1>3. (\A op, y : ~Now(op, y)) /\ ~AsksIn(todo) /\ (\A y : ~Closes(y) /\ ~Ending(y)) /\ Gone = {}
  BY <1>1, <1>2, AtRest
<1>4. run[x].status = "running" /\ run[x].routine \in Routines
  BY <1>1, <1>2 DEF RunOK, Active
<1>5. x \notin Live
  BY <1>1, <1>2, <1>3 DEF LiveInv, LiveOK
<1>6. QueueNext /\ NoWork' /\ SameEnds /\ ~AsksIn(todo')
  <2>1. CASE up
    <3> DEFINE f == <<"follow", run[x].routine>>
    <3>1. f \in Frames
      BY <1>4, FrameIn, Zenon
    <3>2. f[1] = "follow" /\ todo' = <<f>>
      BY <1>1, <2>1
    <3> HIDE DEF f
    <3>3. f[1] \notin Exec \cup {"forget", "outcome"} /\ f[1] \notin Asked
      BY <3>2 DEF Exec, Asked
    <3>4. ~AsksIn(todo')
      BY <1>1, <1>2, <3>1, <3>2, <3>3, StartOne
    <3> QED
      BY <1>1, <1>2, <3>1, <3>2, <3>3, <3>4, CalmStart
  <2>2. CASE ~up
    <3>1. UNCHANGED todo
      BY <1>1, <2>2
    <3> QED
      BY <1>2, <1>3, <3>1, CalmSame
  <2> QED
    BY <2>1, <2>2
<1>7. loop'[x] = end /\ end # "active" /\ \A y \in Runs \ {x} : loop'[y] = loop[y]
  BY <1>1 DEF TypeOK, LoopEnds
<1>8. ASSUME NEW y \in Runs \ {x}
      PROVE  Other(y)
  BY <1>1, <1>3, <1>6, <1>7 DEF Other, NoWork, SameEnds
<1>9. Live' = Live
  BY <1>1 DEF Live
<1>10. RunsInv'
  <2>1. RunOK(x)'
    BY <1>1, <1>2, <1>4, <1>7, <1>9 DEF RunOK
  <2> QED
    BY <1>1, <1>2, <1>8, <2>1, OtherRun DEF RunsInv
<1>11. LiveInv'
  <2>1. \A y \in Live : y \in Runs \ {x} /\ LiveOK(y)
    BY <1>2, <1>5 DEF Live, LiveInv
  <2>2. \A y \in Live : LiveOK(y)'
    BY <1>1, <1>8, <2>1, OtherLive
  <2>3. Alone'
    BY <1>1, <1>2, <1>9 DEF LiveInv, Alone
  <2> QED
    BY <1>9, <2>2, <2>3 DEF LiveInv
<1>12. OverlapInv'
  BY <1>1, <1>2, SameActive
<1>13. ArmedInv'
  <2>1. ASSUME NEW y \in Live
        PROVE  home'[y] = home[y] /\ (Ending(y)' <=> Ending(y))
    <3>1. y \in Runs \ {x}
      BY <1>5 DEF Live
    <3> QED
      BY <1>8, <3>1 DEF Other, Ending, Exec
  <2> QED
    BY <1>1, <1>2, <1>9, <2>1 DEF ArmedInv
<1>14. QueueInv'
  <2>1. \A y \in Runs : Closes(y)' => y \in Live'
    BY <1>2, <1>6, <1>9 DEF QueueInv, SameEnds
  <2>2. \A y \in Runs : Has(todo, "outcome", y)' => run'[y].routine \in Routines
    BY <1>1, <1>6 DEF QueueNext
  <2>4. ExecFirst(todo)' /\ Ordered(todo)' /\ OnceEach(todo)'
    BY <1>6 DEF QueueNext
  <2> QED
    BY <1>6, <2>1, <2>2, <2>4 DEF QueueInv, NoWork
<1> QED
  BY <1>3, <1>6, <1>10, <1>11, <1>12, <1>13, <1>14 DEF CoreInv, Mute

-----------------------------------------------------------------------------
(* The requests that no frame follows, and the process.                        *)

LEMMA EmptyQueue ==
  ASSUME todo' = <<>>
  PROVE  QueueInv' /\ (\A op, y : ~Now(op, y)') /\ (\A y : ~Closes(y)' /\ ~Ending(y)') /\ ~AsksIn(todo')
<1>1. /\ \A op, x : ~Has(todo', op, x)
      /\ ~AsksIn(todo') /\ Ordered(todo') /\ OnceEach(todo') /\ ExecFirst(todo')
  BY Empties
<1>2. (\A op, y : ~Now(op, y)') /\ \A y : ~Closes(y)' /\ ~Ending(y)'
  BY <1>1 DEF Now, Closes, Ending
<1> QED
  BY <1>1, <1>2 DEF QueueInv, Closes

LEMMA AtRestCore ==
  ASSUME TypeOK, CoreInv, todo = <<>>, UNCHANGED <<todo, pc, home, armed, up, loop>>,
         \A y \in Runs : run'[y].status \in Active => run[y].status \in Active /\ run'[y].routine = run[y].routine,
         \A y \in Live : run'[y].routine = run[y].routine,
         \A y \in Live : LiveOK(y)', RunsInv'
  PROVE  CoreInv' /\ Mute
<1>1. LiveInv /\ OverlapInv /\ ArmedInv /\ QueueInv
  BY DEF CoreInv
<1>2. Live' = Live
  BY DEF Live
<1>3. QueueInv' /\ (\A y : ~Ending(y)') /\ ~AsksIn(todo')
  BY EmptyQueue
<1>4. LiveInv'
  BY <1>1, <1>2 DEF LiveInv, Alone
<1>5. OverlapInv'
  <2>1. \A r : ActiveRuns(r)' \subseteq ActiveRuns(r)
    BY DEF ActiveRuns
  <2> QED
    BY <1>1, <2>1 DEF OverlapInv
<1>6. ArmedInv'
  BY <1>1, <1>2, <1>3 DEF ArmedInv
<1> QED
  BY <1>3, <1>4, <1>5, <1>6 DEF CoreInv, Mute

\* Nothing but the marks by which an execution is told to stop changes.
LEMMA TellsCore ==
  ASSUME TypeOK, CoreInv, todo = <<>>, UNCHANGED <<todo, pc, home, armed, up, loop, run, exists, deleting>>,
         \A y \in Runs : stop'[y] = stop[y] \/ stop'[y] # "no"
  PROVE  CoreInv' /\ Mute
<1>1. QueueInv /\ RunsInv /\ LiveInv
  BY DEF CoreInv
<1>2. (\A op, y : ~Now(op, y)) /\ \A y : ~Closes(y) /\ ~Ending(y)
  BY <1>1, AtRest
<1>3. (\A op, y : ~Now(op, y)') /\ \A y : ~Closes(y)' /\ ~Ending(y)'
  BY EmptyQueue
<1>4. Live' = Live
  BY DEF Live
<1>5. ASSUME NEW y \in Live
      PROVE  LiveOK(y)'
  <2>1. LiveOK(y) /\ y \in Runs
    BY <1>1 DEF LiveInv, Live
  <2>2. ~Works1(y) /\ ~Works1(y)'
    BY <1>2, <1>3 DEF Works1
  <2> QED
    BY <1>2, <1>3, <2>1, <2>2 DEF LiveOK
<1>6. RunsInv'
  BY <1>1, <1>2, <1>4 DEF RunsInv, RunOK
<1> QED
  BY <1>5, <1>6, AtRestCore

LEMMA CancelCore ==
  ASSUME TypeOK, CoreInv, NEW x \in Runs, CancelRun(x), x \in Live
  PROVE  CoreInv' /\ Mute
<1> USE DEF rowVars, fireVars, liveVars, procVars, sessVars, histVars
<1>1. todo = <<>> /\ UNCHANGED <<todo, pc, home, armed, up, loop, run, exists, deleting>> /\ stop' = [stop EXCEPT ![x] = "cancelled"]
  BY DEF CancelRun, Idle
<1>2. \A y \in Runs : stop'[y] = stop[y] \/ stop'[y] # "no"
  BY <1>1 DEF TypeOK
<1> QED
  BY <1>1, <1>2, TellsCore

LEMMA StopCore ==
  ASSUME TypeOK, CoreInv, StopDaemon
  PROVE  CoreInv' /\ Mute
<1> USE DEF rowVars, fireVars, liveVars, procVars, sessVars, histVars
<1>1. todo = <<>> /\ UNCHANGED <<todo, pc, home, armed, up, loop, run, exists, deleting>>
      /\ stop' = [x \in Runs |-> IF x \in Live THEN "interrupted" ELSE stop[x]]
  BY DEF StopDaemon, Idle
<1>2. \A y \in Runs : stop'[y] = stop[y] \/ stop'[y] # "no"
  BY <1>1
<1> QED
  BY <1>1, <1>2, TellsCore

\* A delete begins: live runs are told, queued ones closed.
LEMMA DeleteCore ==
  ASSUME TypeOK, CoreInv, NEW r \in Routines, Delete(r)
  PROVE  CoreInv' /\ Mute
<1> USE DEF rowVars, fireVars, liveVars, procVars, sessVars, histVars
<1>1. /\ todo = <<>> /\ UNCHANGED <<todo, pc, home, armed, up, loop, exists>> /\ deleting' = deleting \cup {r} /\ exists[r]
      /\ \A x \in Runs : stop'[x] = IF x \in Live /\ run[x].routine = r /\ stop[x] = "no" THEN "cancelled" ELSE stop[x]
      /\ \A x \in Runs : run'[x] = IF run[x].routine = r /\ run[x].status = "queued" THEN Row(x, "cancelled") ELSE run[x]
  BY DEF Delete, Idle
<1>2. QueueInv /\ RunsInv /\ LiveInv
  BY DEF CoreInv
<1>3. (\A op, y : ~Now(op, y)) /\ \A y : ~Closes(y) /\ ~Ending(y)
  BY <1>1, <1>2, AtRest
<1>4. (\A op, y : ~Now(op, y)') /\ \A y : ~Closes(y)' /\ ~Ending(y)'
  BY <1>1, EmptyQueue
<1>5. Live' = Live
  BY <1>1 DEF Live
<1>6. ASSUME NEW y \in Runs
      PROVE  /\ run'[y].routine = run[y].routine /\ run'[y].loop = run[y].loop
             /\ run'[y].status = IF run[y].routine = r /\ run[y].status = "queued" THEN "ended" ELSE run[y].status
  <2>1. /\ Row(y, "cancelled").routine = run[y].routine /\ Row(y, "cancelled").loop = run[y].loop
        /\ Row(y, "cancelled").status = IF run[y].status = "deleted" THEN "deleted" ELSE "ended"
    BY RowType
  <2> QED
    BY <1>1, <2>1
<1>7. ASSUME NEW y \in Live
      PROVE  LiveOK(y)'
  <2>1. LiveOK(y) /\ y \in Runs
    BY <1>2 DEF LiveInv, Live
  <2>2. ~Works1(y) /\ ~Works1(y)'
    BY <1>3, <1>4 DEF Works1
  <2>3. (stop'[y] = "no" => stop[y] = "no" /\ run[y].routine # r) /\ (run'[y].routine \in deleting' => stop'[y] # "no")
    BY <1>1, <1>6, <2>1 DEF LiveOK
  <2>4. run'[y].status \in Active \cup {"deleted"} \/ (run'[y].status = "ended" /\ run'[y].routine \in deleting')
    BY <1>1, <1>3, <1>6, <2>1 DEF LiveOK
  <2>5. stop'[y] = "no" => run'[y].status \in Active
    BY <1>3, <1>6, <2>1, <2>3 DEF LiveOK
  <2> QED
    BY <1>1, <1>3, <1>4, <1>6, <2>1, <2>2, <2>3, <2>4, <2>5 DEF LiveOK
<1>8. RunsInv'
  <2>1. ASSUME NEW y \in Runs
        PROVE  RunOK(y)'
    <3>1. RunOK(y)
      BY <1>2 DEF RunsInv
    <3>2. loop[y] = "active" => run[y].status = "running"
      BY <3>1 DEF RunOK
    <3> QED
      BY <1>1, <1>3, <1>5, <1>6, <3>1, <3>2 DEF RunOK, Active
  <2> QED
    BY <1>1, <1>2, <2>1 DEF RunsInv
<1>9. \A y \in Runs : run'[y].status \in Active => run[y].status \in Active /\ run'[y].routine = run[y].routine
  BY <1>6 DEF Active
<1>10. \A y \in Live : run'[y].routine = run[y].routine
  BY <1>6 DEF Live
<1> QED
  BY <1>1, <1>7, <1>8, <1>9, <1>10, AtRestCore

\* The rows go: what is live has been told, and keeps a row that no policy counts.
LEMMA DeletedCore ==
  ASSUME TypeOK, CoreInv, NEW r \in Routines, Deleted(r)
  PROVE  CoreInv' /\ Mute
<1> USE DEF rowVars, fireVars, liveVars, procVars, sessVars, histVars
<1>1. /\ todo = <<>> /\ up /\ UNCHANGED <<todo, pc, home, armed, up, loop, stop>> /\ deleting' = deleting \ {r} /\ r \in deleting
      /\ exists' = [exists EXCEPT ![r] = FALSE] /\ ~CancelAwaited(r)
      /\ \A x \in Runs : run'[x] = IF run[x].routine # r THEN run[x]
                                   ELSE [Empty EXCEPT !.status = "deleted", !.routine = IF x \in Live THEN r ELSE @]
  BY DEF Deleted, Idle
<1>2. QueueInv /\ RunsInv /\ LiveInv
  BY DEF CoreInv
<1>3. (\A op, y : ~Now(op, y)) /\ \A y : ~Closes(y) /\ ~Ending(y)
  BY <1>1, <1>2, AtRest
<1>4. (\A op, y : ~Now(op, y)') /\ \A y : ~Closes(y)' /\ ~Ending(y)'
  BY <1>1, EmptyQueue
<1>5. Live' = Live
  BY <1>1 DEF Live
<1>6. ASSUME NEW y \in Runs
      PROVE  /\ run[y].routine # r => run'[y] = run[y]
             /\ run[y].routine = r => /\ run'[y].status = "deleted" /\ run'[y].loop = FALSE
                                      /\ run'[y].routine = IF y \in Live THEN r ELSE "none"
  BY <1>1 DEF Empty
<1>7. \A q \in Routines : q # r => exists'[q] = exists[q]
  BY <1>1 DEF TypeOK
<1>8. ASSUME NEW y \in Live
      PROVE  LiveOK(y)'
  <2>1. LiveOK(y) /\ y \in Runs
    BY <1>2 DEF LiveInv, Live
  <2>2. ~Works1(y) /\ ~Works1(y)'
    BY <1>3, <1>4 DEF Works1
  <2>3. CASE run[y].routine # r
    BY <1>1, <1>3, <1>4, <1>6, <2>1, <2>2, <2>3 DEF LiveOK
  <2>4. CASE run[y].routine = r
    <3>1. stop[y] # "no" /\ loop[y] = "none"
      BY <1>1, <1>3, <2>1, <2>4 DEF LiveOK
    <3>2. run'[y].status = "deleted" /\ run'[y].loop = FALSE /\ run'[y].routine = r
      BY <1>6, <2>1, <2>4
    <3> QED
      BY <1>1, <1>3, <1>4, <2>1, <2>2, <2>4, <3>1, <3>2 DEF LiveOK
  <2> QED
    BY <2>3, <2>4
<1>9. RunsInv'
  <2>1. ASSUME NEW y \in Runs
        PROVE  RunOK(y)'
    <3>1. RunOK(y)
      BY <1>2 DEF RunsInv
    <3>2. CASE run[y].routine # r
      <4>1. run'[y] = run[y] /\ UNCHANGED <<loop, up>> /\ deleting' \subseteq deleting /\ Live' = Live
        BY <1>1, <1>5, <1>6, <3>2
      <4>2. run[y].routine \in Routines => exists'[run[y].routine] = exists[run[y].routine]
        BY <1>7, <3>2
      <4> QED
        BY <1>3, <1>4, <3>1, <4>1, <4>2 DEF RunOK
    <3>3. CASE run[y].routine = r
      <4>1. loop[y] # "active"
        <5>1. ASSUME loop[y] = "active"
              PROVE  FALSE
          <6>1. run[y].status = "running" /\ run[y].loop
            BY <1>1, <1>3, <3>1, <5>1 DEF RunOK
          <6> QED
            BY <1>1, <3>3, <5>1, <6>1 DEF CancelAwaited, ActiveRuns, Active
        <5> QED
          BY <5>1
      <4>2. run'[y].status = "deleted" /\ run'[y].loop = FALSE
        BY <1>6, <3>3
      <4> QED
        <5>1. loop'[y] = loop[y]
          BY <1>1
        <5> QED
          BY <5>1, <4>1, <4>2 DEF RunOK, Active
    <3> QED
      BY <3>2, <3>3
  <2>2. \A q \in deleting' : exists'[q]
    BY <1>1, <1>2, <1>7 DEF RunsInv, TypeOK
  <2> QED
    BY <2>1, <2>2 DEF RunsInv
<1>10. \A y \in Runs : run'[y].status \in Active => run[y].status \in Active /\ run'[y].routine = run[y].routine
  BY <1>6 DEF Active
<1>11. \A y \in Live : run'[y].routine = run[y].routine
  BY <1>6 DEF Live
<1> QED
  BY <1>1, <1>8, <1>9, <1>10, <1>11, AtRestCore

\* The process dies: nothing is live, and open rows wait for the next start.
LEMMA ExitCore ==
  ASSUME TypeOK, CoreInv, Exit
  PROVE  CoreInv' /\ ~AsksIn(todo') /\ Live' = {}
<1> USE DEF rowVars, fireVars, liveVars, procVars, sessVars, histVars
<1>1. ~up' /\ todo' = <<>> /\ deleting' = {} /\ armed' = {} /\ UNCHANGED <<run, loop, exists>> /\ \A x \in Runs : pc'[x] = "off"
  BY DEF Exit
<1>2. QueueInv /\ RunsInv /\ OverlapInv
  BY DEF CoreInv
<1>3. Live' = {}
  BY <1>1 DEF Live
<1>4. QueueInv' /\ ~AsksIn(todo')
  BY <1>1, EmptyQueue
<1>5. RunsInv'
  BY <1>1, <1>2 DEF RunsInv, RunOK
<1>6. OverlapInv'
  BY <1>1, <1>2, SameActive
<1> QED
  BY <1>1, <1>3, <1>4, <1>5, <1>6 DEF CoreInv, LiveInv, Alone, ArmedInv

\* The next start links the loops in progress, then closes what was under way.
LEMMA BootCore ==
  ASSUME TypeOK, CoreInv, DownInv, Boot
  PROVE  /\ CoreInv' /\ Mute
         /\ \A x \in Runs : run'[x].status = "none" <=> run[x].status = "none"
<1> USE DEF rowVars, fireVars, liveVars, procVars, sessVars, histVars
<1>1. /\ ~up /\ up' /\ UNCHANGED <<todo, loop, pc, home, deleting, armed, exists>>
      /\ \A x \in Runs : run'[x] = IF run[x].status \in {"none", "deleted"} THEN run[x]
                 ELSE IF Relinked(x) THEN [run[x] EXCEPT !.status = "running", !.loop = TRUE]
                 ELSE IF run[x].status \in Interrupted /\ ~run[x].loop THEN Closed(x)
                 ELSE run[x]
  BY DEF Boot
<1>2. QueueInv /\ RunsInv /\ OverlapInv /\ ArmedInv /\ todo = <<>> /\ Live = {} /\ deleting = {} /\ armed = {}
  BY <1>1 DEF CoreInv, DownInv
<1>3. Live' = {}
  BY <1>1, <1>2 DEF Live
<1>4. QueueInv' /\ ~AsksIn(todo') /\ ~AsksIn(todo)
  BY <1>1, <1>2, EmptyQueue, Empties
<1>5. ASSUME NEW x \in Runs
      PROVE  /\ run'[x].routine = run[x].routine
             /\ run'[x].status = IF run[x].status \in {"none", "deleted"} THEN run[x].status
                                 ELSE IF Relinked(x) THEN "running"
                                 ELSE IF run[x].status \in Interrupted /\ ~run[x].loop THEN "interrupted" ELSE run[x].status
             /\ run'[x].loop = IF run[x].status \notin {"none", "deleted"} /\ Relinked(x) THEN TRUE ELSE run[x].loop
  <2> DEFINE R == [status : Active \cup Ended \cup {"none", "deleted"}, routine : Routines \cup {"none"}, manual : BOOLEAN, loop : BOOLEAN]
  <2>1. run[x] \in R
    BY DEF TypeOK
  <2>2. /\ Row(x, "interrupted").routine = run[x].routine /\ Row(x, "interrupted").loop = run[x].loop
        /\ Row(x, "interrupted").status = IF run[x].status = "deleted" THEN "deleted" ELSE "interrupted"
    BY RowType
  <2>3. CASE run[x].status \in {"none", "deleted"}
    BY <1>1, <2>3
  <2>4. CASE run[x].status \notin {"none", "deleted"} /\ Relinked(x)
    <3>1. run'[x] = [run[x] EXCEPT !.status = "running", !.loop = TRUE]
      BY <1>1, <2>4
    <3>2. run'[x].routine = run[x].routine /\ run'[x].status = "running" /\ run'[x].loop = TRUE
      BY <2>1, <3>1
    <3> QED
      BY <2>4, <3>2
  <2>5. CASE run[x].status \notin {"none", "deleted"} /\ ~Relinked(x)
    <3>1. run'[x] = IF run[x].status \in Interrupted /\ ~run[x].loop THEN Row(x, "interrupted") ELSE run[x]
      BY <1>1, <2>5 DEF Closed
    <3> QED
      BY <2>2, <2>5, <3>1
  <2> QED
    BY <2>3, <2>4, <2>5
<1>6. ASSUME NEW x \in Runs, run[x].status \notin {"none", "deleted"}, Relinked(x)
      PROVE  run[x].status = "running" /\ run[x].routine \in Looped
  BY <1>2, <1>6 DEF Relinked, RunsInv, RunOK
<1>7. ASSUME NEW x \in Runs
      PROVE  RunOK(x)'
  <2>1. RunOK(x)
    BY <1>2 DEF RunsInv
  <2>2. CASE run[x].status \notin {"none", "deleted"} /\ Relinked(x)
    <3>1. run'[x].status = "running" /\ run'[x].loop /\ run'[x].routine \in Looped /\ run'[x].routine = run[x].routine /\ run[x].status \in Active
      BY <1>5, <1>6, <2>2 DEF Active
    <3> QED
      BY <1>1, <2>1, <3>1 DEF RunOK, Active
  <2>3. CASE run[x].status \in {"none", "deleted"}
    <3>1. run'[x].status = run[x].status /\ run'[x].loop = run[x].loop /\ run'[x].routine = run[x].routine /\ loop[x] # "active"
      BY <1>5, <2>1, <2>3 DEF RunOK
    <3> QED
      BY <1>1, <2>1, <2>3, <3>1 DEF RunOK, Active
  <2>4. CASE run[x].status \notin {"none", "deleted"} /\ ~Relinked(x)
    <3>1. loop[x] = "active" => run[x].loop /\ run[x].status = "running"
      BY <2>1, <2>4 DEF RunOK, Relinked, Active
    <3>2. run'[x].loop = run[x].loop /\ run'[x].routine = run[x].routine
          /\ run'[x].status = IF run[x].status \in {"checking", "running"} /\ ~run[x].loop THEN "interrupted" ELSE run[x].status
      BY <1>5, <2>4 DEF Interrupted
    <3> QED
      BY <1>1, <2>1, <2>4, <3>1, <3>2 DEF RunOK, Active
  <2> QED
    BY <2>2, <2>3, <2>4
<1>8. OverlapInv'
  <2>1. \A y \in Runs : run'[y].routine = run[y].routine /\ (run'[y].status \in Active => run[y].status \in Active)
    BY <1>5, <1>6 DEF Active
  <2> QED
    BY <1>2, <2>1, SameActive
<1>9. \A x \in Runs : run'[x].status = "none" <=> run[x].status = "none"
  BY <1>5
<1> QED
  BY <1>1, <1>2, <1>3, <1>4, <1>7, <1>8, <1>9 DEF CoreInv, LiveInv, Alone, ArmedInv, RunsInv, Mute
-----------------------------------------------------------------------------
(* Types.                                                                      *)

RunType == [status : Active \cup Ended \cup {"none", "deleted"},
            routine : Routines \cup {"none"}, manual : BOOLEAN, loop : BOOLEAN]

LEMMA TypeOwner ==
  ASSUME TypeOK, NEW r \in Routines, FallsDue(r) \/ Pause(r) \/ Resume(r)
  PROVE  TypeOK'
<1> USE DEF TypeOK, rowVars, fireVars, liveVars, procVars, sessVars, histVars
<1>1. CASE FallsDue(r)
  BY <1>1 DEF FallsDue
<1>2. CASE Pause(r)
  BY <1>2 DEF Pause
<1>3. CASE Resume(r)
  BY <1>3 DEF Resume
<1> QED
  BY <1>1, <1>2, <1>3

LEMMA TypeTalks ==
  ASSUME TypeOK, NEW x \in Runs, AgentTurns(x) \/ OwnerTalks(x) \/ OwnerDone(x)
  PROVE  TypeOK'
<1> USE DEF TypeOK, rowVars, fireVars, liveVars, procVars, sessVars, histVars
<1>1. CASE AgentTurns(x)
  <2>1. turn' \in [Runs -> {"none", "gone", "idle", "run", "owner", "parked"}]
    <3>1. PICK t \in {"idle", "parked", "gone"} : turn' = [turn EXCEPT ![x] = t]
      BY <1>1 DEF AgentTurns
    <3> QED
      BY <3>1
  <2>2. armed' \subseteq Runs
    BY <1>1 DEF AgentTurns
  <2> QED
    BY <1>1, <2>1, <2>2 DEF AgentTurns
<1>2. CASE OwnerTalks(x)
  <2>1. asks' \in 0 .. MaxAsks
    BY <1>2, Facts DEF OwnerTalks
  <2>2. turn' \in [Runs -> {"none", "gone", "idle", "run", "owner", "parked"}]
    BY <1>2 DEF OwnerTalks
  <2> QED
    BY <1>2, <2>1, <2>2 DEF OwnerTalks
<1>3. CASE OwnerDone(x)
  BY <1>3 DEF OwnerDone
<1> QED
  BY <1>1, <1>2, <1>3

LEMMA TypeFire ==
  ASSUME TypeOK, NEW r \in Routines, NEW manual \in BOOLEAN, Fire(r, manual)
  PROVE  TypeOK'
<1> USE DEF TypeOK, rowVars, fireVars, liveVars, procVars, sessVars, histVars
<1>1. asks' \in 0 .. MaxAsks
  BY Facts DEF Fire
<1>2. <<"admit", r, 0, manual>> \in Frames
  <2>1. 0 \in 0 .. MaxDue
    BY Facts
  <2> QED
    BY <2>1, FrameIn, Zenon
<1>3. todo' \in Seq(Frames)
  BY <1>2 DEF Fire
<1>4. UNCHANGED <<enabled, streak, exists, kept, due, claimed, rows, run, loop, pc, stop, ends, home,
                  deleting, stopped, up, boots, mix, turn, armed>>
  BY DEF Fire
<1> QED
  BY <1>1, <1>3, <1>4

LEMMA TypeSent ==
  ASSUME TypeOK, NEW x \in Runs, Sent(x) \/ StartsWindDown(x)
  PROVE  TypeOK'
<1> USE DEF TypeOK, rowVars, fireVars, liveVars, procVars, sessVars, histVars
<1>1. CASE Sent(x)
  <2>1. turn' \in [Runs -> {"none", "gone", "idle", "run", "owner", "parked"}]
    BY <1>1 DEF Sent
  <2> QED
    BY <1>1, <2>1 DEF Sent
<1>2. CASE StartsWindDown(x)
  <2>1. ends' \in [Runs -> Results \cup {"none"}]
    BY <1>2 DEF StartsWindDown, StoppedAs, Results
  <2> QED
    BY <1>2, <2>1 DEF StartsWindDown
<1> QED
  BY <1>1, <1>2

LEMMA TypeTick ==
  ASSUME TypeOK, QueueInv, Tick \/ ListDue
  PROVE  TypeOK'
<1> USE DEF TypeOK, rowVars, fireVars, liveVars, procVars, sessVars, histVars
<1>1. todo' \in Seq(Frames)
  BY TickQueue, ListQueue DEF Goes
<1>2. CASE Tick
  BY <1>1, <1>2 DEF Tick
<1>3. CASE ListDue
  BY <1>1, <1>3 DEF ListDue
<1> QED
  BY <1>2, <1>3

LEMMA TypeBoot ==
  ASSUME TypeOK, DownInv, Boot
  PROVE  TypeOK'
<1> USE DEF rowVars, fireVars, liveVars, procVars, sessVars, histVars
<1>1. boots + 1 \in 1 .. MaxBoots
  <2>1. boots \in 1 .. MaxBoots /\ boots < MaxBoots /\ MaxBoots \in Nat
    BY Facts DEF TypeOK, DownInv, Boot
  <2> QED
    BY <2>1
<1>2. ASSUME NEW x \in Runs
      PROVE  /\ Row(x, "interrupted") \in RunType
             /\ run[x] \in RunType /\ [run[x] EXCEPT !.status = "running", !.loop = TRUE] \in RunType
  <2>1. run[x] \in RunType
    BY DEF RunType, TypeOK
  <2>2. Row(x, "interrupted") \in RunType
    BY RowType DEF RunType
  <2> QED
    BY <2>1, <2>2 DEF RunType, Active
<1>3. run' \in [Runs -> RunType]
  <2>1. run' = [x \in Runs |->
                 IF run[x].status \in {"none", "deleted"} THEN run[x]
                 ELSE IF Relinked(x) THEN [run[x] EXCEPT !.status = "running", !.loop = TRUE]
                 ELSE IF run[x].status \in Interrupted /\ ~run[x].loop THEN Row(x, "interrupted")
                 ELSE run[x]]
    BY DEF Boot, Closed
  <2> HIDE DEF RunType
  <2> QED
    BY <1>2, <2>1, Zenon
<1>4. /\ up' = TRUE /\ boots' = boots + 1
      /\ UNCHANGED <<enabled, streak, exists, kept, due, claimed, rows, loop, pc, stop, ends, home,
                     deleting, stopped, mix, todo, turn, armed, asks>>
  BY DEF Boot
<1> QED
  BY <1>1, <1>3, <1>4 DEF TypeOK, RunType

LEMMA TypeExit ==
  ASSUME TypeOK, Exit
  PROVE  TypeOK'
<1> USE DEF TypeOK, rowVars, fireVars, liveVars, procVars, sessVars, histVars
<1>1. turn' \in [Runs -> {"none", "gone", "idle", "run", "owner", "parked"}]
  BY DEF Exit
<1>2. todo' \in Seq(Frames)
  BY Empties DEF Exit
<1>3. pc' \in [Runs -> {"off", "begin", "check", "create", "send", "wait", "windDown"}]
      /\ stop' \in [Runs -> {"no", "cancelled", "interrupted"}]
      /\ ends' \in [Runs -> Results \cup {"none"}] /\ home' \in [Runs -> Runs \cup {NoRun}]
  BY DEF Exit
<1> QED
  BY <1>1, <1>2, <1>3 DEF Exit

LEMMA TypeStop ==
  ASSUME TypeOK, StopDaemon
  PROVE  TypeOK'
<1> USE DEF TypeOK, rowVars, fireVars, liveVars, procVars, sessVars, histVars
<1>1. stop' \in [Runs -> {"no", "cancelled", "interrupted"}]
  BY DEF StopDaemon
<1> QED
  BY <1>1 DEF StopDaemon

LEMMA TypeFinish ==
  ASSUME TypeOK, NEW x \in Runs, NEW result, Finish(x, result), todo' \in Seq(Frames),
         UNCHANGED <<rowVars, fireVars, liveVars, procVars, histVars>>,
         loop' = loop \/ loop' = [loop EXCEPT ![x] = "over"],
         turn' \in [Runs -> {"none", "gone", "idle", "run", "owner", "parked"}]
  PROVE  TypeOK'
<1> USE DEF rowVars, fireVars, liveVars, procVars, sessVars, histVars
<1>1. run' \in [Runs -> RunType]
  <2>1. Row(x, result) \in RunType
    BY RowType DEF RunType
  <2>2. run \in [Runs -> RunType]
    BY DEF TypeOK, RunType
  <2>3. run' = [run EXCEPT ![x] = Row(x, result)]
    BY DEF Finish
  <2> HIDE DEF RunType
  <2> QED
    BY <2>1, <2>2, <2>3
<1>2. armed' \subseteq Runs
  BY DEF Finish, TypeOK
<1>3. loop' \in [Runs -> {"none", "active", "over"} \cup LoopEnds]
  BY DEF TypeOK
<1> QED
  BY <1>1, <1>2, <1>3 DEF TypeOK, RunType

\* The same for a row that ends by itself.
LEMMA TypeRow ==
  ASSUME TypeOK, NEW x \in Runs, NEW result, run' = [run EXCEPT ![x] = Row(x, result)],
         UNCHANGED <<rowVars, fireVars, loop, pc, ends, home, procVars, todo, sessVars, histVars>>,
         stop' = stop
  PROVE  TypeOK'
<1> USE DEF rowVars, fireVars, liveVars, procVars, sessVars, histVars
<1>1. run' \in [Runs -> RunType]
  <2>1. Row(x, result) \in RunType
    BY RowType DEF RunType
  <2>2. run \in [Runs -> RunType]
    BY DEF TypeOK, RunType
  <2> HIDE DEF RunType
  <2> QED
    BY <2>1, <2>2
<1> QED
  BY <1>1 DEF TypeOK, RunType

LEMMA TypeEnds ==
  ASSUME TypeOK, NEW x \in Runs, Ends(x), QueueNext,
         \/ Finishing
         \/ CheckEnds(x) \/ CreateFails(x) \/ SendFails(x) \/ WaitEnds(x) \/ WoundDown(x)
         \/ Begin /\ UNCHANGED pc
         \/ LoopStart
         \/ PortStart /\ UNCHANGED loop
         \/ Work /\ UNCHANGED <<pc, home>>
  PROVE  TypeOK'
<1> USE DEF rowVars, fireVars, liveVars, procVars, sessVars, histVars
<1>1. PICK result : Finish(x, result)
  BY DEF Ends
<1>2. UNCHANGED <<rowVars, fireVars, liveVars, procVars, histVars>> /\ loop' = loop
  <2>1. UNCHANGED <<enabled, streak, exists, kept, due, claimed, rows, deleting, stopped, up, boots, mix, asks, stop, ends>>
    BY DEF Finishing, CheckEnds, CreateFails, SendFails, WaitEnds, WoundDown, Begin, LoopStart, PortStart, Work
  <2>2. UNCHANGED <<pc, home, loop>>
    BY DEF Ends
  <2> QED
    BY <2>1, <2>2
<1>3. turn' \in [Runs -> {"none", "gone", "idle", "run", "owner", "parked"}]
  <2>1. turn \in [Runs -> {"none", "gone", "idle", "run", "owner", "parked"}]
    BY DEF TypeOK
  <2>2. CASE WoundDown(x)
    BY <2>1, <2>2 DEF WoundDown
  <2>3. CASE ~WoundDown(x)
    <3>1. turn' = turn
      BY <2>3 DEF Finishing, CheckEnds, CreateFails, SendFails, WaitEnds, Begin, LoopStart, PortStart, Work
    <3> QED
      BY <2>1, <3>1
  <2> QED
    BY <2>2, <2>3
<1>4. todo' \in Seq(Frames)
  BY DEF QueueNext
<1> QED
  BY <1>1, <1>2, <1>3, <1>4, TypeFinish

LEMMA TypeStatus ==
  ASSUME TypeOK, NEW x \in Runs, NEW v \in Active, run' = [run EXCEPT ![x].status = v]
  PROVE  run' \in [Runs -> RunType]
<1>1. run \in [Runs -> RunType]
  BY DEF TypeOK, RunType
<1>2. run[x] \in RunType /\ [run[x] EXCEPT !.status = v] \in RunType
  BY <1>1 DEF RunType, Active
<1>3. run' = [run EXCEPT ![x] = [run[x] EXCEPT !.status = v]]
  OBVIOUS
<1> HIDE DEF RunType
<1> QED
  BY <1>1, <1>2, <1>3

\* The statements of a run's execution, ends aside.
LEMMA TypeWork ==
  ASSUME TypeOK, CoreInv, todo' \in Seq(Frames),
         \/ Begin /\ (UNCHANGED run \/ run' = [run EXCEPT ![Arg].status = "checking"]) /\ UNCHANGED armed
                  /\ (pc' = pc \/ pc' = [pc EXCEPT ![Arg] = "check"])
         \/ LoopStart /\ run' = [run EXCEPT ![Arg].status = "running"] /\ UNCHANGED armed
         \/ PortStart /\ loop' = [loop EXCEPT ![Arg] = "active"] /\ UNCHANGED <<run, armed>>
  PROVE  TypeOK'
<1> USE DEF rowVars, fireVars, liveVars, procVars, sessVars, histVars
<1>1. Arg \in Runs
  BY AtWork DEF CoreInv, Begin, LoopStart, PortStart, Exec
<1>2. run' \in [Runs -> RunType]
  <2>1. run \in [Runs -> RunType]
    BY DEF TypeOK, RunType
  <2>2. UNCHANGED run \/ \E v \in Active : run' = [run EXCEPT ![Arg].status = v]
    BY DEF Active
  <2> QED
    BY <1>1, <2>1, <2>2, TypeStatus
<1>3. pc' \in [Runs -> {"off", "begin", "check", "create", "send", "wait", "windDown"}]
  <2>1. pc' = pc \/ pc' = [pc EXCEPT ![Arg] = "check"]
    BY DEF LoopStart, PortStart
  <2> QED
    BY <1>1, <2>1 DEF TypeOK
<1>4. loop' \in [Runs -> {"none", "active", "over"} \cup LoopEnds]
  <2>1. loop' = loop \/ loop' = [loop EXCEPT ![Arg] = "active"]
    BY DEF LoopStart, Begin
  <2> QED
    BY <1>1, <2>1 DEF TypeOK
<1>5. UNCHANGED <<enabled, streak, exists, kept, due, claimed, rows, deleting, stopped, up, boots, mix, asks, stop, ends, home, turn, armed>>
  BY DEF Begin, LoopStart, PortStart
<1> QED
  BY <1>2, <1>3, <1>4, <1>5 DEF TypeOK, RunType

LEMMA FrontSeq ==
  ASSUME TypeOK, todo # <<>>
  PROVE  /\ Tail(todo) \in Seq(Frames) /\ todo \in Seq(Frames)
         /\ Front(<<>>) => todo' \in Seq(Frames)
         /\ \A f \in Frames : Front(<<f>>) \/ todo' = <<f>> \o todo => todo' \in Seq(Frames)
<1>1. Tail(todo) \in Seq(Frames) /\ todo \in Seq(Frames)
  BY Head1 DEF TypeOK
<1>2. Front(<<>>) => todo' \in Seq(Frames)
  BY <1>1, Empties, Joined DEF Front
<1>3. ASSUME NEW f \in Frames, Front(<<f>>) \/ todo' = <<f>> \o todo
      PROVE  todo' \in Seq(Frames)
  <2>1. <<f>> \in Seq(Frames)
    BY Single
  <2>2. <<f>> \o Tail(todo) \in Seq(Frames) /\ <<f>> \o todo \in Seq(Frames)
    BY <1>1, <2>1, Joined
  <2> QED
    BY <1>3, <2>2 DEF Front
<1> QED
  BY <1>1, <1>2, <1>3

LEMMA TypeWorks ==
  ASSUME TypeOK, CoreInv, Work, ~\E status : Finish(Arg, status) /\ UNCHANGED <<pc, home>> /\ todo' = Tail(todo) \o Closing(Arg)
  PROVE  TypeOK'
<1> USE DEF rowVars, fireVars, liveVars, procVars, sessVars, histVars
<1>1. Arg \in Runs /\ todo # <<>> /\ run[Arg].routine \in Routines
  BY AtWorks DEF Work, Works, Exec
<1>2. PICK x \in Runs : x = Arg
  BY <1>1
<1>3. kept[run[x].routine] \in Runs \cup {NoRun}
  BY <1>1, <1>2 DEF TypeOK
<1>4. \/ Front(<<<<"loopStart", x>>>>) /\ UNCHANGED <<run, pc, home, armed>>
      \/ /\ kept[run[x].routine] # NoRun
         /\ \E s \in Runs : armed' = armed \cup {s} /\ home' = [home EXCEPT ![x] = s]
         /\ run' = [run EXCEPT ![x].status = "running"]
         /\ pc' = [pc EXCEPT ![x] = "send"] /\ Front(<<>>)
      \/ pc' = [pc EXCEPT ![x] = "create"] /\ Front(<<>>) /\ UNCHANGED <<run, home, armed>>
  BY <1>1, <1>2, <1>3 DEF Work, UseKept, Alive
<1>5. todo' \in Seq(Frames)
  BY <1>1, <1>4, FrontSeq, FrameIn
<1>6. run' \in [Runs -> RunType]
  <2>1. run \in [Runs -> RunType]
    BY DEF TypeOK, RunType
  <2>2. UNCHANGED run \/ run' = [run EXCEPT ![x].status = "running"]
    BY <1>4
  <2>3. "running" \in Active
    BY DEF Active
  <2> QED
    BY <2>1, <2>2, <2>3, TypeStatus
<1>7. armed' \subseteq Runs
  BY <1>4 DEF TypeOK
<1>8. home' \in [Runs -> Runs \cup {NoRun}]
  BY <1>4 DEF TypeOK
<1>9. pc' \in [Runs -> {"off", "begin", "check", "create", "send", "wait", "windDown"}]
  BY <1>4 DEF TypeOK
<1>10. UNCHANGED <<enabled, streak, exists, kept, due, claimed, rows, deleting, stopped, up, boots, mix, asks, stop, ends, turn, loop>>
  BY DEF Work
<1> QED
  BY <1>5, <1>6, <1>7, <1>8, <1>9, <1>10 DEF TypeOK, RunType

LEMMA TypeLoopRecord ==
  ASSUME TypeOK, CoreInv, LoopRecord
  PROVE  TypeOK'
<1> USE DEF rowVars, fireVars, liveVars, procVars, sessVars, histVars
<1>1. Arg \in Runs /\ todo # <<>>
  BY AtWorks DEF LoopRecord, Works, Exec
<1>2. PICK x \in Runs : x = Arg
  BY <1>1
<1>3. todo' \in Seq(Frames)
  BY <1>1, FrontSeq, ClosingParts, Joined DEF LoopRecord
<1>4. run' \in [Runs -> RunType]
  <2>1. run \in [Runs -> RunType]
    BY DEF TypeOK, RunType
  <2>2. run' = [run EXCEPT ![x] = [run[x] EXCEPT !.loop = TRUE, !.status = "running"]]
    BY <1>2 DEF LoopRecord
  <2>3. run[x] \in RunType /\ [run[x] EXCEPT !.loop = TRUE, !.status = "running"] \in RunType
    BY <2>1 DEF RunType, Active
  <2> HIDE DEF RunType
  <2> QED
    BY <2>1, <2>2, <2>3
<1>5. UNCHANGED <<enabled, streak, exists, kept, due, claimed, rows, deleting, stopped, up, boots, mix, asks, pc, stop, ends, home, turn, armed, loop>>
  BY DEF LoopRecord
<1> QED
  BY <1>3, <1>4, <1>5 DEF TypeOK, RunType

LEMMA TypeCreated ==
  ASSUME TypeOK, NEW x \in Runs, Created(x)
  PROVE  TypeOK'
<1> USE DEF rowVars, fireVars, liveVars, procVars, sessVars, histVars
<1>1. /\ UNCHANGED <<enabled, streak, exists, due, claimed, rows, deleting, stopped, up, boots, mix, asks, stop, ends, loop>>
      /\ turn' = [turn EXCEPT ![x] = "idle"] /\ armed' = armed \cup {x} /\ home' = [home EXCEPT ![x] = x]
      /\ kept' = kept \/ kept' = [kept EXCEPT ![run[x].routine] = x]
      /\ pc' = pc \/ pc' = [pc EXCEPT ![x] = "send"]
      /\ run' = run \/ run' = [run EXCEPT ![x].status = IF @ = "deleted" THEN @ ELSE "running"]
      /\ todo' = todo \/ \E result \in Results : todo' = <<<<"finish", x, result>>>> \o Closing(x)
  BY DEF Created, HasSession, StoppedAs, Results
<1>2. todo' \in Seq(Frames)
  <2>1. ASSUME NEW result \in Results
        PROVE  <<<<"finish", x, result>>>> \o Closing(x) \in Seq(Frames)
    <3>1. <<"finish", x, result>> \in Frames
      BY FrameIn, Zenon
    <3> QED
      BY <3>1, Single, ClosingParts, Joined
  <2>2. todo \in Seq(Frames)
    BY DEF TypeOK
  <2>3. todo' = todo \/ \E result \in Results : todo' = <<<<"finish", x, result>>>> \o Closing(x)
    BY <1>1
  <2> QED
    BY <2>1, <2>2, <2>3, Zenon
<1>3. run' \in [Runs -> RunType]
  <2>1. run \in [Runs -> RunType] /\ run[x] \in RunType
    BY DEF TypeOK, RunType
  <2>2. PICK v : v = IF run[x].status = "deleted" THEN "deleted" ELSE "running"
    OBVIOUS
  <2>3. run' = run \/ run' = [run EXCEPT ![x] = [run[x] EXCEPT !.status = v]]
    BY <1>1, <2>2
  <2>4. [run[x] EXCEPT !.status = v] \in RunType
    BY <2>1, <2>2 DEF RunType, Active
  <2> HIDE DEF RunType
  <2> QED
    BY <2>1, <2>3, <2>4
<1>4. turn' \in [Runs -> {"none", "gone", "idle", "run", "owner", "parked"}] /\ armed' \subseteq Runs
  <2>1. turn \in [Runs -> {"none", "gone", "idle", "run", "owner", "parked"}] /\ armed \subseteq Runs
    BY DEF TypeOK
  <2>2. turn' = [turn EXCEPT ![x] = "idle"] /\ armed' = armed \cup {x}
    BY <1>1
  <2> QED
    BY <2>1, <2>2
<1>5. kept' \in [Routines -> Runs \cup {NoRun}] /\ home' \in [Runs -> Runs \cup {NoRun}]
  <2>1. kept \in [Routines -> Runs \cup {NoRun}] /\ home \in [Runs -> Runs \cup {NoRun}]
    BY DEF TypeOK
  <2>2. kept' = kept \/ kept' = [kept EXCEPT ![run[x].routine] = x]
    BY <1>1
  <2>3. home' = [home EXCEPT ![x] = x]
    BY <1>1
  <2>4. home' \in [Runs -> Runs \cup {NoRun}]
    BY <2>1, <2>3
  <2> QED
    BY <2>1, <2>2, <2>4
<1>6. pc' \in [Runs -> {"off", "begin", "check", "create", "send", "wait", "windDown"}]
  BY <1>1 DEF TypeOK
<1> QED
  BY <1>1, <1>2, <1>3, <1>4, <1>5, <1>6 DEF TypeOK, RunType

LEMMA TypeLives ==
  ASSUME TypeOK, CoreInv, DrainStarts \/ Forget
  PROVE  TypeOK'
<1> USE DEF rowVars, fireVars, liveVars, procVars, sessVars, histVars
<1>1. \E x \in Runs, p \in {"begin", "off"} :
         /\ pc' = [pc EXCEPT ![x] = p] /\ stop' = [stop EXCEPT ![x] = "no"]
         /\ home' = [home EXCEPT ![x] = NoRun] /\ ends' = [ends EXCEPT ![x] = "none"]
         /\ Front(<<>>) \/ todo' = <<<<"begin", x>>>> \o todo
  <2>1. CASE DrainStarts
    <3>1. Drains \subseteq Runs
      BY DEF Drains, Lapsed, Startable, Drainable
    <3>2. PICK x \in Runs : x = Min(Drains)
      BY <2>1, <3>1, MinRun DEF DrainStarts
    <3>3. /\ pc' = [pc EXCEPT ![x] = "begin"] /\ stop' = [stop EXCEPT ![x] = "no"]
          /\ home' = [home EXCEPT ![x] = NoRun] /\ ends' = [ends EXCEPT ![x] = "none"]
          /\ todo' = <<<<"begin", x>>>> \o todo
      BY <2>1, <3>2 DEF DrainStarts
    <3> WITNESS x \in Runs, "begin" \in {"begin", "off"}
    <3> QED
      BY <3>3
  <2>2. CASE Forget
    <3>1. PICK f \in Frames : f = Head(todo) /\ f[1] = "forget"
      BY <2>2, Head1 DEF Forget, Doing
    <3>2. PICK x \in Runs : x = Arg
      BY <3>1, FrameShape DEF Arg
    <3>3. /\ pc' = [pc EXCEPT ![x] = "off"] /\ stop' = [stop EXCEPT ![x] = "no"]
          /\ home' = [home EXCEPT ![x] = NoRun] /\ ends' = [ends EXCEPT ![x] = "none"]
          /\ Front(<<>>)
      BY <2>2, <3>2 DEF Forget, Forgotten
    <3> WITNESS x \in Runs, "off" \in {"begin", "off"}
    <3> QED
      BY <3>3
  <2> QED
    BY <2>1, <2>2
<1>2. todo # <<>>
  BY DEF DrainStarts, Forget, Doing
<1>3. todo' \in Seq(Frames)
  BY <1>1, <1>2, FrontSeq, FrameIn
<1>4. /\ pc' \in [Runs -> {"off", "begin", "check", "create", "send", "wait", "windDown"}]
      /\ stop' \in [Runs -> {"no", "cancelled", "interrupted"}]
      /\ ends' \in [Runs -> Results \cup {"none"}] /\ home' \in [Runs -> Runs \cup {NoRun}]
  BY <1>1 DEF TypeOK
<1>5. UNCHANGED <<enabled, streak, exists, kept, due, claimed, rows, deleting, stopped, up, boots, mix, asks, turn, armed, loop, run>>
  BY DEF DrainStarts, Forget
<1> QED
  BY <1>3, <1>4, <1>5 DEF TypeOK

LEMMA TypeWrites ==
  ASSUME TypeOK, NEW r \in Routines, NEW k \in 0 .. MaxDue
  PROVE  Written(r, k) \in [Routines -> [1 .. MaxDue -> Nat]]
<1> DEFINE F == [1 .. MaxDue -> Nat]
<1>1. rows \in [Routines -> F] /\ rows[r] \in F
  BY DEF TypeOK
<1>2. CASE k = 0
  BY <1>1, <1>2 DEF Written
<1>3. CASE k # 0
  <2>1. k \in 1 .. MaxDue /\ rows[r][k] \in Nat
    BY <1>1, <1>3, Facts
  <2>2. [rows[r] EXCEPT ![k] = rows[r][k] + 1] \in F
    BY <1>1, <2>1
  <2>3. Written(r, k) = [rows EXCEPT ![r] = [rows[r] EXCEPT ![k] = rows[r][k] + 1]]
    <3>1. Written(r, k) = [rows EXCEPT ![r][k] = @ + 1]
      BY <1>3 DEF Written
    <3> QED
      BY <3>1
  <2>4. Written(r, k) \in [Routines -> F]
    <3> HIDE DEF F
    <3> QED
      BY <1>1, <2>2, <2>3
  <2> QED
    BY <2>4
<1> QED
  BY <1>2, <1>3

LEMMA TypeAdmits ==
  ASSUME TypeOK, Admit, todo # <<>>, Arg \in Routines, todo[1] \in Frames, todo[1][1] = "admit",
         NEW x \in Runs, run' = [run EXCEPT ![x] = [status |-> "queued", routine |-> Arg, manual |-> Head(todo)[4], loop |-> FALSE]],
         rows' = Written(Arg, Head(todo)[3]), Front(<<<<"drain", 0>>>>)
  PROVE  TypeOK'
<1> USE DEF rowVars, fireVars, liveVars, procVars, sessVars, histVars
<1>1. todo' \in Seq(Frames)
  BY FrontSeq, FrameIn
<1>2. Head(todo) = todo[1] /\ todo[1][3] \in 0 .. MaxDue /\ todo[1][4] \in BOOLEAN
  BY Head1, FrameShape
<1>3. rows' \in [Routines -> [1 .. MaxDue -> Nat]]
  BY <1>2, TypeWrites
<1>4. run' \in [Runs -> RunType]
  <2>1. run \in [Runs -> RunType]
    BY DEF TypeOK, RunType
  <2>2. PICK row : row = [status |-> "queued", routine |-> Arg, manual |-> Head(todo)[4], loop |-> FALSE]
    OBVIOUS
  <2>3. row \in RunType
    BY <1>2, <2>2 DEF RunType, Active
  <2>4. run' = [run EXCEPT ![x] = row]
    BY <2>2
  <2> HIDE DEF RunType
  <2> QED
    BY <2>1, <2>3, <2>4
<1>5. UNCHANGED <<rowVars, due, claimed, loop, liveVars, procVars, sessVars, histVars>>
  BY DEF Admit
<1> QED
  BY <1>1, <1>3, <1>4, <1>5 DEF TypeOK, RunType

LEMMA TypeDeclines ==
  ASSUME TypeOK, Admit, UNCHANGED <<rows, run>>, todo' \in Seq(Frames)
  PROVE  TypeOK'
<1> USE DEF rowVars, fireVars, liveVars, procVars, sessVars, histVars
<1>1. UNCHANGED <<rowVars, due, claimed, loop, liveVars, procVars, sessVars, histVars>>
  BY DEF Admit
<1> QED
  BY <1>1 DEF TypeOK

LEMMA TypeLoopEnded ==
  ASSUME TypeOK, CoreInv, NEW x \in Runs, NEW end \in LoopEnds, LoopEnded(x, end)
  PROVE  TypeOK'
<1> USE DEF rowVars, fireVars, liveVars, procVars, sessVars, histVars
<1>1. run[x].routine \in Routines
  BY DEF LoopEnded, CoreInv, RunsInv, RunOK, Active
<1>2. <<"follow", run[x].routine>> \in Frames
  BY <1>1, FrameIn, Zenon
<1>3. todo' \in Seq(Frames)
  BY <1>2, Empties, Single DEF LoopEnded
<1>4. loop' \in [Runs -> {"none", "active", "over"} \cup LoopEnds]
  BY DEF LoopEnded, TypeOK
<1>5. UNCHANGED <<rowVars, fireVars, run, liveVars, procVars, sessVars, histVars>>
  BY DEF LoopEnded
<1> QED
  BY <1>3, <1>4, <1>5 DEF TypeOK

LEMMA TypeRows ==
  ASSUME TypeOK, NEW x \in Runs, (DrainSkips /\ x = Min(Drains)) \/ CancelRun(x)
  PROVE  TypeOK'
<1> USE DEF rowVars, fireVars, liveVars, procVars, sessVars, histVars
<1>1. CASE DrainSkips /\ x = Min(Drains)
  <2>1. /\ run' = [run EXCEPT ![x] = Row(x, "skipped")] /\ stop' = stop
        /\ UNCHANGED <<rowVars, fireVars, loop, pc, ends, home, procVars, todo, sessVars, histVars>>
    BY <1>1 DEF DrainSkips
  <2> QED
    BY <2>1, TypeRow
<1>2. CASE CancelRun(x) /\ UNCHANGED stop /\ run' = [run EXCEPT ![x] = Row(x, "cancelled")]
  <2>1. UNCHANGED <<rowVars, fireVars, loop, pc, ends, home, procVars, todo, sessVars, histVars>>
    BY <1>2 DEF CancelRun
  <2> QED
    BY <1>2, <2>1, TypeRow
<1>3. CASE CancelRun(x) /\ stop' = [stop EXCEPT ![x] = "cancelled"] /\ UNCHANGED run
  <2>1. stop' \in [Runs -> {"no", "cancelled", "interrupted"}]
    BY <1>3 DEF TypeOK
  <2> QED
    BY <1>3, <2>1 DEF TypeOK, CancelRun
<1> QED
  BY <1>1, <1>2, <1>3 DEF CancelRun

LEMMA TypeDelete ==
  ASSUME TypeOK, NEW r \in Routines, Delete(r)
  PROVE  TypeOK'
<1> USE DEF rowVars, fireVars, liveVars, procVars, sessVars, histVars
<1>1. run' \in [Runs -> RunType]
  <2>1. \A x \in Runs : Row(x, "cancelled") \in RunType /\ run[x] \in RunType
    BY RowType DEF TypeOK, RunType
  <2>2. run' = [x \in Runs |-> IF run[x].routine = r /\ run[x].status = "queued" THEN Row(x, "cancelled") ELSE run[x]]
    BY DEF Delete
  <2> HIDE DEF RunType
  <2> QED
    BY <2>1, <2>2
<1>2. stop' \in [Runs -> {"no", "cancelled", "interrupted"}]
  BY DEF Delete, TypeOK
<1>3. deleting' \subseteq Routines
  BY DEF Delete, TypeOK
<1>4. UNCHANGED <<rowVars, fireVars, loop, pc, ends, home, stopped, up, boots, mix, todo, sessVars, histVars>>
  BY DEF Delete
<1> QED
  BY <1>1, <1>2, <1>3, <1>4 DEF TypeOK, RunType

LEMMA TypeDeleted ==
  ASSUME TypeOK, NEW r \in Routines, Deleted(r)
  PROVE  TypeOK'
<1> USE DEF rowVars, fireVars, liveVars, procVars, sessVars, histVars
<1>1. run' \in [Runs -> RunType]
  <2>1. run \in [Runs -> RunType]
    BY DEF TypeOK, RunType
  <2>2. ASSUME NEW x \in Runs
        PROVE  [Empty EXCEPT !.status = "deleted", !.routine = IF x \in Live THEN r ELSE @] \in RunType
    BY DEF RunType, Empty
  <2>3. run' = [x \in Runs |-> IF run[x].routine # r THEN run[x]
                  ELSE [Empty EXCEPT !.status = "deleted", !.routine = IF x \in Live THEN r ELSE @]]
    BY DEF Deleted
  <2> HIDE DEF RunType
  <2> QED
    BY <2>1, <2>2, <2>3
<1>2. exists' \in [Routines -> BOOLEAN] /\ enabled' \in [Routines -> BOOLEAN] /\ due' \in [Routines -> BOOLEAN]
  BY DEF Deleted, TypeOK
<1>3. streak' \in [Routines -> Nat] /\ kept' \in [Routines -> Runs \cup {NoRun}]
  BY DEF Deleted, TypeOK
<1>4. claimed' \in [Routines -> 0 .. MaxDue] /\ rows' \in [Routines -> [1 .. MaxDue -> Nat]]
  <2>1. 0 \in 0 .. MaxDue /\ [k \in 1 .. MaxDue |-> 0] \in [1 .. MaxDue -> Nat]
    BY Facts
  <2>2. claimed' = [claimed EXCEPT ![r] = 0] /\ rows' = [rows EXCEPT ![r] = [k \in 1 .. MaxDue |-> 0]]
    BY DEF Deleted
  <2> QED
    BY <2>1, <2>2 DEF TypeOK
<1>5. deleting' \subseteq Routines
  BY DEF Deleted, TypeOK
<1>6. UNCHANGED <<loop, liveVars, stopped, up, boots, mix, todo, sessVars, histVars>>
  BY DEF Deleted
<1> QED
  BY <1>1, <1>2, <1>3, <1>4, <1>5, <1>6 DEF TypeOK, RunType

LEMMA TypeClaim ==
  ASSUME TypeOK, CoreInv, DueInv, ClaimFire
  PROVE  TypeOK'
<1> USE DEF rowVars, fireVars, liveVars, procVars, sessVars, histVars
<1>1. /\ QueueInv /\ todo # <<>>
      /\ \/ Front(<<>>) /\ UNCHANGED <<due, claimed>>
         \/ MovesOn(Arg) /\ Arg \in Routines /\ claimed[Arg] + 1 \in 1 .. MaxDue
  BY Claims DEF CoreInv
<1>2. todo' \in Seq(Frames)
  BY <1>1, QuietClaim DEF QueueNext
<1>3. due' \in [Routines -> BOOLEAN]
  BY <1>1 DEF TypeOK, MovesOn
<1>4. claimed' \in [Routines -> 0 .. MaxDue]
  <2>1. claimed' = claimed \/ \E r \in Routines, c \in 0 .. MaxDue : claimed' = [claimed EXCEPT ![r] = c]
    BY <1>1 DEF MovesOn
  <2> QED
    BY <2>1 DEF TypeOK
<1>5. UNCHANGED <<rowVars, rows, run, loop, liveVars, procVars, sessVars, histVars>>
  BY DEF ClaimFire
<1> QED
  BY <1>2, <1>3, <1>4, <1>5 DEF TypeOK

LEMMA TypePops ==
  ASSUME TypeOK, QueueInv, QueueNext, RecordSkip \/ DrainEnds \/ AutoPause \/ RecordOutcome \/ (FollowLoops /\ Over(Arg) = {})
  PROVE  TypeOK'
<1> USE DEF rowVars, fireVars, liveVars, procVars, sessVars, histVars
<1>1. todo' \in Seq(Frames)
  BY DEF QueueNext
<1>2. CASE RecordSkip
  <2>1. Arg \in Routines /\ Head(todo)[3] \in 0 .. MaxDue
    BY <1>2, AtWork, FrameShape DEF RecordSkip
  <2>2. rows' \in [Routines -> [1 .. MaxDue -> Nat]]
    BY <1>2, <2>1, TypeWrites DEF RecordSkip
  <2> QED
    BY <1>1, <1>2, <2>2 DEF TypeOK, RecordSkip
<1>3. CASE DrainEnds
  BY <1>1, <1>3 DEF TypeOK, DrainEnds
<1>4. CASE AutoPause
  BY <1>1, <1>4 DEF TypeOK, AutoPause
<1>5. CASE RecordOutcome
  <2>1. streak' \in [Routines -> Nat]
    <3>1. streak \in [Routines -> Nat]
      BY DEF TypeOK
    <3>2. run[Arg].routine \in Routines
      BY <1>5, AtWork, FrameShape DEF RecordOutcome, QueueInv, Has
    <3>3. StreakAfter(run[Arg].routine, Head(todo)[3]) \in Nat
      BY <3>1, <3>2 DEF StreakAfter
    <3>4. streak' = streak \/ streak' = [streak EXCEPT ![run[Arg].routine] = StreakAfter(run[Arg].routine, Head(todo)[3])]
      BY <1>5 DEF RecordOutcome
    <3> QED
      BY <3>1, <3>3, <3>4
  <2>2. UNCHANGED <<enabled, exists, kept, fireVars, run, loop, liveVars, procVars, sessVars, histVars>>
    BY <1>5 DEF RecordOutcome
  <2> QED
    BY <1>1, <2>1, <2>2 DEF TypeOK
<1>6. CASE FollowLoops /\ Over(Arg) = {}
  <2>1. UNCHANGED <<rowVars, fireVars, liveVars, procVars, turn, histVars, run, armed, loop>>
    BY <1>6 DEF FollowLoops
  <2> QED
    BY <1>1, <2>1 DEF TypeOK
<1> QED
  BY <1>2, <1>3, <1>4, <1>5, <1>6

LEMMA TypeFollow ==
  ASSUME TypeOK, QueueInv, QueueNext, FollowLoops, Over(Arg) # {}
  PROVE  TypeOK'
<1> USE DEF rowVars, fireVars, liveVars, procVars, sessVars, histVars
<1>1. Over(Arg) \subseteq Runs
  BY DEF Over, Following
<1>2. Min(Over(Arg)) \in Runs
  BY <1>1, MinRun
<1>3. PICK x \in Runs : x = Min(Over(Arg))
  BY <1>2
<1>4. \E result : Finish(x, result)
  BY <1>3 DEF FollowLoops
<1>5. UNCHANGED <<rowVars, fireVars, liveVars, procVars, histVars>> /\ turn' = turn /\ loop' = [loop EXCEPT ![x] = "over"]
  BY <1>3 DEF FollowLoops
<1>6. turn' \in [Runs -> {"none", "gone", "idle", "run", "owner", "parked"}]
  BY <1>5 DEF TypeOK
<1>7. todo' \in Seq(Frames)
  BY DEF QueueNext
<1> QED
  BY <1>4, <1>5, <1>6, <1>7, TypeFinish

LEMMA TypeCheck ==
  ASSUME TypeOK, NEW x \in Runs, CheckEnds(x), todo' = <<<<"work", x>>>>, UNCHANGED <<run, armed>>
  PROVE  TypeOK'
<1> USE DEF rowVars, fireVars, liveVars, procVars, sessVars, histVars
<1>1. <<"work", x>> \in Frames
  BY FrameIn, Zenon
<1>2. todo' \in Seq(Frames)
  BY <1>1, Single
<1>3. UNCHANGED <<rowVars, fireVars, loop, liveVars, procVars, turn, histVars>>
  BY DEF CheckEnds
<1> QED
  BY <1>2, <1>3 DEF TypeOK

-----------------------------------------------------------------------------
(* The fires: which are on their way to a row, and the room kept for them.     *)

AskOf(s) == {s[i] : i \in {j \in 1 .. Len(s) : s[j][1] \in Asked}}
FrameOK(f) ==
    /\ f[1] = "admit" => exists[f[2]] /\ f[2] \notin deleting
    /\ f[3] # 0 => f[3] <= claimed[f[2]] /\ rows[f[2]][f[3]] = 0
DueOf == {q \in Routines : due[q]}
RowsOnce == \A r \in Routines : \A k \in 1 .. MaxDue : rows[r][k] <= 1 /\ (k > claimed[r] => rows[r][k] = 0)

\* The fires asked for, as a set of frames.
LEMMA AskMembers ==
  ASSUME NEW s
  PROVE  /\ \A f : f \in AskOf(s) <=> \E i \in 1 .. Len(s) : s[i][1] \in Asked /\ f = s[i]
         /\ AsksIn(s) <=> AskOf(s) # {}
         /\ \A f \in AskOf(s) : f[1] \in Asked
BY DEF AskOf, AsksIn

LEMMA AskJoin ==
  ASSUME NEW a \in Seq(Frames), NEW b \in Seq(Frames)
  PROVE  AskOf(a \o b) = AskOf(a) \cup AskOf(b)
<1> DEFINE s == a \o b
<1>1. Len(a) \in Nat /\ Len(b) \in Nat /\ s \in Seq(Frames) /\ Len(s) = Len(a) + Len(b)
  OBVIOUS
<1>2. \A i \in 1 .. Len(a) : i \in 1 .. Len(s) /\ s[i] = a[i]
  OBVIOUS
<1>3. \A i \in 1 .. Len(b) : Len(a) + i \in 1 .. Len(s) /\ s[Len(a) + i] = b[i]
  OBVIOUS
<1>4. \A i \in 1 .. Len(s) : i \in 1 .. Len(a) \/ (i - Len(a) \in 1 .. Len(b) /\ i = Len(a) + (i - Len(a)))
  BY <1>1
<1> HIDE DEF s
<1>5. ASSUME NEW f \in AskOf(s)
      PROVE  f \in AskOf(a) \cup AskOf(b)
  <2>1. PICK i \in 1 .. Len(s) : s[i][1] \in Asked /\ f = s[i]
    BY <1>5, AskMembers
  <2>2. CASE i \in 1 .. Len(a)
    BY <2>1, <2>2, <1>2, AskMembers
  <2>3. CASE i \notin 1 .. Len(a)
    <3>1. i - Len(a) \in 1 .. Len(b) /\ s[i] = b[i - Len(a)]
      BY <2>1, <2>3, <1>3, <1>4
    <3> QED
      BY <2>1, <3>1, AskMembers
  <2> QED
    BY <2>2, <2>3
<1>6. AskOf(a) \subseteq AskOf(s)
  <2>1. ASSUME NEW f \in AskOf(a)
        PROVE  f \in AskOf(s)
    <3>1. PICK i \in 1 .. Len(a) : a[i][1] \in Asked /\ f = a[i]
      BY <2>1, AskMembers
    <3>2. i \in 1 .. Len(s) /\ s[i] = a[i]
      BY <1>2, <3>1
    <3> QED
      BY <3>1, <3>2, AskMembers
  <2> QED
    BY <2>1
<1>7. AskOf(b) \subseteq AskOf(s)
  <2>1. ASSUME NEW f \in AskOf(b)
        PROVE  f \in AskOf(s)
    <3>1. PICK i \in 1 .. Len(b) : b[i][1] \in Asked /\ f = b[i]
      BY <2>1, AskMembers
    <3>2. Len(a) + i \in 1 .. Len(s) /\ s[Len(a) + i] = b[i]
      BY <1>3, <3>1
    <3> QED
      BY <3>1, <3>2, AskMembers
  <2> QED
    BY <2>1
<1> QED
  BY <1>5, <1>6, <1>7 DEF s

LEMMA AskOne ==
  ASSUME NEW f \in Frames
  PROVE  AskOf(<<f>>) = IF f[1] \in Asked THEN {f} ELSE {}
<1> DEFINE s == <<f>>
<1>1. s \in Seq(Frames) /\ Len(s) = 1 /\ s[1] = f /\ 1 .. Len(s) = {1}
  OBVIOUS
<1> HIDE DEF s
<1>2. AskOf(s) = IF f[1] \in Asked THEN {f} ELSE {}
  BY <1>1 DEF AskOf
<1> QED
  BY <1>2 DEF s

LEMMA AskNone ==
  ASSUME NEW s, ~AsksIn(s)
  PROVE  AskOf(s) = {}
BY AskMembers

\* The queue without its head, and with something put before it.
LEMMA AskHead ==
  ASSUME TypeOK, todo # <<>>
  PROVE  AskOf(todo) = AskOf(Tail(todo)) \cup (IF todo[1][1] \in Asked THEN {todo[1]} ELSE {})
<1>1. todo[1] \in Frames /\ Tail(todo) \in Seq(Frames)
  BY Head1
<1>2. todo = <<todo[1]>> \o Tail(todo)
  <2>1. todo \in Seq(Frames)
    BY DEF TypeOK
  <2> QED
    BY <2>1
<1>3. <<todo[1]>> \in Seq(Frames)
  BY <1>1
<1>4. PICK h : h = <<todo[1]>> /\ h \in Seq(Frames)
  BY <1>3
<1>5. AskOf(h \o Tail(todo)) = AskOf(h) \cup AskOf(Tail(todo))
  BY <1>1, <1>4, AskJoin
<1>6. AskOf(h) = IF todo[1][1] \in Asked THEN {todo[1]} ELSE {}
  BY <1>1, <1>4, AskOne
<1> QED
  BY <1>2, <1>4, <1>5, <1>6

\* A fire is asked for only when nothing but light work is before it: there is one.
LEMMA OneAsked ==
  ASSUME QueueInv, NEW f \in AskOf(todo), NEW g \in AskOf(todo)
  PROVE  f = g
<1>1. PICK i \in 1 .. Len(todo) : todo[i][1] \in Asked /\ f = todo[i]
  BY AskMembers
<1>2. PICK j \in 1 .. Len(todo) : todo[j][1] \in Asked /\ g = todo[j]
  BY AskMembers
<1>3. Asked \cap Light = {}
  BY DEF Asked, Light
<1>4. ~(i < j)
  BY <1>1, <1>2, <1>3 DEF QueueInv, Ordered
<1>5. ~(j < i)
  BY <1>1, <1>2, <1>3 DEF QueueInv, Ordered
<1> QED
  BY <1>1, <1>2, <1>4, <1>5

LEMMA PendingAsk ==
  ASSUME TypeOK, NEW r, NEW k
  PROVE  Pending(r, k) <=> \E f \in AskOf(todo) : f[2] = r /\ f[3] = k
<1>1. DOMAIN todo = 1 .. Len(todo)
  BY DEF TypeOK
<1>2. \A f : f \in AskOf(todo) <=> \E i \in 1 .. Len(todo) : todo[i][1] \in Asked /\ f = todo[i]
  BY AskMembers
<1> QED
  BY <1>1, <1>2 DEF Pending, Asked

\* FireInv without indices.
LEMMA FireAsk == (\A i \in Spots : FireOK(i)) <=> (\A f \in AskOf(todo) : FrameOK(f))
<1>1. ASSUME NEW i \in 1 .. Len(todo)
      PROVE  FireOK(i) <=> (todo[i][1] \in Asked => FrameOK(todo[i]))
  BY DEF FireOK, FrameOK, Asked
<1> QED
  BY <1>1, AskMembers DEF Spots

\* A fire is lost when it was claimed, has no row and is not asked for.
LEMMA LostIs ==
  TypeOK =>
    /\ \A r \in Routines : \A k \in 1 .. MaxDue :
          <<r, k>> \in Lost <=> k <= claimed[r] /\ rows[r][k] = 0 /\ \A f \in AskOf(todo) : ~(f[2] = r /\ f[3] = k)
    /\ Lost \subseteq Routines \X (1 .. MaxDue)
    /\ IsFiniteSet(Lost) /\ Cardinality(Lost) \in Nat
<1> SUFFICES ASSUME TypeOK
             PROVE  /\ \A r \in Routines : \A k \in 1 .. MaxDue :
                          <<r, k>> \in Lost <=> k <= claimed[r] /\ rows[r][k] = 0 /\ \A f \in AskOf(todo) : ~(f[2] = r /\ f[3] = k)
                    /\ Lost \subseteq Routines \X (1 .. MaxDue)
                    /\ IsFiniteSet(Lost) /\ Cardinality(Lost) \in Nat
  OBVIOUS
<1>1. ASSUME NEW r \in Routines, NEW k \in 1 .. MaxDue
      PROVE  <<r, k>> \in Lost <=> k <= claimed[r] /\ rows[r][k] = 0 /\ ~Pending(r, k)
  BY DEF Lost
<1>2. Lost \subseteq Routines \X (1 .. MaxDue)
  BY DEF Lost
<1>3. IsFiniteSet(Routines) /\ IsFiniteSet(1 .. MaxDue)
  BY Facts, FS_Interval
<1>4. IsFiniteSet(Routines \X (1 .. MaxDue))
  BY <1>3, FS_Product
<1>5. IsFiniteSet(Lost) /\ Cardinality(Lost) \in Nat
  BY <1>2, <1>4, FS_Subset, FS_CardinalityType
<1> QED
  BY <1>1, <1>2, <1>5, PendingAsk

LEMMA Rooms ==
  TypeOK =>
    /\ IsFiniteSet(Unused) /\ Cardinality(Unused) \in Nat /\ Unused \subseteq Runs
    /\ IsFiniteSet(DueOf) /\ Cardinality(DueOf) \in Nat /\ DueOf \subseteq Routines
    /\ RoomInv <=> Cardinality(Unused) >= Cardinality(DueOf) + IF AskOf(todo) # {} THEN 1 ELSE 0
<1> SUFFICES ASSUME TypeOK
             PROVE  /\ IsFiniteSet(Unused) /\ Cardinality(Unused) \in Nat /\ Unused \subseteq Runs
                    /\ IsFiniteSet(DueOf) /\ Cardinality(DueOf) \in Nat /\ DueOf \subseteq Routines
                    /\ RoomInv <=> Cardinality(Unused) >= Cardinality(DueOf) + IF AskOf(todo) # {} THEN 1 ELSE 0
  OBVIOUS
<1>1. mix.runs \in 1 .. MaxRuns
  BY Facts DEF TypeOK
<1>2. Unused \subseteq Runs
  BY <1>1, Facts DEF Unused, Runs
<1>3. IsFiniteSet(Runs)
  BY Facts, FS_Interval DEF Runs
<1>4. IsFiniteSet(Unused) /\ Cardinality(Unused) \in Nat
  BY <1>2, <1>3, FS_Subset, FS_CardinalityType
<1>5. IsFiniteSet(DueOf) /\ Cardinality(DueOf) \in Nat /\ DueOf \subseteq Routines
  BY Facts, FS_Subset, FS_CardinalityType DEF DueOf
<1>6. RoomInv <=> Cardinality(Unused) >= Cardinality(DueOf) + IF AskOf(todo) # {} THEN 1 ELSE 0
  BY AskMembers DEF RoomInv, DueOf
<1> QED
  BY <1>2, <1>4, <1>5, <1>6

(* A step that claims no fire and writes no row.                               *)
Steady ==
    /\ UNCHANGED <<rows, claimed, mix>> /\ Crashes' = Crashes
    /\ \A q \in Routines : due'[q] => due[q]
    /\ \A x \in Runs : run'[x].status = "none" <=> run[x].status = "none"

LEMMA SameUnused ==
  ASSUME TypeOK, UNCHANGED mix, \A x \in Runs : run'[x].status = "none" <=> run[x].status = "none"
  PROVE  Unused' = Unused
<1>1. mix.runs \in 1 .. MaxRuns
  BY Facts DEF TypeOK
<1>2. 1 .. mix.runs \subseteq Runs
  BY <1>1, Facts DEF Runs
<1> QED
  BY <1>2 DEF Unused

LEMMA FewerDue ==
  ASSUME TypeOK, TypeOK', \A q \in Routines : due'[q] => due[q]
  PROVE  Cardinality(DueOf)' <= Cardinality(DueOf)
<1>1. DueOf' \subseteq DueOf
  BY DEF DueOf
<1>2. Cardinality(DueOf') <= Cardinality(DueOf)
  BY <1>1, Rooms, FS_Subset
<1> QED
  BY <1>2

LEMMA NextRooms ==
  ASSUME TypeOK'
  PROVE  /\ IsFiniteSet(Unused') /\ Cardinality(Unused)' \in Nat
         /\ IsFiniteSet(DueOf') /\ Cardinality(DueOf)' \in Nat
         /\ RoomInv' <=> Cardinality(Unused)' >= Cardinality(DueOf)' + IF AskOf(todo)' # {} THEN 1 ELSE 0
<1>1. (TypeOK =>
        /\ IsFiniteSet(Unused) /\ Cardinality(Unused) \in Nat /\ Unused \subseteq Runs
        /\ IsFiniteSet(DueOf) /\ Cardinality(DueOf) \in Nat /\ DueOf \subseteq Routines
        /\ RoomInv <=> Cardinality(Unused) >= Cardinality(DueOf) + IF AskOf(todo) # {} THEN 1 ELSE 0)'
  BY Rooms, PTL
<1> QED
  BY <1>1

LEMMA NextLost ==
  ASSUME TypeOK'
  PROVE  /\ \A r \in Routines : \A k \in 1 .. MaxDue :
               <<r, k>> \in Lost' <=> k <= claimed'[r] /\ rows'[r][k] = 0 /\ \A f \in AskOf(todo)' : ~(f[2] = r /\ f[3] = k)
         /\ Lost' \subseteq Routines \X (1 .. MaxDue)
         /\ IsFiniteSet(Lost') /\ Cardinality(Lost)' \in Nat
<1>1. (TypeOK =>
        /\ \A r \in Routines : \A k \in 1 .. MaxDue :
              <<r, k>> \in Lost <=> k <= claimed[r] /\ rows[r][k] = 0 /\ \A f \in AskOf(todo) : ~(f[2] = r /\ f[3] = k)
        /\ Lost \subseteq Routines \X (1 .. MaxDue)
        /\ IsFiniteSet(Lost) /\ Cardinality(Lost) \in Nat)'
  BY LostIs, PTL
<1> QED
  BY <1>1

\* What is left to show of the fires after a step.
LEMMA FiresMade ==
  ASSUME TypeOK, TypeOK', FiresInv,
         DueInv', RowsOnce', \A f \in AskOf(todo)' : FrameOK(f)',
         Lost' \subseteq Lost, Crashes' = Crashes, RoomInv'
  PROVE  FiresInv'
<1>1. (\A i \in Spots : FireOK(i))'
  <2>1. ((\A i \in Spots : FireOK(i)) <=> (\A f \in AskOf(todo) : FrameOK(f)))'
    BY FireAsk, PTL
  <2> QED
    BY <2>1
<1>2. Cardinality(Lost') <= Cardinality(Lost)
  BY LostIs, FS_Subset
<1>3. Cardinality(Lost) \in Nat /\ Cardinality(Lost)' \in Nat /\ Cardinality(Lost) <= Crashes
  BY LostIs, NextLost DEF FiresInv, FireInv
<1>4. Crashes \in Nat
  <2>1. boots \in 1 .. MaxBoots /\ MaxBoots \in Nat
    BY Facts DEF TypeOK
  <2> QED
    BY <2>1 DEF Crashes
<1>5. Cardinality(Lost)' <= Crashes'
  BY <1>2, <1>3, <1>4
<1> QED
  BY <1>1, <1>5 DEF FiresInv, FireInv, RowsOnce

\* Nothing is claimed or written, and what was asked for still is.
LEMMA SteadyFires ==
  ASSUME TypeOK, TypeOK', FiresInv, Steady, AskOf(todo)' = AskOf(todo),
         AskOf(todo) # {} => UNCHANGED <<exists, deleting>>
  PROVE  FiresInv'
<1>1. DueInv'
  BY DEF DueInv, Steady, FiresInv
<1>2. \A f \in AskOf(todo)' : FrameOK(f)'
  <2>1. \A f \in AskOf(todo) : FrameOK(f)
    BY FireAsk DEF FiresInv, FireInv
  <2> QED
    BY <2>1 DEF FrameOK, Steady
<1>3. RowsOnce'
  BY DEF RowsOnce, Steady, FiresInv, FireInv
<1>4. Lost' \subseteq Lost
  <2>1. ASSUME NEW r \in Routines, NEW k \in 1 .. MaxDue, <<r, k>> \in Lost'
        PROVE  <<r, k>> \in Lost
    BY <2>1, NextLost, LostIs DEF Steady
  <2> QED
    BY <2>1, NextLost
<1>5. RoomInv'
  <2>1. Unused' = Unused
    BY SameUnused DEF Steady
  <2>2. Cardinality(DueOf)' <= Cardinality(DueOf)
    BY FewerDue DEF Steady
  <2>3. Cardinality(Unused) >= Cardinality(DueOf) + IF AskOf(todo) # {} THEN 1 ELSE 0
    BY Rooms DEF FiresInv
  <2> QED
    BY <2>1, <2>2, <2>3, Rooms, NextRooms
<1> QED
  BY <1>1, <1>2, <1>3, <1>4, <1>5, FiresMade DEF Steady

LEMMA FallsDueFires ==
  ASSUME TypeOK, TypeOK', FiresInv, NEW r \in Routines, FallsDue(r)
  PROVE  FiresInv'
<1> USE DEF rowVars, fireVars, liveVars, procVars, sessVars, histVars
<1>1. /\ todo = <<>> /\ exists[r] /\ ~due[r] /\ claimed[r] < mix.dues /\ due' = [due EXCEPT ![r] = TRUE]
      /\ Cardinality(Unused) > Cardinality(DueOf)
      /\ UNCHANGED <<exists, deleting, rows, claimed, run, mix, todo, up, boots>>
  BY DEF FallsDue, DueOf
<1>2. AskOf(todo) = {} /\ AskOf(todo)' = {}
  BY <1>1, Empties, AskNone
<1>3. mix.dues \in 0 .. MaxDue
  BY Facts DEF TypeOK
<1>4. DueInv'
  <2>1. claimed[r] < MaxDue
    BY <1>1, <1>3, Facts DEF TypeOK
  <2> QED
    BY <1>1, <2>1 DEF DueInv, FiresInv, TypeOK
<1>5. RowsOnce'
  BY <1>1 DEF RowsOnce, FiresInv, FireInv
<1>6. Lost' \subseteq Lost /\ Crashes' = Crashes
  BY <1>1 DEF Lost, Pending, Crashes
<1>7. RoomInv'
  <2>1. DueOf' = DueOf \cup {r}
    BY <1>1 DEF DueOf, TypeOK
  <2>2. Cardinality(DueOf') <= Cardinality(DueOf) + 1
    <3>1. PICK D : D = DueOf
      OBVIOUS
    <3>2. IsFiniteSet(D) /\ Cardinality(D) \in Nat
      BY <3>1, Rooms
    <3>3. Cardinality(D \cup {r}) = IF r \in D THEN Cardinality(D) ELSE Cardinality(D) + 1
      BY <3>2, FS_AddElement, Zenon
    <3>4. Cardinality(D \cup {r}) <= Cardinality(D) + 1
      BY <3>2, <3>3
    <3> QED
      BY <2>1, <3>1, <3>4
  <2>3. Unused' = Unused
    BY <1>1 DEF Unused
  <2> QED
    BY <1>1, <1>2, <2>2, <2>3, Rooms, NextRooms
<1> QED
  BY <1>2, <1>4, <1>5, <1>6, <1>7, FiresMade

LEMMA FireFires ==
  ASSUME TypeOK, TypeOK', FiresInv, NEW r \in Routines, NEW manual \in BOOLEAN, Fire(r, manual)
  PROVE  FiresInv'
<1> USE DEF rowVars, fireVars, liveVars, procVars, sessVars, histVars
<1>1. /\ todo = <<>> /\ exists[r] /\ r \notin deleting /\ todo' = <<<<"admit", r, 0, manual>>>>
      /\ Cardinality(Unused) > Cardinality(DueOf)
      /\ UNCHANGED <<exists, deleting, rows, claimed, run, mix, due, up, boots>>
  BY DEF Fire, Idle, DueOf
<1>2. <<"admit", r, 0, manual>> \in Frames
  <2>1. 0 \in 0 .. MaxDue
    BY Facts
  <2> QED
    BY <2>1, FrameIn, Zenon
<1>3. AskOf(todo) = {} /\ AskOf(todo)' = {<<"admit", r, 0, manual>>}
  BY <1>1, <1>2, Empties, AskNone, AskOne DEF Asked
<1>4. DueInv'
  BY <1>1 DEF DueInv, FiresInv
<1>5. RowsOnce'
  BY <1>1 DEF RowsOnce, FiresInv, FireInv
<1>6. \A f \in AskOf(todo)' : FrameOK(f)'
  BY <1>1, <1>3 DEF FrameOK
<1>7. Lost' \subseteq Lost
  <2>1. ASSUME NEW q \in Routines, NEW k \in 1 .. MaxDue, <<q, k>> \in Lost'
        PROVE  <<q, k>> \in Lost
    BY <1>1, <1>3, <2>1, NextLost, LostIs
  <2> QED
    BY <2>1, NextLost
<1>8. RoomInv'
  <2>1. Unused' = Unused /\ DueOf' = DueOf
    BY <1>1 DEF Unused, DueOf
  <2> QED
    BY <1>1, <2>1, Rooms, NextRooms
<1> QED
  BY <1>1, <1>4, <1>5, <1>6, <1>7, <1>8, FiresMade DEF Crashes

\* A claim: the schedule moves on, and the fire is asked for in the same statement.
LEMMA ClaimFires ==
  ASSUME TypeOK, TypeOK', CoreInv, FiresInv, ClaimFire
  PROVE  FiresInv'
<1> USE DEF rowVars, fireVars, liveVars, procVars, sessVars, histVars
<1>1. /\ QueueInv /\ todo # <<>> /\ Arg \in Routines /\ todo[1][1] = "fire" /\ todo[1] \in Frames
      /\ \/ Front(<<>>) /\ UNCHANGED <<due, claimed>>
         \/ /\ due[Arg] /\ enabled[Arg] /\ exists[Arg] /\ Arg \notin deleting /\ MovesOn(Arg)
            /\ claimed[Arg] + 1 \in 1 .. MaxDue
            /\ \E f \in Frames : /\ f[1] \in Asked /\ f[2] = Arg /\ f[3] = claimed[Arg] + 1 /\ Front(<<f>>)
  BY Claims DEF CoreInv, FiresInv
<1>2. UNCHANGED <<exists, deleting, rows, run, mix, up, boots>>
  BY DEF ClaimFire
<1>3. ~AsksIn(Tail(todo)) /\ AskOf(todo) = {} /\ AskOf(Tail(todo)) = {}
  <2>1. "fire" \notin Light /\ "fire" \notin Asked
    BY DEF Light, Asked
  <2> QED
    BY <1>1, <2>1, Rest, AskNone
<1>4. PICK r \in Routines : r = Arg
  BY <1>1
<1>5. CASE Front(<<>>) /\ UNCHANGED <<due, claimed>>
  <2>1. AskOf(todo)' = {}
    BY <1>1, <1>3, <1>5, GoOn, AskNone
  <2>2. Steady
    BY <1>2, <1>5 DEF Steady, Crashes
  <2> QED
    BY <1>3, <2>1, <2>2, SteadyFires
<1>6. CASE /\ due[r] /\ exists[r] /\ r \notin deleting /\ MovesOn(r) /\ claimed[r] + 1 \in 1 .. MaxDue
           /\ \E f \in Frames : f[1] \in Asked /\ f[2] = r /\ f[3] = claimed[r] + 1 /\ Front(<<f>>)
  <2>1. PICK f \in Frames : f[1] \in Asked /\ f[2] = r /\ f[3] = claimed[r] + 1 /\ Front(<<f>>)
    BY <1>6
  <2>2. AskOf(todo)' = {f}
    <3>1. PICK h : h = <<f>>
      OBVIOUS
    <3>2. h \in Seq(Frames) /\ Tail(todo) \in Seq(Frames) /\ todo' = h \o Tail(todo)
      BY <1>1, <2>1, <3>1, FrontSeq, Single DEF Front
    <3>3. AskOf(h) = {f}
      BY <2>1, <3>1, AskOne
    <3>4. AskOf(h \o Tail(todo)) = AskOf(h) \cup AskOf(Tail(todo))
      BY <3>2, AskJoin
    <3> QED
      BY <1>3, <3>2, <3>3, <3>4
  <2>3. /\ due' = [due EXCEPT ![r] = FALSE] /\ claimed' = [claimed EXCEPT ![r] = claimed[r] + 1]
        /\ claimed[r] \in 0 .. MaxDue /\ MaxDue \in Nat
    BY <1>6, Facts DEF MovesOn, TypeOK
  <2>4. /\ ~due'[r] /\ claimed'[r] = claimed[r] + 1
        /\ \A q \in Routines : q # r => due'[q] = due[q] /\ claimed'[q] = claimed[q]
    BY <2>3 DEF TypeOK
  <2>5. DueInv'
    BY <2>4 DEF DueInv, FiresInv
  <2>6. rows[r][claimed[r] + 1] = 0
    BY <1>6, <2>3 DEF FiresInv, FireInv
  <2>7. \A g \in AskOf(todo)' : FrameOK(g)'
    BY <1>2, <1>6, <2>1, <2>2, <2>3, <2>4, <2>6 DEF FrameOK
  <2>8. RowsOnce'
    <3>1. ASSUME NEW q \in Routines, NEW k \in 1 .. MaxDue
          PROVE  rows'[q][k] <= 1 /\ (k > claimed'[q] => rows'[q][k] = 0)
      <4>1. rows[q][k] <= 1 /\ (k > claimed[q] => rows[q][k] = 0)
        BY DEF FiresInv, FireInv
      <4>2. k > claimed'[q] => k > claimed[q]
        BY <2>3, <2>4
      <4> QED
        BY <1>2, <4>1, <4>2
    <3> QED
      BY <3>1 DEF RowsOnce
  <2>9. Lost' \subseteq Lost
    <3>1. ASSUME NEW q \in Routines, NEW k \in 1 .. MaxDue, <<q, k>> \in Lost'
          PROVE  <<q, k>> \in Lost
      <4>1. k <= claimed'[q] /\ rows'[q][k] = 0 /\ ~(f[2] = q /\ f[3] = k)
        BY <2>2, <3>1, NextLost
      <4>2. k <= claimed[q]
        BY <2>1, <2>3, <2>4, <4>1
      <4> QED
        BY <1>2, <1>3, <4>1, <4>2, LostIs
    <3> QED
      BY <3>1, NextLost
  <2>10. RoomInv'
    <3>1. DueOf' = DueOf \ {r} /\ r \in DueOf
      BY <1>6, <2>4 DEF DueOf
    <3>2. Cardinality(DueOf') = Cardinality(DueOf) - 1
      BY <3>1, Rooms, FS_RemoveElement
    <3>3. Unused' = Unused
      BY <1>2 DEF Unused
    <3> QED
      BY <1>3, <2>2, <3>2, <3>3, Rooms, NextRooms DEF FiresInv
  <2> QED
    BY <1>2, <2>5, <2>7, <2>8, <2>9, <2>10, FiresMade DEF Crashes
<1> QED
  BY <1>1, <1>4, <1>5, <1>6

\* The fire at work becomes a row.
LEMMA WriteFires ==
  ASSUME TypeOK, TypeOK', CoreInv, FiresInv, todo # <<>>, todo[1] \in Frames, todo[1][1] \in Asked, Arg = todo[1][2],
         rows' = Written(Arg, todo[1][3]), UNCHANGED <<exists, deleting, due, claimed, mix, up, boots>>,
         AskOf(todo)' = {}, Cardinality(Unused)' >= Cardinality(Unused) - 1
  PROVE  FiresInv'
<1>1. PICK f \in Frames : f = todo[1]
  OBVIOUS
<1>2. AskOf(todo) = {f}
  <2>1. f \in AskOf(todo)
    BY <1>1, Head1, AskMembers
  <2> QED
    BY <2>1, OneAsked DEF CoreInv
<1>3. f[2] \in Routines /\ f[3] \in 0 .. MaxDue
  BY <1>1, FrameShape DEF Asked
<1>4. PICK r \in Routines, k \in 0 .. MaxDue : r = f[2] /\ k = f[3]
  BY <1>3
<1>5. rows' = Written(r, k)
  BY <1>1, <1>4
<1>6. k # 0 => k \in 1 .. MaxDue /\ k <= claimed[r] /\ rows[r][k] = 0
  <2>1. FrameOK(f)
    BY <1>2, FireAsk DEF FiresInv, FireInv
  <2> QED
    BY <1>4, <2>1, Facts DEF FrameOK
<1>7. \A q \in Routines : \A n \in 1 .. MaxDue : rows'[q][n] = IF q = r /\ n = k THEN 1 ELSE rows[q][n]
  <2>1. CASE k = 0
    BY <1>5, <2>1, Facts DEF Written
  <2>2. CASE k # 0
    <3>1. rows' = [rows EXCEPT ![r][k] = @ + 1]
      BY <1>5, <2>2 DEF Written
    <3>2. rows \in [Routines -> [1 .. MaxDue -> Nat]]
      BY DEF TypeOK
    <3>3. \A q \in Routines : q # r => rows'[q] = rows[q]
      BY <3>1, <3>2
    <3>4. rows'[r] = [rows[r] EXCEPT ![k] = rows[r][k] + 1]
      <4>1. PICK row : row = [rows[r] EXCEPT ![k] = rows[r][k] + 1]
        OBVIOUS
      <4>2. rows' = [rows EXCEPT ![r] = row]
        BY <3>1, <4>1
      <4> QED
        BY <3>2, <4>1, <4>2
    <3>5. rows[r] \in [1 .. MaxDue -> Nat] /\ rows[r][k] = 0
      BY <1>6, <2>2, <3>2
    <3>6. \A n \in 1 .. MaxDue : rows'[r][n] = IF n = k THEN 1 ELSE rows[r][n]
      <4>1. PICK old : old = rows[r] /\ old \in [1 .. MaxDue -> Nat] /\ old[k] = 0
        BY <3>5
      <4>2. PICK new : new = rows'[r] /\ new = [old EXCEPT ![k] = 1]
        BY <3>4, <4>1
      <4>3. \A n \in 1 .. MaxDue : new[n] = IF n = k THEN 1 ELSE old[n]
        BY <4>1, <4>2
      <4> QED
        BY <4>1, <4>2, <4>3
    <3> QED
      BY <3>3, <3>6
  <2> QED
    BY <2>1, <2>2
<1>8. DueInv'
  BY DEF DueInv, FiresInv
<1>9. RowsOnce'
  <2>1. ASSUME NEW q \in Routines, NEW n \in 1 .. MaxDue
        PROVE  rows'[q][n] <= 1 /\ (n > claimed'[q] => rows'[q][n] = 0)
    <3>1. rows[q][n] <= 1 /\ (n > claimed[q] => rows[q][n] = 0) /\ claimed[q] \in 0 .. MaxDue
      BY DEF FiresInv, FireInv, TypeOK
    <3>2. rows'[q][n] = IF q = r /\ n = k THEN 1 ELSE rows[q][n]
      BY <1>7
    <3>3. q = r /\ n = k => ~(n > claimed[q])
      BY <1>6, <3>1
    <3> QED
      BY <3>1, <3>2, <3>3
  <2> QED
    BY <2>1 DEF RowsOnce
<1>10. Lost' \subseteq Lost
  <2>1. ASSUME NEW q \in Routines, NEW n \in 1 .. MaxDue, <<q, n>> \in Lost'
        PROVE  <<q, n>> \in Lost
    <3>1. n <= claimed[q] /\ rows'[q][n] = 0
      BY <2>1, NextLost
    <3>2. rows[q][n] = 0 /\ ~(q = r /\ n = k)
      BY <1>7, <3>1
    <3> QED
      BY <1>2, <1>4, <3>1, <3>2, LostIs
  <2> QED
    BY <2>1, NextLost
<1>11. RoomInv'
  <2>1. DueOf' = DueOf
    BY DEF DueOf
  <2>2. AskOf(todo) # {}
    BY <1>2
  <2>3. Cardinality(Unused) >= Cardinality(DueOf) + 1
    BY <2>2, Rooms DEF FiresInv
  <2> QED
    BY <2>1, <2>3, Rooms, NextRooms
<1> QED
  BY <1>8, <1>9, <1>10, <1>11, FiresMade DEF Crashes

LEMMA SkipFires ==
  ASSUME TypeOK, TypeOK', CoreInv, FiresInv, RecordSkip
  PROVE  FiresInv'
<1> USE DEF rowVars, fireVars, liveVars, procVars, sessVars, histVars
<1>1. QueueInv /\ todo # <<>> /\ todo[1][1] = "skip" /\ todo[1] \in Frames /\ Head(todo) = todo[1] /\ Arg = todo[1][2]
  BY AtWork DEF CoreInv, RecordSkip
<1>2. /\ rows' = Written(Arg, todo[1][3]) /\ Front(<<>>)
      /\ UNCHANGED <<exists, deleting, due, claimed, mix, up, boots, run>>
  BY <1>1 DEF RecordSkip
<1>3. "skip" \notin Light /\ "skip" \in Asked
  BY DEF Light, Asked
<1>4. AskOf(todo)' = {}
  BY <1>1, <1>2, <1>3, Rest, GoOn, AskNone
<1>5. Cardinality(Unused)' >= Cardinality(Unused) - 1
  <2>1. Unused' = Unused
    BY <1>2 DEF Unused
  <2> QED
    BY <2>1, Rooms
<1> QED
  BY <1>1, <1>2, <1>3, <1>4, <1>5, WriteFires

LEMMA AdmitsFires ==
  ASSUME TypeOK, TypeOK', CoreInv, FiresInv, Admit, ~AsksIn(todo'), Min(Unused) \in Unused, Arg \in Routines,
         run' = [run EXCEPT ![Min(Unused)] = [status |-> "queued", routine |-> Arg, manual |-> Head(todo)[4], loop |-> FALSE]],
         rows' = Written(Arg, Head(todo)[3])
  PROVE  FiresInv'
<1> USE DEF rowVars, fireVars, liveVars, procVars, sessVars, histVars
<1>1. todo # <<>> /\ todo[1][1] = "admit" /\ todo[1] \in Frames /\ Head(todo) = todo[1] /\ Arg = todo[1][2]
  BY AtWork DEF CoreInv, Admit
<1>2. UNCHANGED <<exists, deleting, due, claimed, mix, up, boots>>
  BY DEF Admit
<1>3. PICK x \in Unused : x = Min(Unused)
  OBVIOUS
<1>4. Unused' = Unused \ {x}
  <2>1. Unused \subseteq Runs /\ x \in Runs
    BY Rooms
  <2>2. PICK row : row = [status |-> "queued", routine |-> Arg, manual |-> Head(todo)[4], loop |-> FALSE]
    OBVIOUS
  <2>3. run' = [run EXCEPT ![x] = row]
    BY <1>3, <2>2
  <2>4. run'[x].status # "none" /\ \A y \in Runs : y # x => run'[y] = run[y]
    <3>1. row.status = "queued"
      BY <2>2
    <3>2. run'[x] = row /\ \A y \in Runs : y # x => run'[y] = run[y]
      BY <2>1, <2>3 DEF TypeOK
    <3> QED
      BY <3>1, <3>2
  <2>5. 1 .. mix.runs \subseteq Runs
    <3>1. mix.runs \in 1 .. MaxRuns
      BY Facts DEF TypeOK
    <3> QED
      BY <3>1, Facts DEF Runs
  <2> QED
    BY <1>2, <2>4, <2>5 DEF Unused
<1>5. Cardinality(Unused)' >= Cardinality(Unused) - 1
  <2>1. Cardinality(Unused') = Cardinality(Unused) - 1
    BY <1>4, Rooms, FS_RemoveElement
  <2> QED
    BY <2>1, Rooms
<1>6. AskOf(todo)' = {}
  BY AskNone
<1> QED
  BY <1>1, <1>2, <1>5, <1>6, WriteFires DEF Asked

\* A fire that finds its routine busy becomes a skip, with its number.
LEMMA ToSkipFires ==
  ASSUME TypeOK, TypeOK', CoreInv, FiresInv, Admit, Declined(Arg)
  PROVE  FiresInv'
<1> USE DEF rowVars, fireVars, liveVars, procVars, sessVars, histVars
<1>1. /\ todo # <<>> /\ Arg \in Routines /\ todo[1][1] = "admit" /\ todo[1] \in Frames /\ UNCHANGED <<rows, run>>
      /\ QueueInv /\ Arg = todo[1][2] /\ Head(todo) = todo[1]
  BY Declines, AtWork DEF CoreInv, Admit
<1>2. UNCHANGED <<exists, deleting, due, claimed, mix, up, boots, rows, run>>
  BY <1>1 DEF Admit
<1>3. Steady
  BY <1>2 DEF Steady, Crashes
<1>4. PICK f \in Frames : f = todo[1]
  BY <1>1
<1>5. AskOf(todo) = {f} /\ FrameOK(f) /\ f[1] = "admit" /\ f[2] = Arg
  <2>1. f \in AskOf(todo)
    BY <1>1, <1>4, Head1, AskMembers DEF Asked
  <2>2. \A g \in AskOf(todo) : FrameOK(g)
    BY FireAsk DEF FiresInv, FireInv
  <2> QED
    BY <1>1, <1>4, <2>1, <2>2, OneAsked
<1>6. Arg \notin deleting
  BY <1>5 DEF FrameOK
<1>7. CASE todo' = <<<<"follow", Arg>>>> \o todo
  <2>1. <<"follow", Arg>> \in Frames
    BY <1>1, FrameIn
  <2>2. PICK h : h = <<<<"follow", Arg>>>>
    OBVIOUS
  <2>3. h \in Seq(Frames) /\ todo \in Seq(Frames)
    BY <2>1, <2>2, Single DEF TypeOK
  <2>4. AskOf(h \o todo) = AskOf(h) \cup AskOf(todo)
    BY <2>3, AskJoin
  <2>5. AskOf(h) = {}
    BY <2>1, <2>2, AskOne DEF Asked
  <2>6. AskOf(todo)' = AskOf(todo)
    BY <1>7, <2>2, <2>4, <2>5
  <2> QED
    BY <1>2, <1>3, <2>6, SteadyFires
<1>8. CASE Front(<<<<"skip", Arg, todo[1][3]>>>>)
  <2>0. <<"skip", Arg, todo[1][3]>> \in Frames
    <3>1. todo[1][3] \in 0 .. MaxDue
      BY <1>1, FrameShape
    <3> QED
      BY <1>1, <3>1, FrameIn, Zenon
  <2>1. PICK g \in Frames : g = <<"skip", Arg, todo[1][3]>>
    BY <2>0
  <2>2. g[1] = "skip" /\ g[2] = f[2] /\ g[3] = f[3]
    BY <1>4, <1>5, <2>1
  <2>3. AskOf(Tail(todo)) = {}
    <3>1. "admit" \notin Light
      BY DEF Light
    <3> QED
      BY <1>1, <3>1, Rest, AskNone
  <2>4. AskOf(todo)' = {g}
    <3>1. PICK h : h = <<g>>
      OBVIOUS
    <3>2. h \in Seq(Frames) /\ Tail(todo) \in Seq(Frames) /\ todo' = h \o Tail(todo)
      BY <1>1, <1>8, <2>1, <3>1, FrontSeq, Single DEF Front
    <3>3. AskOf(h) = {g}
      BY <2>2, <3>1, AskOne DEF Asked
    <3>4. AskOf(h \o Tail(todo)) = AskOf(h) \cup AskOf(Tail(todo))
      BY <3>2, AskJoin
    <3> QED
      BY <2>3, <3>2, <3>3, <3>4
  <2>5. \A e \in AskOf(todo)' : FrameOK(e)'
    BY <1>2, <1>5, <2>2, <2>4 DEF FrameOK
  <2>6. DueInv' /\ RowsOnce'
    BY <1>2 DEF DueInv, RowsOnce, FiresInv, FireInv
  <2>7. Lost' \subseteq Lost
    <3>1. ASSUME NEW q \in Routines, NEW k \in 1 .. MaxDue, <<q, k>> \in Lost'
          PROVE  <<q, k>> \in Lost
      BY <1>2, <1>5, <2>2, <2>4, <3>1, NextLost, LostIs
    <3> QED
      BY <3>1, NextLost
  <2>8. RoomInv'
    <3>1. Unused' = Unused /\ DueOf' = DueOf
      BY <1>2 DEF Unused, DueOf
    <3>2. AskOf(todo) # {}
      BY <1>5
    <3> QED
      BY <3>1, <3>2, Rooms, NextRooms DEF FiresInv
  <2> QED
    BY <1>2, <2>5, <2>6, <2>7, <2>8, FiresMade DEF Crashes
<1>9. todo' = <<<<"follow", Arg>>>> \o todo \/ Front(<<<<"skip", Arg, Head(todo)[3]>>>>)
  BY <1>6 DEF Admit, Declined
<1> QED
  BY <1>1, <1>7, <1>8, <1>9

\* A delete takes the fires of its routine with it.
LEMMA DeletedFires ==
  ASSUME TypeOK, TypeOK', CoreInv, FiresInv, NEW r \in Routines, Deleted(r)
  PROVE  FiresInv'
<1> USE DEF rowVars, fireVars, liveVars, procVars, sessVars, histVars
<1>1. /\ todo = <<>> /\ todo' = <<>> /\ UNCHANGED <<mix, up, boots>>
      /\ due' = [due EXCEPT ![r] = FALSE] /\ claimed' = [claimed EXCEPT ![r] = 0]
      /\ rows' = [rows EXCEPT ![r] = [k \in 1 .. MaxDue |-> 0]]
      /\ \A x \in Runs : run'[x] = IF run[x].routine # r THEN run[x]
                                   ELSE [Empty EXCEPT !.status = "deleted", !.routine = IF x \in Live THEN r ELSE @]
  BY DEF Deleted, Idle
<1>2. AskOf(todo) = {} /\ AskOf(todo)' = {}
  BY <1>1, Empties, AskNone
<1>3. /\ ~due'[r] /\ claimed'[r] = 0 /\ \A k \in 1 .. MaxDue : rows'[r][k] = 0
      /\ \A q \in Routines : q # r => due'[q] = due[q] /\ claimed'[q] = claimed[q] /\ rows'[q] = rows[q]
  <2>1. ~due'[r] /\ claimed'[r] = 0 /\ \A q \in Routines : q # r => due'[q] = due[q] /\ claimed'[q] = claimed[q]
    <3>1. DOMAIN due = Routines /\ DOMAIN claimed = Routines
      BY DEF TypeOK
    <3>2. due' = [due EXCEPT ![r] = FALSE] /\ claimed' = [claimed EXCEPT ![r] = 0]
      BY <1>1
    <3> QED
      BY <3>1, <3>2
  <2>2. PICK row : row = [k \in 1 .. MaxDue |-> 0]
    OBVIOUS
  <2>3. rows' = [rows EXCEPT ![r] = row] /\ rows \in [Routines -> [1 .. MaxDue -> Nat]]
    BY <1>1, <2>2 DEF TypeOK
  <2>4. rows'[r] = row /\ \A q \in Routines : q # r => rows'[q] = rows[q]
    BY <2>3
  <2> QED
    BY <2>1, <2>2, <2>4
<1>4. DueInv'
  BY <1>3 DEF DueInv, FiresInv
<1>5. RowsOnce'
  <2>1. ASSUME NEW q \in Routines, NEW k \in 1 .. MaxDue
        PROVE  rows'[q][k] <= 1 /\ (k > claimed'[q] => rows'[q][k] = 0)
    <3>1. rows[q][k] <= 1 /\ (k > claimed[q] => rows[q][k] = 0)
      BY DEF FiresInv, FireInv
    <3> QED
      BY <1>3, <3>1
  <2> QED
    BY <2>1 DEF RowsOnce
<1>6. Lost' \subseteq Lost
  <2>1. ASSUME NEW q \in Routines, NEW k \in 1 .. MaxDue, <<q, k>> \in Lost'
        PROVE  <<q, k>> \in Lost
    <3>1. k <= claimed'[q] /\ rows'[q][k] = 0
      BY <2>1, NextLost
    <3>2. q # r
      BY <1>3, <3>1
    <3> QED
      BY <1>2, <1>3, <3>1, <3>2, LostIs
  <2> QED
    BY <2>1, NextLost
<1>7. RoomInv'
  <2>1. \A x \in Runs : run'[x].status = "none" <=> run[x].status = "none"
    <3>1. ASSUME NEW x \in Runs
          PROVE  run'[x].status = "none" <=> run[x].status = "none"
      <4>1. run[x].status = "none" => run[x].routine = "none"
        BY DEF CoreInv, RunsInv, RunOK
      <4>2. CASE run[x].routine # r
        BY <1>1, <4>2
      <4>3. CASE run[x].routine = r
        BY <1>1, <4>1, <4>3, Facts DEF Empty
      <4> QED
        BY <4>2, <4>3
    <3> QED
      BY <3>1
  <2>2. Unused' = Unused
    BY <1>1, <2>1, SameUnused
  <2>3. Cardinality(DueOf)' <= Cardinality(DueOf)
    BY <1>3, FewerDue
  <2> QED
    BY <1>2, <2>2, <2>3, Rooms, NextRooms DEF FiresInv
<1> QED
  BY <1>1, <1>2, <1>4, <1>5, <1>6, <1>7, FiresMade DEF Crashes

\* A crash loses the fire that was on its way, and no other.
LEMMA ExitFires ==
  ASSUME TypeOK, TypeOK', CoreInv, FiresInv, Exit
  PROVE  FiresInv'
<1> USE DEF rowVars, fireVars, liveVars, procVars, sessVars, histVars
<1>1. /\ up /\ ~up' /\ todo' = <<>> /\ UNCHANGED <<rows, claimed, due, run, boots, mix>>
  BY DEF Exit
<1>2. AskOf(todo)' = {}
  BY <1>1, Empties, AskNone
<1>3. DueInv' /\ RowsOnce'
  BY <1>1 DEF DueInv, RowsOnce, FiresInv, FireInv
<1>4. RoomInv'
  <2>1. Unused' = Unused /\ DueOf' = DueOf
    BY <1>1 DEF Unused, DueOf
  <2> QED
    BY <1>2, <2>1, Rooms, NextRooms DEF FiresInv
<1>5. (\A i \in Spots : FireOK(i))'
  <2>1. ((\A i \in Spots : FireOK(i)) <=> (\A f \in AskOf(todo) : FrameOK(f)))'
    BY FireAsk, PTL
  <2> QED
    BY <1>2, <2>1
<1>6. Crashes' = Crashes + 1 /\ Crashes \in Nat
  <2>1. boots \in 1 .. MaxBoots /\ MaxBoots \in Nat
    BY Facts DEF TypeOK
  <2> QED
    BY <1>1, <2>1 DEF Crashes
<1>7. \E e : Lost' \subseteq Lost \cup {e}
  <2>1. CASE AskOf(todo) = {}
    <3>1. ASSUME NEW q \in Routines, NEW k \in 1 .. MaxDue, <<q, k>> \in Lost'
          PROVE  <<q, k>> \in Lost
      BY <1>1, <2>1, <3>1, NextLost, LostIs
    <3> QED
      BY <3>1, NextLost
  <2>2. CASE AskOf(todo) # {}
    <3>1. PICK f : AskOf(todo) = {f}
      BY <2>2, OneAsked DEF CoreInv
    <3>2. ASSUME NEW q \in Routines, NEW k \in 1 .. MaxDue, <<q, k>> \in Lost'
          PROVE  <<q, k>> \in Lost \cup {<<f[2], f[3]>>}
      BY <1>1, <3>1, <3>2, NextLost, LostIs
    <3>3. Lost' \subseteq Lost \cup {<<f[2], f[3]>>}
      BY <3>2, NextLost
    <3> QED
      BY <3>3
  <2> QED
    BY <2>1, <2>2
<1>8. Cardinality(Lost)' <= Cardinality(Lost) + 1
  <2>1. PICK e : Lost' \subseteq Lost \cup {e}
    BY <1>7
  <2>2. PICK L : L = Lost
    OBVIOUS
  <2>3. IsFiniteSet(L) /\ Cardinality(L) \in Nat
    BY <2>2, LostIs
  <2>4. IsFiniteSet(L \cup {e}) /\ Cardinality(L \cup {e}) = IF e \in L THEN Cardinality(L) ELSE Cardinality(L) + 1
    BY <2>3, FS_AddElement, Zenon
  <2>5. Cardinality(L \cup {e}) <= Cardinality(L) + 1
    BY <2>3, <2>4
  <2>6. PICK M : M = Lost'
    OBVIOUS
  <2>7. Cardinality(M) <= Cardinality(L \cup {e})
    BY <2>1, <2>2, <2>4, <2>6, FS_Subset
  <2>8. Cardinality(M) \in Nat
    BY <2>6, NextLost
  <2>9. Cardinality(L \cup {e}) \in Nat
    BY <2>4, FS_CardinalityType
  <2>10. Cardinality(M) <= Cardinality(L) + 1
    BY <2>3, <2>5, <2>7, <2>8, <2>9
  <2> QED
    BY <2>2, <2>6, <2>10
<1>9. Cardinality(Lost)' <= Crashes'
  <2>1. Cardinality(Lost) \in Nat /\ Cardinality(Lost)' \in Nat /\ Cardinality(Lost) <= Crashes
    BY LostIs, NextLost DEF FiresInv, FireInv
  <2> QED
    BY <1>6, <1>8, <2>1
<1> QED
  BY <1>3, <1>4, <1>5, <1>9 DEF FiresInv, FireInv, RowsOnce

-----------------------------------------------------------------------------
(* One step.                                                                   *)

LEMMA MuteFires ==
  ASSUME TypeOK, TypeOK', FiresInv, Mute, UNCHANGED <<rows, claimed, due, mix, up, boots>>,
         \A x \in Runs : run'[x].status = "none" <=> run[x].status = "none"
  PROVE  FiresInv'
<1>1. AskOf(todo) = {} /\ AskOf(todo)' = {}
  BY AskNone DEF Mute
<1>2. Steady
  BY DEF Steady, Crashes
<1> QED
  BY <1>1, <1>2, SteadyFires

LEMMA QuietStep ==
  ASSUME IInv, Quiet, QueueNext, TypeOK', FiresInv', up \/ DownInv'
  PROVE  IInv'
<1>1. CoreInv'
  BY QuietCore DEF IInv
<1>2. DownInv'
  BY UpStays DEF Quiet, Keeps
<1> QED
  BY <1>1, <1>2 DEF IInv

LEMMA OwnerStep ==
  ASSUME IInv, NEW r \in Routines, FallsDue(r) \/ Pause(r) \/ Resume(r)
  PROVE  IInv'
<1> USE DEF rowVars, fireVars, liveVars, procVars, sessVars, histVars
<1>1. TypeOK /\ TypeOK' /\ FiresInv /\ QueueInv /\ DownInv
  BY TypeOwner DEF IInv, CoreInv
<1>2. Quiet /\ QueueNext
  BY <1>1, QuietOwner
<1>3. UNCHANGED <<todo, pc, stopped, deleting, armed, boots, up>>
  BY DEF FallsDue, Pause, Resume
<1>4. DownInv'
  BY <1>1, <1>3 DEF DownInv, Live
<1>5. CASE FallsDue(r)
  BY <1>1, <1>2, <1>4, <1>5, FallsDueFires, QuietStep
<1>6. CASE Pause(r) \/ Resume(r)
  <2>1. AskOf(todo)' = AskOf(todo) /\ UNCHANGED <<exists, deleting>> /\ UNCHANGED <<rows, claimed, mix, run>>
    BY <1>3, <1>6 DEF Pause, Resume
  <2>2. \A q \in Routines : due'[q] => due[q]
    BY <1>1, <1>6 DEF Pause, Resume, TypeOK
  <2>3. Steady
    BY <1>3, <2>1, <2>2 DEF Steady, Crashes
  <2> QED
    BY <1>1, <1>2, <1>4, <2>1, <2>3, SteadyFires, QuietStep
<1> QED
  BY <1>5, <1>6

\* The steps of a session's owner and agent, and those of a run in its session.
LEMMA SessionStep ==
  ASSUME IInv, NEW x \in Runs, AgentTurns(x) \/ OwnerTalks(x) \/ OwnerDone(x) \/ Sent(x) \/ StartsWindDown(x)
  PROVE  IInv'
<1> USE DEF rowVars, fireVars, liveVars, procVars, sessVars, histVars
<1>1. TypeOK /\ TypeOK' /\ FiresInv /\ QueueInv /\ DownInv
  BY TypeTalks, TypeSent DEF IInv, CoreInv
<1>2. Quiet /\ QueueNext
  BY <1>1, QuietOwner, QuietSent
<1>3. UNCHANGED <<todo, rows, claimed, due, mix, run, boots, up, exists, deleting>> /\ up
  BY DEF AgentTurns, OwnerTalks, OwnerDone, Sent, StartsWindDown, Idle
<1>4. AskOf(todo)' = AskOf(todo) /\ Steady
  BY <1>3 DEF Steady, Crashes
<1> QED
  BY <1>1, <1>2, <1>3, <1>4, SteadyFires, QuietStep

LEMMA FireStep ==
  ASSUME IInv, NEW r \in Routines, NEW manual \in BOOLEAN, Fire(r, manual)
  PROVE  IInv'
<1>1. TypeOK /\ TypeOK' /\ FiresInv /\ QueueInv /\ up
  BY TypeFire DEF IInv, CoreInv, Fire, Idle
<1>2. Quiet /\ QueueNext
  BY <1>1, QuietFire
<1> QED
  BY <1>1, <1>2, FireFires, QuietStep

LEMMA PassStep ==
  ASSUME IInv, Tick \/ ListDue
  PROVE  IInv'
<1> USE DEF rowVars, fireVars, liveVars, procVars, sessVars, histVars
<1>1. TypeOK /\ TypeOK' /\ FiresInv /\ QueueInv
  BY TypeTick DEF IInv, CoreInv
<1>2. Quiet /\ QueueNext
  BY <1>1, QuietTick, QuietList
<1>3. Mute
  BY <1>1, TickQueue, ListQueue, Empties DEF Mute
<1>4. UNCHANGED <<rows, claimed, due, mix, run, boots, up>> /\ up
  BY DEF Tick, ListDue, Idle, Doing
<1> QED
  BY <1>1, <1>2, <1>3, <1>4, MuteFires, QuietStep

LEMMA ClaimStep ==
  ASSUME IInv, ClaimFire
  PROVE  IInv'
<1>1. TypeOK /\ CoreInv /\ QueueInv /\ FiresInv /\ DueInv
  BY DEF IInv, CoreInv, FiresInv
<1>2. TypeOK' /\ Quiet /\ QueueNext /\ up
  BY <1>1, TypeClaim, QuietClaim DEF ClaimFire, Doing
<1> QED
  BY <1>1, <1>2, ClaimFires, QuietStep

\* A frame that asks for nothing goes, and nothing that asks comes: what is asked stays.
LEMMA AskStays ==
  ASSUME TypeOK, todo # <<>>, NEW s \in Seq(Frames), ~AsksIn(s),
         (todo[1][1] \notin Asked /\ todo' = s \o Tail(todo)) \/ todo' = s \o todo
  PROVE  AskOf(todo)' = AskOf(todo)
<1>1. Tail(todo) \in Seq(Frames) /\ todo \in Seq(Frames)
  BY Head1 DEF TypeOK
<1>2. AskOf(s) = {}
  BY AskNone
<1>3. CASE todo' = s \o todo
  <2>1. AskOf(s \o todo) = AskOf(s) \cup AskOf(todo)
    BY <1>1, AskJoin
  <2> QED
    BY <1>2, <1>3, <2>1
<1>4. CASE todo[1][1] \notin Asked /\ todo' = s \o Tail(todo)
  <2>1. AskOf(s \o Tail(todo)) = AskOf(s) \cup AskOf(Tail(todo))
    BY <1>1, AskJoin
  <2>2. AskOf(todo) = AskOf(Tail(todo))
    BY <1>4, AskHead
  <2> QED
    BY <1>2, <1>4, <2>1, <2>2
<1> QED
  BY <1>3, <1>4

LEMMA PopsStep ==
  ASSUME IInv, RecordSkip \/ DrainEnds \/ AutoPause \/ RecordOutcome \/ (FollowLoops /\ Over(Arg) = {})
  PROVE  IInv'
<1> USE DEF rowVars, fireVars, liveVars, procVars, sessVars, histVars
<1>1. TypeOK /\ CoreInv /\ QueueInv /\ FiresInv
  BY DEF IInv, CoreInv
<1>2. Quiet /\ QueueNext
  BY <1>1, QuietPops, QuietOutcome
<1>3. TypeOK'
  BY <1>1, <1>2, TypePops
<1>4. up /\ todo # <<>>
  BY DEF RecordSkip, DrainEnds, AutoPause, RecordOutcome, FollowLoops, Doing
<1>5. CASE RecordSkip
  BY <1>1, <1>2, <1>3, <1>4, <1>5, SkipFires, QuietStep
<1>6. CASE DrainEnds \/ AutoPause \/ RecordOutcome \/ (FollowLoops /\ Over(Arg) = {})
  <2>1. UNCHANGED <<rows, claimed, due, mix, run, boots, up, exists, deleting>>
    BY <1>6 DEF DrainEnds, AutoPause, RecordOutcome, FollowLoops
  <2>2. Steady
    BY <2>1 DEF Steady, Crashes
  <2>3. todo[1][1] \notin Asked
    BY <1>1, <1>6, AtWork DEF DrainEnds, AutoPause, RecordOutcome, FollowLoops, Asked
  <2>4. \E s \in Seq(Frames) : ~AsksIn(s) /\ todo' = s \o Tail(todo)
    <3>1. CASE Front(<<>>)
      <4> WITNESS <<>> \in Seq(Frames)
      <4> QED
        BY <3>1, Empties DEF Front
    <3>2. CASE ~Front(<<>>)
      <4>1. RecordOutcome /\ Front(<<<<"pause", run[Arg].routine>>>>)
        BY <1>6, <3>2 DEF DrainEnds, AutoPause, RecordOutcome, FollowLoops
      <4>2. run[Arg].routine \in Routines
        BY <1>1, <4>1, AtWork, FrameShape DEF RecordOutcome, QueueInv, Has
      <4>3. <<"pause", run[Arg].routine>> \in Frames
        BY <4>2, FrameIn, Zenon
      <4>4. PICK f \in Frames : f = <<"pause", run[Arg].routine>>
        BY <4>3
      <4>5. <<f>> \in Seq(Frames) /\ ~AsksIn(<<f>>)
        BY <4>4, Single DEF Asked
      <4> WITNESS <<f>> \in Seq(Frames)
      <4> QED
        BY <4>1, <4>4, <4>5 DEF Front
    <3> QED
      BY <3>1, <3>2
  <2>5. AskOf(todo)' = AskOf(todo)
    BY <1>1, <1>4, <2>3, <2>4, AskStays
  <2> QED
    BY <1>1, <1>2, <1>3, <1>4, <2>1, <2>2, <2>5, SteadyFires, QuietStep
<1> QED
  BY <1>5, <1>6

LEMMA MuteStep ==
  ASSUME IInv, CoreInv', TypeOK', Mute, UNCHANGED <<rows, claimed, due, mix, up, boots>>, up \/ DownInv',
         \A x \in Runs : run'[x].status = "none" <=> run[x].status = "none"
  PROVE  IInv'
<1>1. FiresInv'
  BY MuteFires DEF IInv
<1>2. DownInv'
  BY UpStays
<1> QED
  BY <1>1, <1>2 DEF IInv

\* A run with a row of its own never goes back to having none.
LEMMA RowStays ==
  ASSUME TypeOK, CoreInv, NEW x \in Runs, run[x].routine \in Routines,
         \/ \E result : run' = [run EXCEPT ![x] = Row(x, result)]
         \/ \E v \in Active \cup {"deleted"} : run' = [run EXCEPT ![x].status = v]
         \/ run' = [run EXCEPT ![x].loop = TRUE, ![x].status = "running"]
  PROVE  \A y \in Runs : run'[y].status = "none" <=> run[y].status = "none"
<1>1. run[x].status # "none"
  BY Facts DEF CoreInv, RunsInv, RunOK
<1>2. run \in [Runs -> RunType]
  BY DEF TypeOK, RunType
<1>3. \E row : run' = [run EXCEPT ![x] = row] /\ row.status # "none"
  <2>1. ASSUME NEW result, run' = [run EXCEPT ![x] = Row(x, result)]
        PROVE  \E row : run' = [run EXCEPT ![x] = row] /\ row.status # "none"
    <3>1. Row(x, result).status # "none"
      BY <1>1, RowType
    <3> QED
      BY <2>1, <3>1
  <2>2. ASSUME NEW v \in Active \cup {"deleted"}, run' = [run EXCEPT ![x].status = v]
        PROVE  \E row : run' = [run EXCEPT ![x] = row] /\ row.status # "none"
    <3>1. PICK row : row = [run[x] EXCEPT !.status = v]
      OBVIOUS
    <3>2. run' = [run EXCEPT ![x] = row]
      BY <2>2, <3>1
    <3>3. run[x] \in RunType
      BY <1>2
    <3>4. row.status = v
      BY <3>1, <3>3 DEF RunType
    <3> QED
      BY <2>2, <3>2, <3>4 DEF Active
  <2>3. ASSUME run' = [run EXCEPT ![x].loop = TRUE, ![x].status = "running"]
        PROVE  \E row : run' = [run EXCEPT ![x] = row] /\ row.status # "none"
    <3>1. PICK row : row = [run[x] EXCEPT !.loop = TRUE, !.status = "running"]
      OBVIOUS
    <3>2. run' = [run EXCEPT ![x] = row]
      BY <2>3, <3>1
    <3>3. run[x] \in RunType
      BY <1>2
    <3>4. row.status = "running"
      BY <3>1, <3>3 DEF RunType
    <3> QED
      BY <3>2, <3>4
  <2> QED
    BY <2>1, <2>2, <2>3
<1>4. PICK row : run' = [run EXCEPT ![x] = row] /\ row.status # "none"
  BY <1>3
<1>5. run'[x] = row /\ \A y \in Runs : y # x => run'[y] = run[y]
  <2> HIDE DEF RunType
  <2> QED
    BY <1>2, <1>4
<1> QED
  BY <1>1, <1>4, <1>5

LEMMA EndsStep ==
  ASSUME IInv, NEW x \in Runs, Ends(x), QueueNext, Mute,
         \/ Finishing
         \/ CheckEnds(x) \/ CreateFails(x) \/ SendFails(x) \/ WaitEnds(x) \/ WoundDown(x)
         \/ Begin /\ UNCHANGED pc
         \/ LoopStart
         \/ PortStart /\ UNCHANGED loop
         \/ Work /\ UNCHANGED <<pc, home>>
  PROVE  IInv'
<1> USE DEF rowVars, fireVars, liveVars, procVars, sessVars, histVars
<1>1. TypeOK /\ CoreInv
  BY DEF IInv
<1>2. TypeOK' /\ CoreInv'
  BY <1>1, TypeEnds, EndsCore
<1>3. UNCHANGED <<rows, claimed, due, mix, boots, up>> /\ up
  <2>1. UNCHANGED <<rows, claimed, due, mix, boots>>
    BY DEF Finishing, CheckEnds, CreateFails, SendFails, WaitEnds, WoundDown, Begin, LoopStart, PortStart, Work
  <2> QED
    BY <2>1 DEF Ends, Keeps
<1>4. run[x].routine \in Routines
  BY <1>1 DEF CoreInv, LiveInv, LiveOK, Ends
<1>5. \A y \in Runs : run'[y].status = "none" <=> run[y].status = "none"
  <2>1. \E result : run' = [run EXCEPT ![x] = Row(x, result)]
    BY DEF Ends, Finish
  <2> QED
    BY <1>1, <1>4, <2>1, RowStays
<1> QED
  BY <1>2, <1>3, <1>5, MuteStep

LEMMA BeginStep ==
  ASSUME IInv, Begin
  PROVE  IInv'
<1> USE DEF rowVars, fireVars, liveVars, procVars, sessVars, histVars
<1>1. TypeOK /\ CoreInv /\ QueueInv /\ LiveInv /\ Doing("begin")
  BY DEF IInv, CoreInv, Begin
<1>2. Arg \in Runs /\ todo # <<>> /\ run[Arg].routine \in Routines
  BY <1>1, AtWorks DEF Works, Exec
<1>3. CASE \E result : Finish(Arg, result) /\ UNCHANGED pc /\ todo' = Counted(Arg, result) \o Tail(todo) \o Closing(Arg)
  <2>1. Ends(Arg) /\ QueueNext /\ Mute
    BY <1>1, <1>3, EndsAtWork
  <2>2. PICK x \in Runs : x = Arg
    BY <1>2
  <2>3. Ends(x)
    BY <2>1, <2>2
  <2>4. Begin /\ UNCHANGED pc
    BY <1>3
  <2> QED
    BY <2>1, <2>3, <2>4, EndsStep
<1>4. CASE ~\E result : Finish(Arg, result) /\ UNCHANGED pc /\ todo' = Counted(Arg, result) \o Tail(todo) \o Closing(Arg)
  <2>1. CoreInv' /\ Mute
    BY <1>1, <1>4, BeginCore
  <2>2. \/ run' = [run EXCEPT ![Arg].status = "checking"] /\ pc' = [pc EXCEPT ![Arg] = "check"] /\ Front(<<>>) /\ UNCHANGED armed
        \/ Front(<<<<"work", Arg>>>>) /\ UNCHANGED <<run, pc, armed>>
    BY <1>4 DEF Begin
  <2>3. todo' \in Seq(Frames)
    BY <1>1, <1>2, <2>2, FrontSeq, FrameIn
  <2>4. TypeOK'
    BY <1>1, <2>2, <2>3, TypeWork
  <2>5. \A y \in Runs : run'[y].status = "none" <=> run[y].status = "none"
    <3>1. "checking" \in Active \cup {"deleted"}
      BY DEF Active
    <3>2. UNCHANGED run \/ \E v \in Active \cup {"deleted"} : run' = [run EXCEPT ![Arg].status = v]
      BY <2>2, <3>1
    <3> QED
      BY <1>1, <1>2, <3>2, RowStays
  <2>6. UNCHANGED <<rows, claimed, due, mix, boots, up>> /\ up
    BY DEF Begin, Doing
  <2> QED
    BY <2>1, <2>4, <2>5, <2>6, MuteStep
<1> QED
  BY <1>3, <1>4

LEMMA LoopStartStep ==
  ASSUME IInv, LoopStart
  PROVE  IInv'
<1> USE DEF rowVars, fireVars, liveVars, procVars, sessVars, histVars
<1>1. TypeOK /\ CoreInv /\ QueueInv /\ LiveInv /\ Doing("loopStart")
  BY DEF IInv, CoreInv, LoopStart
<1>2. Arg \in Runs /\ todo # <<>> /\ run[Arg].routine \in Routines
  BY <1>1, AtWorks DEF Works, Exec
<1>3. CASE \E result : Finish(Arg, result) /\ todo' = Tail(todo) \o Closing(Arg)
  <2>1. Ends(Arg) /\ QueueNext /\ Mute
    BY <1>1, <1>3, EndsAtWork
  <2>2. PICK x \in Runs : x = Arg
    BY <1>2
  <2>3. Ends(x)
    BY <2>1, <2>2
  <2>4. LoopStart
    BY <1>3
  <2> QED
    BY <2>1, <2>3, <2>4, EndsStep
<1>4. CASE run' = [run EXCEPT ![Arg].status = "running"] /\ Front(<<<<"portStart", Arg>>>>) /\ UNCHANGED armed
  <2>1. CoreInv' /\ Mute
    BY <1>1, <1>4, LoopStartCore
  <2>2. todo' \in Seq(Frames)
    BY <1>1, <1>2, <1>4, FrontSeq, FrameIn
  <2>3. TypeOK'
    BY <1>1, <1>4, <2>2, TypeWork
  <2>4. \A y \in Runs : run'[y].status = "none" <=> run[y].status = "none"
    <3>1. "running" \in Active \cup {"deleted"}
      BY DEF Active
    <3> QED
      BY <1>1, <1>2, <1>4, <3>1, RowStays
  <2>5. UNCHANGED <<rows, claimed, due, mix, boots, up>> /\ up
    BY DEF LoopStart, Doing
  <2> QED
    BY <2>1, <2>3, <2>4, <2>5, MuteStep
<1> QED
  BY <1>3, <1>4 DEF LoopStart

LEMMA PortStartStep ==
  ASSUME IInv, PortStart
  PROVE  IInv'
<1> USE DEF rowVars, fireVars, liveVars, procVars, sessVars, histVars
<1>1. TypeOK /\ CoreInv /\ QueueInv /\ LiveInv /\ Doing("portStart")
  BY DEF IInv, CoreInv, PortStart
<1>2. Arg \in Runs /\ todo # <<>>
  BY <1>1, AtWorks DEF Works, Exec
<1>3. CASE \E result : Finish(Arg, result) /\ UNCHANGED loop /\ todo' = Counted(Arg, result) \o Tail(todo) \o Closing(Arg)
  <2>1. Ends(Arg) /\ QueueNext /\ Mute
    BY <1>1, <1>3, EndsAtWork
  <2>2. PICK x \in Runs : x = Arg
    BY <1>2
  <2>3. Ends(x)
    BY <2>1, <2>2
  <2> QED
    BY <1>3, <2>1, <2>3, EndsStep
<1>4. CASE loop' = [loop EXCEPT ![Arg] = "active"] /\ Front(<<<<"loopRecord", Arg>>>>) /\ UNCHANGED <<run, armed>>
  <2>1. CoreInv' /\ Mute
    BY <1>1, <1>4, PortStartCore
  <2>2. todo' \in Seq(Frames)
    BY <1>1, <1>2, <1>4, FrontSeq, FrameIn
  <2>3. TypeOK'
    BY <1>1, <1>4, <2>2, TypeWork
  <2>4. UNCHANGED <<rows, claimed, due, mix, boots, up>> /\ up
    BY DEF PortStart, Doing
  <2> QED
    BY <1>4, <2>1, <2>3, <2>4, MuteStep
<1> QED
  BY <1>3, <1>4 DEF PortStart

LEMMA WorkStep ==
  ASSUME IInv, Work
  PROVE  IInv'
<1> USE DEF rowVars, fireVars, liveVars, procVars, sessVars, histVars
<1>1. TypeOK /\ CoreInv /\ QueueInv /\ LiveInv /\ Doing("work")
  BY DEF IInv, CoreInv, Work
<1>2. Arg \in Runs /\ todo # <<>> /\ run[Arg].routine \in Routines
  BY <1>1, AtWorks DEF Works, Exec
<1>3. CASE \E result : Finish(Arg, result) /\ UNCHANGED <<pc, home>> /\ todo' = Tail(todo) \o Closing(Arg)
  <2>1. Ends(Arg) /\ QueueNext /\ Mute
    BY <1>1, <1>3, EndsAtWork
  <2>2. PICK x \in Runs : x = Arg
    BY <1>2
  <2>3. Ends(x)
    BY <2>1, <2>2
  <2> QED
    BY <1>3, <2>1, <2>3, EndsStep
<1>4. CASE ~\E result : Finish(Arg, result) /\ UNCHANGED <<pc, home>> /\ todo' = Tail(todo) \o Closing(Arg)
  <2>1. CoreInv' /\ Mute /\ TypeOK'
    BY <1>1, <1>4, WorkCore, TypeWorks
  <2>2. UNCHANGED run \/ run' = [run EXCEPT ![Arg].status = "running"]
    BY <1>4 DEF Work, UseKept
  <2>3. \A y \in Runs : run'[y].status = "none" <=> run[y].status = "none"
    <3>1. "running" \in Active \cup {"deleted"}
      BY DEF Active
    <3>2. UNCHANGED run \/ \E v \in Active \cup {"deleted"} : run' = [run EXCEPT ![Arg].status = v]
      BY <2>2, <3>1
    <3> QED
      BY <1>1, <1>2, <3>2, RowStays
  <2>4. UNCHANGED <<rows, claimed, due, mix, boots, up>> /\ up
    BY DEF Work, Doing
  <2> QED
    BY <2>1, <2>3, <2>4, MuteStep
<1> QED
  BY <1>3, <1>4

LEMMA FinishingStep ==
  ASSUME IInv, Finishing
  PROVE  IInv'
<1>1. TypeOK /\ CoreInv /\ QueueInv /\ LiveInv
  BY DEF IInv, CoreInv
<1>2. Ends(Arg) /\ QueueNext /\ Mute
  BY <1>1, EndFinishing
<1>3. PICK x \in Runs : x = Arg
  BY <1>2 DEF Ends, Live
<1> QED
  BY <1>2, <1>3, EndsStep

LEMMA RestEndsStep ==
  ASSUME IInv, NEW x \in Runs, CheckEnds(x) \/ CreateFails(x) \/ SendFails(x) \/ WaitEnds(x) \/ WoundDown(x)
  PROVE  IInv'
<1> USE DEF rowVars, fireVars, liveVars, procVars, sessVars, histVars
<1>1. TypeOK /\ CoreInv /\ QueueInv /\ LiveInv
  BY DEF IInv, CoreInv
<1>2. CASE CreateFails(x) \/ SendFails(x) \/ WaitEnds(x) \/ WoundDown(x)
  <2>1. Ends(x) /\ QueueNext /\ Mute
    BY <1>1, <1>2, EndsAtRest
  <2> QED
    BY <1>2, <2>1, EndsStep
<1>3. CASE CheckEnds(x) /\ \E result : Finish(x, result) /\ (todo' = Closing(x) \/ todo' = Counted(x, result) \o Closing(x))
  <2>1. Ends(x) /\ QueueNext /\ Mute
    BY <1>1, <1>3, EndsAtRest
  <2> QED
    BY <1>3, <2>1, EndsStep
<1>4. CASE CheckEnds(x) /\ stop[x] = "no" /\ todo' = <<<<"work", x>>>> /\ UNCHANGED <<run, armed>>
  <2>1. CoreInv' /\ Mute /\ TypeOK'
    BY <1>1, <1>4, CheckCore, TypeCheck
  <2>2. UNCHANGED <<rows, claimed, due, mix, boots, up>> /\ up
    BY <1>4 DEF CheckEnds, Idle
  <2> QED
    BY <1>4, <2>1, <2>2, MuteStep
<1> QED
  BY <1>2, <1>3, <1>4 DEF CheckEnds

LEMMA RecordStep ==
  ASSUME IInv, LoopRecord
  PROVE  IInv'
<1> USE DEF rowVars, fireVars, liveVars, procVars, sessVars, histVars
<1>1. TypeOK /\ CoreInv /\ Doing("loopRecord")
  BY DEF IInv, LoopRecord
<1>2. Arg \in Runs /\ run[Arg].routine \in Routines
  BY <1>1, AtWorks DEF Works, Exec
<1>3. CoreInv' /\ Mute /\ TypeOK'
  BY <1>1, LoopRecordCore, TypeLoopRecord
<1>4. \A y \in Runs : run'[y].status = "none" <=> run[y].status = "none"
  <2>1. run' = [run EXCEPT ![Arg].loop = TRUE, ![Arg].status = "running"]
    BY DEF LoopRecord
  <2> QED
    BY <1>1, <1>2, <2>1, RowStays
<1>5. UNCHANGED <<rows, claimed, due, mix, boots, up>> /\ up
  BY DEF LoopRecord, Doing
<1> QED
  BY <1>3, <1>4, <1>5, MuteStep

LEMMA CreatedStep ==
  ASSUME IInv, NEW x \in Runs, Created(x)
  PROVE  IInv'
<1> USE DEF rowVars, fireVars, liveVars, procVars, sessVars, histVars
<1>1. TypeOK /\ CoreInv
  BY DEF IInv
<1>2. CoreInv' /\ Mute /\ TypeOK'
  BY <1>1, CreatedCore, TypeCreated
<1>3. x \in Live /\ run[x].routine \in Routines
  BY <1>1 DEF Created, Live, CoreInv, LiveInv, LiveOK
<1>4. \A y \in Runs : run'[y].status = "none" <=> run[y].status = "none"
  <2>1. run' = run \/ run' = [run EXCEPT ![x].status = IF @ = "deleted" THEN @ ELSE "running"]
    BY DEF Created
  <2>2. PICK v : v = IF run[x].status = "deleted" THEN "deleted" ELSE "running"
    OBVIOUS
  <2>3. v \in Active \cup {"deleted"}
    BY <2>2 DEF Active
  <2>4. run' = run \/ run' = [run EXCEPT ![x].status = v]
    BY <2>1, <2>2
  <2> QED
    BY <1>1, <1>3, <2>3, <2>4, RowStays
<1>5. UNCHANGED <<rows, claimed, due, mix, boots, up>> /\ up
  BY DEF Created, Idle
<1> QED
  BY <1>2, <1>4, <1>5, MuteStep

LEMMA LivesStep ==
  ASSUME IInv, DrainStarts \/ Forget
  PROVE  IInv'
<1> USE DEF rowVars, fireVars, liveVars, procVars, sessVars, histVars
<1>1. TypeOK /\ CoreInv
  BY DEF IInv
<1>2. CoreInv' /\ Mute /\ TypeOK'
  BY <1>1, StartsCore, ForgetCore, TypeLives
<1>3. UNCHANGED <<rows, claimed, due, mix, boots, up, run>> /\ up
  BY DEF DrainStarts, Forget, Doing
<1> QED
  BY <1>2, <1>3, MuteStep

LEMMA AdmitStep ==
  ASSUME IInv, Admit
  PROVE  IInv'
<1> USE DEF rowVars, fireVars, liveVars, procVars, sessVars, histVars
<1>1. TypeOK /\ CoreInv /\ QueueInv /\ FiresInv
  BY DEF IInv, CoreInv
<1>2. todo # <<>> /\ todo[1][1] = "admit" /\ Arg = todo[1][2] /\ todo[1] \in Frames /\ up
  BY <1>1, AtWork DEF Admit
<1>3. CASE Declined(Arg)
  <2>1. Quiet /\ QueueNext /\ UNCHANGED <<rows, run>>
    BY <1>1, <1>3, Declines
  <2>2. TypeOK'
    BY <1>1, <2>1, TypeDeclines DEF QueueNext
  <2> QED
    BY <1>1, <1>2, <1>3, <2>1, <2>2, ToSkipFires, QuietStep
<1>4. CASE ~Declined(Arg)
  <2>1. todo[1] \in AskOf(todo)
    BY <1>1, <1>2, Head1, AskMembers DEF Asked
  <2>2. exists[Arg]
    BY <1>1, <1>2, <2>1, FireAsk DEF FiresInv, FireInv, FrameOK
  <2>3. Unused # {}
    <3>1. Cardinality(Unused) >= 1
      BY <1>1, <2>1, Rooms DEF FiresInv
    <3>2. Cardinality({}) = 0
      BY FS_EmptySet
    <3> QED
      BY <3>1, <3>2
  <2>4. /\ CoreInv' /\ ~AsksIn(todo') /\ Min(Unused) \in Unused /\ Unused \subseteq Runs /\ Arg \in Routines
        /\ run' = [run EXCEPT ![Min(Unused)] = [status |-> "queued", routine |-> Arg, manual |-> Head(todo)[4], loop |-> FALSE]]
        /\ rows' = Written(Arg, Head(todo)[3]) /\ Front(<<<<"drain", 0>>>>)
    BY <1>1, <1>4, <2>2, <2>3, AdmitsCore
  <2>5. TypeOK'
    <3>1. PICK x \in Runs : x = Min(Unused)
      BY <2>4
    <3> QED
      BY <1>1, <1>2, <2>4, <3>1, TypeAdmits
  <2>6. FiresInv'
    BY <1>1, <2>4, <2>5, AdmitsFires
  <2>7. DownInv'
    BY <1>2, UpStays DEF Admit
  <2> QED
    BY <2>4, <2>5, <2>6, <2>7 DEF IInv
<1> QED
  BY <1>3, <1>4

\* The steps that end a row, with a fire waiting behind them perhaps.
LEMMA RowsStep ==
  ASSUME IInv, NEW x \in Runs, RowEnds(x), QueueNext, TypeOK', AskOf(todo)' = AskOf(todo),
         UNCHANGED <<rows, claimed, due, mix, boots>>, up
  PROVE  IInv'
<1>1. TypeOK /\ CoreInv /\ FiresInv
  BY DEF IInv
<1>2. CoreInv'
  BY <1>1, RowEndsCore
<1>3. UNCHANGED <<exists, deleting, up>>
  BY DEF RowEnds, Keeps
<1>4. \A y \in Runs : run'[y].status = "none" <=> run[y].status = "none"
  <2>1. run[x].routine \in Routines
    BY <1>1 DEF RowEnds, CoreInv, RunsInv, RunOK
  <2>2. \E result : run' = [run EXCEPT ![x] = Row(x, result)]
    BY DEF RowEnds
  <2> QED
    BY <1>1, <2>1, <2>2, RowStays
<1>5. Steady
  BY <1>3, <1>4 DEF Steady, Crashes
<1>6. FiresInv'
  BY <1>1, <1>3, <1>5, SteadyFires
<1>7. DownInv'
  BY <1>3, UpStays
<1> QED
  BY <1>2, <1>6, <1>7 DEF IInv

LEMMA FollowStep ==
  ASSUME IInv, FollowLoops, Over(Arg) # {}
  PROVE  IInv'
<1> USE DEF rowVars, fireVars, liveVars, procVars, sessVars, histVars
<1>1. TypeOK /\ CoreInv /\ QueueInv /\ RunsInv
  BY DEF IInv, CoreInv
<1>2. PICK x \in Runs : x = Min(Over(Arg))
  BY <1>1, RowEndsFollow
<1>3. RowEnds(x) /\ QueueNext /\ \E result : todo' = Counted(x, result) \o todo
  BY <1>1, <1>2, RowEndsFollow
<1>4. TypeOK'
  BY <1>1, <1>3, TypeFollow
<1>5. up /\ todo # <<>> /\ UNCHANGED <<rows, claimed, due, mix, boots>>
  BY DEF FollowLoops, Doing
<1>6. AskOf(todo)' = AskOf(todo)
  <2>1. PICK result : todo' = Counted(x, result) \o todo
    BY <1>3
  <2>2. Counted(x, result) \in Seq(Frames) /\ ~AsksIn(Counted(x, result))
    BY CountedParts
  <2> QED
    BY <1>1, <1>5, <2>1, <2>2, AskStays
<1> QED
  BY <1>3, <1>4, <1>5, <1>6, RowsStep

LEMMA SkipsStep ==
  ASSUME IInv, DrainSkips
  PROVE  IInv'
<1> USE DEF rowVars, fireVars, liveVars, procVars, sessVars, histVars
<1>1. TypeOK /\ CoreInv /\ QueueInv /\ RunsInv
  BY DEF IInv, CoreInv
<1>2. RowEnds(Min(Drains)) /\ QueueNext /\ UNCHANGED todo /\ Min(Drains) \in Runs
  BY <1>1, RowEndsDrain
<1>3. PICK x \in Runs : x = Min(Drains)
  BY <1>2
<1>4. TypeOK'
  BY <1>1, <1>3, TypeRows
<1>5. UNCHANGED <<rows, claimed, due, mix, boots>> /\ up
  BY DEF DrainSkips, Doing
<1>6. AskOf(todo)' = AskOf(todo)
  BY <1>2
<1> QED
  BY <1>2, <1>3, <1>4, <1>5, <1>6, RowsStep

LEMMA CancelStep ==
  ASSUME IInv, NEW x \in Runs, CancelRun(x)
  PROVE  IInv'
<1> USE DEF rowVars, fireVars, liveVars, procVars, sessVars, histVars
<1>1. TypeOK /\ CoreInv /\ QueueInv /\ RunsInv
  BY DEF IInv, CoreInv
<1>2. TypeOK'
  BY <1>1, TypeRows
<1>3. UNCHANGED <<rows, claimed, due, mix, boots, up, todo>> /\ up
  BY DEF CancelRun, Idle
<1>4. CASE x \notin Live
  <2>1. RowEnds(x) /\ QueueNext
    BY <1>1, <1>4, RowEndsCancel
  <2>2. AskOf(todo)' = AskOf(todo)
    BY <1>3
  <2> QED
    BY <1>2, <1>3, <2>1, <2>2, RowsStep
<1>5. CASE x \in Live
  <2>1. CoreInv' /\ Mute
    BY <1>1, <1>5, CancelCore
  <2>2. UNCHANGED run
    BY <1>5 DEF CancelRun
  <2> QED
    BY <1>2, <1>3, <2>1, <2>2, MuteStep
<1> QED
  BY <1>4, <1>5

LEMMA LoopEndedStep ==
  ASSUME IInv, NEW x \in Runs, NEW end \in LoopEnds, LoopEnded(x, end)
  PROVE  IInv'
<1> USE DEF rowVars, fireVars, liveVars, procVars, sessVars, histVars
<1>1. TypeOK /\ CoreInv /\ DownInv
  BY DEF IInv
<1>2. CoreInv' /\ Mute /\ TypeOK'
  BY <1>1, LoopEndedCore, TypeLoopEnded
<1>3. UNCHANGED <<rows, claimed, due, mix, boots, up, run, pc, stopped, deleting, armed>>
  BY DEF LoopEnded
<1>4. up \/ DownInv'
  <2>1. ~up => todo' = <<>>
    BY DEF LoopEnded
  <2> QED
    BY <1>1, <1>3, <2>1 DEF DownInv, Live
<1> QED
  BY <1>2, <1>3, <1>4, MuteStep

LEMMA StopStep ==
  ASSUME IInv, StopDaemon
  PROVE  IInv'
<1> USE DEF rowVars, fireVars, liveVars, procVars, sessVars, histVars
<1>1. TypeOK /\ CoreInv
  BY DEF IInv
<1>2. CoreInv' /\ Mute /\ TypeOK'
  BY <1>1, StopCore, TypeStop
<1>3. UNCHANGED <<rows, claimed, due, mix, boots, up, run>> /\ up
  BY DEF StopDaemon, Idle
<1> QED
  BY <1>2, <1>3, MuteStep

LEMMA DeleteStep ==
  ASSUME IInv, NEW r \in Routines, Delete(r)
  PROVE  IInv'
<1> USE DEF rowVars, fireVars, liveVars, procVars, sessVars, histVars
<1>1. TypeOK /\ CoreInv
  BY DEF IInv
<1>2. CoreInv' /\ Mute /\ TypeOK'
  BY <1>1, DeleteCore, TypeDelete
<1>3. UNCHANGED <<rows, claimed, due, mix, boots, up>> /\ up
  BY DEF Delete, Idle
<1>4. \A y \in Runs : run'[y].status = "none" <=> run[y].status = "none"
  <2>1. ASSUME NEW y \in Runs
        PROVE  run'[y].status = "none" <=> run[y].status = "none"
    <3>1. run[y].status = "queued" => Row(y, "cancelled").status = "ended"
      BY <1>1, RowType
    <3>2. run'[y] = IF run[y].routine = r /\ run[y].status = "queued" THEN Row(y, "cancelled") ELSE run[y]
      BY DEF Delete
    <3> QED
      BY <3>1, <3>2
  <2> QED
    BY <2>1
<1> QED
  BY <1>2, <1>3, <1>4, MuteStep

LEMMA DeletedStep ==
  ASSUME IInv, NEW r \in Routines, Deleted(r)
  PROVE  IInv'
<1> USE DEF rowVars, fireVars, liveVars, procVars, sessVars, histVars
<1>1. TypeOK /\ CoreInv /\ FiresInv
  BY DEF IInv
<1>2. CoreInv' /\ TypeOK'
  BY <1>1, DeletedCore, TypeDeleted
<1>3. FiresInv'
  BY <1>1, <1>2, DeletedFires
<1>4. DownInv'
  BY UpStays DEF Deleted, Idle
<1> QED
  BY <1>2, <1>3, <1>4 DEF IInv

LEMMA ExitStep ==
  ASSUME IInv, Exit
  PROVE  IInv'
<1> USE DEF rowVars, fireVars, liveVars, procVars, sessVars, histVars
<1>1. TypeOK /\ CoreInv /\ FiresInv
  BY DEF IInv
<1>2. CoreInv' /\ TypeOK' /\ Live' = {}
  BY <1>1, ExitCore, TypeExit
<1>3. FiresInv'
  BY <1>1, <1>2, ExitFires
<1>4. DownInv'
  BY <1>2 DEF DownInv, Exit
<1> QED
  BY <1>2, <1>3, <1>4 DEF IInv

LEMMA BootStep ==
  ASSUME IInv, Boot
  PROVE  IInv'
<1> USE DEF rowVars, fireVars, liveVars, procVars, sessVars, histVars
<1>1. TypeOK /\ CoreInv /\ DownInv /\ FiresInv
  BY DEF IInv
<1>2. CoreInv' /\ Mute /\ TypeOK' /\ \A x \in Runs : run'[x].status = "none" <=> run[x].status = "none"
  BY <1>1, BootCore, TypeBoot
<1>3. UNCHANGED <<rows, claimed, due, mix, exists, deleting>> /\ ~up /\ up' /\ boots' = boots + 1
  BY DEF Boot
<1>4. Crashes' = Crashes
  <2>1. boots \in 1 .. MaxBoots /\ MaxBoots \in Nat
    BY <1>1, Facts DEF TypeOK
  <2> QED
    BY <1>3, <2>1 DEF Crashes
<1>5. Steady
  BY <1>2, <1>3, <1>4 DEF Steady
<1>6. AskOf(todo)' = AskOf(todo)
  BY <1>2, AskNone DEF Mute
<1>7. FiresInv'
  BY <1>1, <1>2, <1>3, <1>5, <1>6, SteadyFires
<1>8. DownInv'
  BY <1>3 DEF DownInv
<1> QED
  BY <1>2, <1>7, <1>8 DEF IInv

\* Every step, by the lemma of its kind.
LEMMA NextStep ==
  ASSUME IInv, Next
  PROVE  IInv'
<1>1. CASE Sync
  <2>1. CASE ListDue \/ ClaimFire \/ RecordSkip \/ Admit \/ DrainEnds \/ DrainSkips \/ DrainStarts
    BY <2>1, PassStep, ClaimStep, PopsStep, AdmitStep, SkipsStep, LivesStep
  <2>2. CASE Begin \/ Work \/ Finishing \/ LoopStart \/ PortStart \/ LoopRecord
    BY <2>2, BeginStep, WorkStep, FinishingStep, LoopStartStep, PortStartStep, RecordStep
  <2>3. CASE FollowLoops \/ RecordOutcome \/ AutoPause \/ Forget
    BY <2>3, PopsStep, FollowStep, LivesStep
  <2> QED
    BY <1>1, <2>1, <2>2, <2>3 DEF Sync
<1>2. CASE Tick \/ StopDaemon \/ Exit \/ Boot
  BY <1>2, PassStep, StopStep, ExitStep, BootStep
<1>3. ASSUME NEW r \in Routines, FallsDue(r) \/ Pause(r) \/ Resume(r) \/ Delete(r) \/ Deleted(r)
      PROVE  IInv'
  BY <1>3, OwnerStep, DeleteStep, DeletedStep
<1>4. ASSUME NEW r \in Routines, NEW manual \in BOOLEAN, Fire(r, manual)
      PROVE  IInv'
  BY <1>4, FireStep
<1>5. ASSUME NEW x \in Runs, Executes(x)
      PROVE  IInv'
  BY <1>5, RestEndsStep, CreatedStep, SessionStep DEF Executes
<1>6. ASSUME NEW x \in Runs, StartsWindDown(x) \/ CancelRun(x) \/ AgentTurns(x) \/ OwnerTalks(x) \/ OwnerDone(x)
      PROVE  IInv'
  BY <1>6, SessionStep, CancelStep
<1>7. ASSUME NEW x \in Runs, NEW end \in LoopEnds, LoopEnded(x, end)
      PROVE  IInv'
  BY <1>7, LoopEndedStep
<1> QED
  BY <1>1, <1>2, <1>3, <1>4, <1>5, <1>6, <1>7 DEF Next

LEMMA StutterStep ==
  ASSUME IInv, UNCHANGED vars
  PROVE  IInv'
<1> USE DEF vars, rowVars, fireVars, liveVars, procVars, sessVars, histVars
<1>1. TypeOK /\ QueueInv /\ RunsInv /\ LiveInv /\ OverlapInv /\ ArmedInv /\ DownInv /\ DueInv /\ FireInv /\ RoomInv
  BY DEF IInv, CoreInv, FiresInv
<1>2. TypeOK'
  BY <1>1 DEF TypeOK
<1>3. Live' = Live /\ (\A x \in Runs : Closes(x)' <=> Closes(x)) /\ (\A op, x : Now(op, x)' <=> Now(op, x))
  BY DEF Live, Closes, Now
<1>4. \A x \in Runs : Other(x)
  BY <1>3 DEF Other
<1>5. QueueInv'
  BY <1>1, <1>3 DEF QueueInv
<1>6. RunsInv'
  BY <1>1, <1>4, OtherRun DEF RunsInv
<1>7. LiveInv'
  <2>1. \A x \in Live : x \in Runs /\ LiveOK(x)
    BY <1>1 DEF LiveInv, Live
  <2>2. \A x \in Live : LiveOK(x)'
    BY <1>4, <2>1, OtherLive
  <2>3. Alone'
    BY <1>1, <1>3 DEF LiveInv, Alone
  <2> QED
    BY <1>3, <2>2, <2>3 DEF LiveInv
<1>8. OverlapInv'
  BY <1>1, SameActive
<1>9. ArmedInv'
  BY <1>1, <1>3 DEF ArmedInv, Ending, Live
<1>10. DownInv'
  BY <1>1, <1>3 DEF DownInv
<1>11. AskOf(todo)' = AskOf(todo) /\ Steady
  BY DEF Steady, Crashes
<1>12. FiresInv'
  BY <1>1, <1>2, <1>11, SteadyFires DEF IInv
<1> QED
  BY <1>2, <1>5, <1>6, <1>7, <1>8, <1>9, <1>10, <1>12 DEF IInv, CoreInv

\* A first start: nothing is there but the routines.
LEMMA Starts ==
  ASSUME Init
  PROVE  IInv
<1> USE DEF rowVars, fireVars, liveVars, procVars, sessVars, histVars
<1>1. /\ todo = <<>> /\ up /\ boots = 1 /\ deleting = {} /\ armed = {} /\ asks = 0 /\ stopped = FALSE
      /\ run = [x \in Runs |-> Empty] /\ loop = [x \in Runs |-> "none"] /\ pc = [x \in Runs |-> "off"]
      /\ due = [r \in Routines |-> FALSE] /\ claimed = [r \in Routines |-> 0]
      /\ rows = [r \in Routines |-> [k \in 1 .. MaxDue |-> 0]] /\ mix \in Mixes
  BY DEF Init
<1>2. TypeOK
  <2>1. /\ enabled \in [Routines -> BOOLEAN] /\ exists \in [Routines -> BOOLEAN]
        /\ streak \in [Routines -> Nat] /\ kept \in [Routines -> Runs \cup {NoRun}]
        /\ due \in [Routines -> BOOLEAN]
    BY DEF Init
  <2>2. claimed \in [Routines -> 0 .. MaxDue] /\ rows \in [Routines -> [1 .. MaxDue -> Nat]]
    BY <1>1, Facts
  <2>3. Empty \in RunType
    BY DEF Empty, RunType
  <2>4. run \in [Runs -> RunType]
    BY <1>1, <2>3
  <2>5. /\ loop \in [Runs -> {"none", "active", "over"} \cup LoopEnds]
        /\ pc \in [Runs -> {"off", "begin", "check", "create", "send", "wait", "windDown"}]
        /\ stop \in [Runs -> {"no", "cancelled", "interrupted"}]
        /\ ends \in [Runs -> Results \cup {"none"}] /\ home \in [Runs -> Runs \cup {NoRun}]
        /\ turn \in [Runs -> {"none", "gone", "idle", "run", "owner", "parked"}]
    BY DEF Init
  <2>6. boots \in 1 .. MaxBoots /\ asks \in 0 .. MaxAsks
    BY <1>1, Facts
  <2>7. todo \in Seq(Frames)
    BY <1>1, Empties
  <2> QED
    BY <1>1, <2>1, <2>2, <2>4, <2>5, <2>6, <2>7 DEF TypeOK, RunType
<1>3. Live = {} /\ \A x \in Runs : run[x].status = "none" /\ run[x].routine = "none" /\ ~run[x].loop /\ loop[x] = "none"
  BY <1>1 DEF Live, Empty
<1>4. QueueInv
  BY <1>1, Empties DEF QueueInv, Closes, Now
<1>5. RunsInv
  BY <1>1, <1>3 DEF RunsInv, RunOK, Active
<1>6. OverlapInv
  BY <1>3 DEF OverlapInv, ActiveRuns, Active
<1>7. LiveInv /\ ArmedInv /\ DownInv
  BY <1>1, <1>3 DEF LiveInv, Alone, ArmedInv, DownInv
<1>8. DueInv
  BY <1>1 DEF DueInv
<1>9. AskOf(todo) = {}
  BY <1>1, Empties, AskNone
<1>10. Lost = {}
  <2>1. \A r \in Routines : \A k \in 1 .. MaxDue : ~(k <= claimed[r])
    <3>1. \A r \in Routines : claimed[r] = 0
      BY <1>1
    <3> QED
      BY <3>1, Facts
  <2>2. \A r \in Routines : \A k \in 1 .. MaxDue : <<r, k>> \notin Lost
    BY <1>2, <2>1, LostIs
  <2> QED
    BY <1>2, <2>2, LostIs
<1>11. FireInv
  <2>1. \A i \in Spots : FireOK(i)
    BY <1>9, FireAsk
  <2>2. \A r \in Routines : \A k \in 1 .. MaxDue : rows[r][k] <= 1 /\ (k > claimed[r] => rows[r][k] = 0)
    BY <1>1
  <2>3. Cardinality(Lost) <= Crashes
    <3>1. Cardinality({}) = 0
      BY FS_EmptySet
    <3> QED
      BY <1>1, <1>10, <3>1 DEF Crashes
  <2> QED
    BY <2>1, <2>2, <2>3 DEF FireInv
<1>12. RoomInv
  <2>1. DueOf = {}
    BY <1>1 DEF DueOf
  <2>2. Cardinality(DueOf) = 0
    BY <2>1, FS_EmptySet
  <2> QED
    BY <1>2, <1>9, <2>2, Rooms
<1> QED
  BY <1>2, <1>4, <1>5, <1>6, <1>7, <1>8, <1>11, <1>12 DEF IInv, CoreInv, FiresInv

-----------------------------------------------------------------------------
(* What the invariant says of every reachable state.                           *)

(* The invariant holds of every behaviour of the scheduler: service.ts keeps   *)
(* the live set, the rows, the loops and the sessions of its routines in step  *)
(* over every statement, await, request, crash and start.                      *)
THEOREM RoutinesHold == Spec => []IInv
<1>1. Init => IInv
  BY Starts
<1>2. IInv /\ [Next]_vars => IInv'
  BY NextStep, StutterStep
<1> QED
  BY <1>1, <1>2, PTL DEF Spec

(* Type correctness of the scheduler, the statements still to come included:   *)
(* each names a run, a routine and a fire that can be there.                   *)
THEOREM TypeCorrect == Spec => []TypeOK
<1>1. IInv => TypeOK
  BY DEF IInv
<1> QED
  BY <1>1, RoutinesHold, PTL

\* From pairs and triples to the number of active runs.
LEMMA AtMostOne ==
  ASSUME NEW S, \A x, y \in S : x = y
  PROVE  IsFiniteSet(S) /\ Cardinality(S) <= 1 /\ Cardinality(S) \in Nat
<1>1. CASE S = {}
  BY <1>1, FS_EmptySet
<1>2. CASE S # {}
  <2>1. PICK x \in S : S = {x}
    BY <1>2
  <2>2. IsFiniteSet({x}) /\ Cardinality({x}) = 1
    BY FS_Singleton
  <2> QED
    BY <2>1, <2>2
<1> QED
  BY <1>1, <1>2

LEMMA AtMostTwo ==
  ASSUME NEW S, \A x, y, z \in S : x = y \/ y = z \/ x = z
  PROVE  Cardinality(S) <= 2
<1>1. CASE S = {}
  BY <1>1, FS_EmptySet
<1>2. CASE S # {}
  <2>1. PICK x \in S : TRUE
    BY <1>2
  <2>2. \A y, z \in S \ {x} : y = z
    BY <2>1
  <2>3. IsFiniteSet(S \ {x}) /\ Cardinality(S \ {x}) <= 1 /\ Cardinality(S \ {x}) \in Nat
    BY <2>2, AtMostOne
  <2>4. Cardinality((S \ {x}) \cup {x}) = Cardinality(S \ {x}) + 1
    BY <2>3, FS_AddElement
  <2>5. (S \ {x}) \cup {x} = S
    BY <2>1
  <2> QED
    BY <2>3, <2>4, <2>5
<1> QED
  BY <1>1, <1>2

(* The overlap policy of admit and drain: a routine that skips never has two   *)
(* runs open, one that queues never three, whatever was in flight when a loop  *)
(* ended, the owner cancelled or deleted, or the process died.                 *)
THEOREM NeverOverlaps == Spec => []OverlapHolds
<1>1. IInv => OverlapHolds
  <2> SUFFICES ASSUME OverlapInv, NEW r \in Routines
               PROVE  Cardinality(ActiveRuns(r)) <= IF r \in Queued THEN 2 ELSE 1
    BY DEF IInv, CoreInv, OverlapHolds
  <2>1. CASE r \in Queued
    BY <2>1, AtMostTwo DEF OverlapInv
  <2>2. CASE r \notin Queued
    BY <2>2, AtMostOne DEF OverlapInv
  <2> QED
    BY <2>1, <2>2
<1> QED
  BY <1>1, RoutinesHold, PTL

(* The loop a routine started is its only one, and between handlers the run it *)
(* names is open and follows it, over the crash between startLoop and the      *)
(* statement that records it, and the start that links the two again.          *)
THEOREM LoopsAreFollowed == Spec => []LoopIsFollowed
<1>1. IInv => LoopIsFollowed
  <2> SUFFICES ASSUME IInv, NEW x \in Runs, loop[x] = "active"
               PROVE  /\ \A y \in Runs \ {x} : loop[y] = "active" => run[y].routine # run[x].routine
                      /\ Idle => run[x].status = "running" /\ run[x].loop /\ exists[run[x].routine]
    BY DEF LoopIsFollowed
  <2>1. OverlapInv /\ \A y \in Runs : RunOK(y)
    BY DEF IInv, CoreInv, RunsInv
  <2>2. \A y \in Runs : loop[y] = "active" => run[y].status = "running" /\ run[y].routine \in Looped /\ y \in ActiveRuns(run[y].routine)
    BY <2>1 DEF RunOK, ActiveRuns, Active
  <2>3. ASSUME NEW y \in Runs, loop[y] = "active", run[y].routine = run[x].routine
        PROVE  y = x
    <3>1. run[x].routine \in Routines \ Queued
      BY <2>2, Facts
    <3> QED
      BY <2>1, <2>2, <2>3, <3>1 DEF OverlapInv
  <2>4. ASSUME Idle
        PROVE  run[x].status = "running" /\ run[x].loop /\ exists[run[x].routine]
    BY <2>1, <2>4 DEF RunOK, Idle, Now, Active
  <2> QED
    BY <2>3, <2>4
<1> QED
  BY <1>1, RoutinesHold, PTL

(* A session acts without asking only while a live run has it: each end of an  *)
(* execution, by its check, its owner, its deadline, a throw or a crash, takes *)
(* the autonomy away before the run is forgotten.                              *)
THEOREM ArmedAreLive == Spec => []ArmedOnlyLive
<1>1. IInv => ArmedOnlyLive
  BY DEF IInv, CoreInv, ArmedInv, ArmedOnlyLive
<1> QED
  BY <1>1, RoutinesHold, PTL

(* claimFire and admit: a scheduled fire becomes one row at most, and only a   *)
(* crash between its claim and its row loses it, one fire a crash.             *)
THEOREM FiresAreCounted == Spec => []FiresAccounted
<1>1. IInv => FiresAccounted
  BY DEF IInv, FiresInv, FireInv, FiresAccounted
<1> QED
  BY <1>1, RoutinesHold, PTL

=============================================================================
