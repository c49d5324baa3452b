------------------------- MODULE DispatchTurnProofs --------------------------
(* What DispatchProofs leaves: the properties that depend on what a turn still *)
(* has to do.  The statements of `todo` are obligations, and each invariant    *)
(* says what the obligations that are left make good.                          *)
(*   LastInv, PassInv   the order of a turn: what a pass goes on with is last, *)
(*                      and nothing of a pass runs while it awaits a call      *)
(*   SettleInv          the reports a turn owes the loops (SettledOnce)        *)
(*   DutyInv            what each item, the awaited call and the loop host     *)
(*                      know of the row they are about (WatchesExact)          *)
(*   ToldInv            an end that is not told yet is about to be told        *)
(*                      (OutcomesTold)                                         *)
(*   OrphanInv          a worker no row needs is about to be torn down         *)
(*                      (WorkersOwned)                                         *)
EXTENDS DispatchProofs

-----------------------------------------------------------------------------
(* The order of a turn.  What a pass still has to claim, admit or answer for   *)
(* is the last item of its turn, and nothing of a pass runs while it awaits a  *)
(* call: the flag of the tick is up until both are over.                       *)
PassOps == {"claim", "admit", "pump", "throw"}
LastOps == PassOps \cup {"resume"}
Due(q) == {q[k] : k \in DOMAIN q}
Mild(q) == q \in Seq(Items) /\ \A i \in Due(q) : i.op \notin LastOps

LastInv == \A k \in DOMAIN todo : todo[k].op \in LastOps => k = Len(todo)
PassInv ==
    /\ exec.step # "none" => tick = "run" /\ \A i \in Due(todo) : i.op \notin PassOps
    /\ (\E i \in Due(todo) : i.op \in PassOps) => tick = "run"

LEMMA Pair == ASSUME NEW S, NEW i \in S, NEW j \in S PROVE <<i>> \o <<j>> = <<i, j>>
<1>1. PICK p : p = <<i>> \o <<j>>
  OBVIOUS
<1>2. p \in Seq(S) /\ Len(p) = 2 /\ p[1] = i /\ p[2] = j
  BY <1>1
<1>3. PICK q : q = <<i, j>>
  OBVIOUS
<1>4. q \in Seq(S) /\ Len(q) = 2 /\ q[1] = i /\ q[2] = j
  BY <1>3
<1>5. \A k \in 1..2 : k = 1 \/ k = 2
  OBVIOUS
<1>6. p = q
  BY <1>2, <1>4, <1>5, SeqEqual
<1> QED
  BY <1>1, <1>3, <1>6

LEMMA DueFew == Due(<<>>) = {} /\ \A i, j : Due(<<i>>) = {i} /\ Due(<<i, j>>) = {i, j}
<1>1. \A i : Due(<<i>>) = {i}
  BY DEF Due
<1>2. ASSUME NEW i, NEW j PROVE Due(<<i, j>>) = {i, j}
  <2>1. DOMAIN <<i, j>> = {1, 2} /\ <<i, j>>[1] = i /\ <<i, j>>[2] = j
    OBVIOUS
  <2> QED
    BY <2>1 DEF Due
<1> QED
  BY <1>1, <1>2 DEF Due

\* What is due of two lists is due of both together.
LEMMA DueJoin ==
    ASSUME NEW p \in Seq(Items), NEW q \in Seq(Items)
    PROVE  Due(p \o q) = Due(p) \cup Due(q) /\ Due(p) \subseteq Items
<1>1. Due(p) \subseteq Items
  BY DEF Due
<1>2. Due(p \o q) \subseteq Due(p) \cup Due(q)
  <2> SUFFICES ASSUME NEW k \in DOMAIN (p \o q) PROVE (p \o q)[k] \in Due(p) \cup Due(q)
    BY DEF Due
  <2>1. CASE k <= Len(p)
    BY <2>1 DEF Due
  <2>2. CASE k > Len(p)
    <3>1. (p \o q)[k] = q[k - Len(p)] /\ k - Len(p) \in 1..Len(q)
      BY <2>2
    <3> QED
      BY <3>1 DEF Due
  <2> QED
    BY <2>1, <2>2
<1>3. Due(p) \subseteq Due(p \o q)
  <2> SUFFICES ASSUME NEW k \in DOMAIN p PROVE p[k] \in Due(p \o q)
    BY DEF Due
  <2>1. k \in DOMAIN (p \o q) /\ (p \o q)[k] = p[k]
    OBVIOUS
  <2> QED
    BY <2>1 DEF Due
<1>4. Due(q) \subseteq Due(p \o q)
  <2> SUFFICES ASSUME NEW k \in DOMAIN q PROVE q[k] \in Due(p \o q)
    BY DEF Due
  <2>1. Len(p) + k \in DOMAIN (p \o q) /\ (p \o q)[Len(p) + k] = q[k]
    OBVIOUS
  <2> QED
    BY <2>1 DEF Due
<1> QED
  BY <1>1, <1>2, <1>3, <1>4

LEMMA DueHead ==
    ASSUME TypeOK, todo # <<>>
    PROVE  Due(todo) = {Head1} \cup Due(Tail(todo))
<1>1. /\ todo \in Seq(Items) /\ Len(todo) \in Nat /\ Len(todo) >= 1
      /\ \A k \in 1..(Len(todo) - 1) : Tail(todo)[k] = todo[k + 1]
      /\ DOMAIN Tail(todo) = 1..(Len(todo) - 1) /\ DOMAIN todo = 1..Len(todo)
  BY DEF TypeOK
<1>2. Due(todo) \subseteq {Head1} \cup Due(Tail(todo))
  <2> SUFFICES ASSUME NEW k \in 1..Len(todo), k # 1 PROVE todo[k] \in Due(Tail(todo))
    BY <1>1 DEF Due, Head1
  <2>1. k - 1 \in 1..(Len(todo) - 1) /\ Tail(todo)[k - 1] = todo[k]
    BY <1>1
  <2> QED
    BY <1>1, <2>1 DEF Due
<1>3. Head1 \in Due(todo)
  BY <1>1 DEF Due, Head1
<1>4. Due(Tail(todo)) \subseteq Due(todo)
  BY <1>1 DEF Due
<1> QED
  BY <1>2, <1>3, <1>4

LEMMA DueGoes ==
    ASSUME TypeOK, todo # <<>>, NEW items \in Seq(Items), Goes(items)
    PROVE  Due(todo') = Due(items) \cup Due(Tail(todo))
<1>1. Tail(todo) \in Seq(Items)
  BY HeadIsItem
<1> QED
  BY <1>1, DueJoin DEF Goes

LEMMA MildFew ==
    /\ Mild(<<>>)
    /\ \A i \in Items : i.op \notin LastOps => Mild(<<i>>)
    /\ \A i, j \in Items : i.op \notin LastOps /\ j.op \notin LastOps => Mild(<<i, j>>)
<1>1. <<>> \in Seq(Items) /\ \A i, j \in Items : <<i>> \in Seq(Items) /\ <<i, j>> \in Seq(Items)
  OBVIOUS
<1> QED
  BY <1>1, DueFew DEF Mild

\* The items by their operation.
LEMMA MildMakers ==
    ASSUME NEW t \in Tasks, NEW g \in Nat, NEW s \in AnySession
    PROVE  /\ \A end \in {"idle", "error"} : Mild(<<Finish(s, t, g, end)>>)
           /\ Mild(<<Notice(t)>>) /\ Mild(<<Settle(t)>>) /\ Mild(<<Step("deliver")>>) /\ Mild(<<>>)
           /\ \A next : Mild(After(t, next, s))
<1> USE DEF PassOps, LastOps
<1>1. ASSUME NEW i \in Items, i.op \notin LastOps PROVE Mild(<<i>>)
  BY <1>1, MildFew
<1>2. \A end \in {"idle", "error"} : Mild(<<Finish(s, t, g, end)>>)
  BY <1>1, ItemTypes DEF Finish, Item
<1>3. Mild(<<Notice(t)>>) /\ Mild(<<Settle(t)>>) /\ Mild(<<Step("deliver")>>)
  BY <1>1, ItemTypes, StepType DEF Notice, Settle, Step, Item
<1>4. Mild(<<>>)
  BY MildFew
<1>5. ASSUME NEW next PROVE Mild(After(t, next, s))
  <2>1. PICK e : e = Emit(t, EventOf(next))
    OBVIOUS
  <2>2. e \in Items /\ e.op = "emit"
    BY <2>1, ItemTypes DEF Emit, Item, EventOf, TaskEvents
  <2>3. CASE After(t, next, s) = <<Settle(t)>> \/ After(t, next, s) = <<>>
    BY <1>3, <1>4, <2>3
  <2>4. CASE After(t, next, s) = <<e>> \o Teardown(t, s)
    <3>1. CASE Teardown(t, s) = <<>>
      BY <1>1, <2>2, <2>4, <3>1
    <3>2. CASE s # NoSession /\ Teardown(t, s) = <<Destroy(s)>>
      <4>1. PICK d : d = Destroy(s)
        OBVIOUS
      <4>2. d \in Items /\ d.op = "destroy"
        BY <3>2, <4>1, ItemTypes DEF Destroy, Item
      <4>3. After(t, next, s) = <<e, d>>
        BY <2>2, <2>4, <3>2, <4>1, <4>2, Pair
      <4> QED
        BY <2>2, <4>2, <4>3, MildFew
    <3> QED
      BY <3>1, <3>2 DEF Teardown
  <2> QED
    BY <2>1, <2>3, <2>4 DEF After
<1> QED
  BY <1>2, <1>3, <1>4, <1>5

(* A statement leaves mild items in its place, and one of a pass may go on     *)
(* with one more.                                                              *)
Follows(items) ==
    /\ todo # <<>> /\ Goes(items)
    /\ \/ Mild(items)
       \/ /\ Head1.op \in PassOps
          /\ \E p, i : Mild(p) /\ i \in Items /\ i.op \in PassOps /\ items = p \o <<i>>

LEMMA TurnFollows ==
    ASSUME TypeOK, RunTurn
    PROVE  \E items \in Seq(Items) : Follows(items)
<1>0. /\ \A op \in {"claim", "pump"} : Step(op) \in Items /\ Step(op).op = op
      /\ \A p, i : Mild(p) /\ i \in Items => p \o <<i>> \in Seq(Items)
      /\ \A p : Mild(p) => p \in Seq(Items)
  <2>1. \A op \in {"claim", "pump"} : Step(op) \in Items /\ Step(op).op = op
    BY StepType DEF Step, Item
  <2>2. ASSUME NEW p, NEW i \in Items, Mild(p) PROVE p \o <<i>> \in Seq(Items)
    BY <2>2 DEF Mild
  <2> QED
    BY <2>1, <2>2 DEF Mild
<1>z. Mild(<<>>) /\ Mild(<<Step("deliver")>>)
  <2>1. PICK i \in Items : i = Step("deliver")
    BY StepType
  <2>2. i.op \notin LastOps
    BY <2>1 DEF Step, Item, PassOps, LastOps
  <2> QED
    BY <2>1, <2>2, MildFew
<1>1. ASSUME NEW items, Mild(items), Goes(items), todo # <<>> PROVE \E q \in Seq(Items) : Follows(q)
  BY <1>0, <1>1 DEF Follows
<1>2. ASSUME NEW p, NEW i \in Items, Mild(p), i.op \in PassOps, Head1.op \in PassOps, Goes(p \o <<i>>), todo # <<>>
      PROVE  \E q \in Seq(Items) : Follows(q)
  BY <1>0, <1>2 DEF Follows
<1>3. CASE RunReclaimed
  <2>1. Mild(After(Head1.task, status[Head1.task], worker[Head1.task]))
    BY <1>3, TaskItem, WorkerType, MildMakers, 0 \in Nat DEF RunReclaimed
  <2> QED
    BY <1>1, <1>3, <2>1 DEF RunReclaimed, Doing
<1>4. CASE RunRenew \/ RunExecute \/ RunSettle \/ RunDestroy \/ RunDeliver \/ RunGroupedSend
  <2>1. Goes(<<>>) /\ todo # <<>>
    BY <1>4 DEF RunRenew, RunExecute, RunSettle, RunDestroy, RunDeliver, RunGroupedSend, Doing
  <2> QED
    BY <1>1, <1>z, <2>1
<1>5. CASE RunNothingReady \/ RunDefer
  <2>1. todo # <<>> /\ Head1.op \in PassOps /\ \E op \in {"pump", "claim"} : Goes(<<Step(op)>>)
    BY <1>5 DEF RunNothingReady, RunDefer, Doing, PassOps
  <2>2. PICK op \in {"pump", "claim"} : Goes(<<Step(op)>>)
    BY <2>1
  <2>3. Goes(<<>> \o <<Step(op)>>) /\ Step(op).op \in PassOps
    BY <1>0, <2>2 DEF PassOps
  <2> QED
    BY <1>0, <1>2, <1>z, <2>1, <2>3
<1>6. CASE RunClaim
  <2>1. PICK t \in Tasks : Goes(<<Admit(t)>>)
    BY <1>6 DEF RunClaim
  <2>2. PICK a : a = Admit(t)
    OBVIOUS
  <2>3. a \in Items /\ a.op = "admit"
    BY <2>2, ItemTypes, 0 \in Nat, NoSession \in AnySession DEF Admit, Item, AnySession
  <2>4. Goes(<<>> \o <<a>>) /\ a.op \in PassOps /\ Head1.op \in PassOps /\ todo # <<>>
    BY <1>6, <2>1, <2>2, <2>3 DEF PassOps, RunClaim, Doing
  <2> QED
    BY <1>2, <1>z, <2>3, <2>4
<1>7. CASE RunGroupedRewatch
  <2> DEFINE f(end) == Finish(Target[Head1.task], Head1.task, generation[Head1.task], end)
             h == Throw(Target[Head1.task], Head1.task, generation[Head1.task], "final")
  <2>1. /\ todo # <<>> /\ Head1.op \in PassOps
        /\ \/ Goes(<<h>>) \/ Goes(<<Step("claim")>>)
           \/ \E end \in {"idle", "error"} : Goes(<<f(end), Step("claim")>>)
    BY <1>7 DEF RunGroupedRewatch, Doing, PassOps
  <2>2. Head1.task \in Tasks /\ Target[Head1.task] \in AnySession /\ generation[Head1.task] \in Nat
    BY <1>7, TaskItem, TargetAssumption, WorkerType DEF RunGroupedRewatch, AnySession
  <2>3. h \in Items /\ h.op = "throw" /\ \A end \in {"idle", "error"} : f(end) \in Items /\ Mild(<<f(end)>>)
    BY <2>2, ItemTypes, MildMakers DEF Throw, Item
  <2> HIDE DEF f, h
  <2>4. CASE Goes(<<h>>)
    <3>1. Goes(<<>> \o <<h>>) /\ h.op \in PassOps
      BY <2>3, <2>4 DEF PassOps
    <3> QED
      BY <1>2, <1>z, <2>1, <2>3, <3>1
  <2>5. CASE Goes(<<Step("claim")>>)
    <3>1. Goes(<<>> \o <<Step("claim")>>) /\ Step("claim").op \in PassOps
      BY <1>0, <2>5 DEF PassOps
    <3> QED
      BY <1>0, <1>2, <1>z, <2>1, <3>1
  <2>6. ASSUME NEW end \in {"idle", "error"}, Goes(<<f(end), Step("claim")>>) PROVE \E q \in Seq(Items) : Follows(q)
    <3>1. <<f(end)>> \o <<Step("claim")>> = <<f(end), Step("claim")>>
      BY <1>0, <2>3, Pair
    <3>2. Goes(<<f(end)>> \o <<Step("claim")>>) /\ Step("claim").op \in PassOps
      BY <1>0, <2>6, <3>1 DEF PassOps
    <3> QED
      BY <1>0, <1>2, <2>1, <2>3, <3>2
  <2> QED
    BY <2>1, <2>4, <2>5, <2>6
<1>8. CASE RunThrow
  <2>1. Head1.task \in Tasks /\ Head1.sess \in AnySession /\ todo # <<>> /\ Head1.op \in PassOps
    BY <1>8, TaskItem DEF RunThrow, Doing, PassOps
  <2>2. \E p : Mild(p) /\ Goes(p \o <<Step("claim")>>)
    <3>1. CASE Goes(<<Step("claim")>>)
      <4>1. Goes(<<>> \o <<Step("claim")>>)
        BY <1>0, <3>1
      <4> QED
        BY <1>z, <4>1
    <3>2. ASSUME NEW next, Goes(After(Head1.task, next, Head1.sess) \o <<Step("claim")>>)
          PROVE  \E p : Mild(p) /\ Goes(p \o <<Step("claim")>>)
      BY <2>1, <3>2, MildMakers, 0 \in Nat
    <3> QED
      BY <1>8, <3>1, <3>2 DEF RunThrow
  <2> QED
    BY <1>0, <1>2, <2>1, <2>2 DEF PassOps
<1>9. CASE RunFinish
  <2>1. Head1.task \in Tasks /\ Head1.sess \in AnySession /\ todo # <<>>
    BY <1>9, TaskItem DEF RunFinish, Doing
  <2>2. \/ Goes(<<>>)
        \/ \E next \in Statuses : Goes(After(Head1.task, next, Head1.sess))
    BY <1>9, FailureStatus DEF RunFinish, Statuses
  <2> QED
    BY <1>1, <1>z, <2>1, <2>2, MildMakers, 0 \in Nat
<1>10. CASE RunEmit
  <2>1. todo # <<>> /\ (Goes(<<>>) \/ Goes(<<Step("deliver")>>))
    BY <1>10 DEF RunEmit, Doing
  <2> QED
    BY <1>1, <1>z, <2>1
<1>11. CASE RunWedge
  <2>1. Head1.task \in Tasks /\ todo # <<>> /\ (Goes(<<>>) \/ Goes(<<Notice(Head1.task)>>))
    BY <1>11, TaskItem DEF RunWedge, Doing
  <2>2. Mild(<<Notice(Head1.task)>>)
    BY <2>1, MildMakers, 0 \in Nat, NoSession \in AnySession DEF AnySession
  <2> QED
    BY <1>1, <1>z, <2>1, <2>2
<1>12. CASE RunResume
  <2> DEFINE t == Head1.task
             f(end) == Finish(worker[t], t, Head1.generation, end)
  <2>1. t \in Tasks /\ worker[t] \in AnySession /\ Head1.generation \in Nat /\ todo # <<>>
    BY <1>12, TaskItem, WorkerType DEF RunResume, Doing
  <2>2. Goes(<<>>) \/ Goes(<<Settle(t)>>) \/ \E end \in {"idle", "error"} : Goes(<<f(end)>>)
    BY <1>12 DEF RunResume
  <2>3. Mild(<<Settle(t)>>) /\ \A end \in {"idle", "error"} : Mild(<<f(end)>>)
    BY <2>1, MildMakers
  <2> HIDE DEF f, t
  <2> QED
    BY <1>1, <1>z, <2>1, <2>2, <2>3
<1> QED
  BY <1>3, <1>4, <1>5, <1>6, <1>7, <1>8, <1>9, <1>10, <1>11, <1>12 DEF RunTurn


\* A loop over a set goes through all of it.
LEMMA OrderAll ==
    ASSUME NEW S, IsFiniteSet(S), NEW order \in Orders(S)
    PROVE  /\ order \in Seq(S) /\ {order[k] : k \in DOMAIN order} = S
           /\ \A j, k \in DOMAIN order : order[j] = order[k] => j = k
<1>1. /\ Cardinality(S) \in Nat /\ order \in [1..Cardinality(S) -> S] /\ order \in Seq(S)
      /\ \A j, k \in DOMAIN order : order[j] = order[k] => j = k
  BY OrderType DEF Orders
<1>2. order \in Injection(1..Cardinality(S), S)
  BY <1>1 DEF Injection, IsInjective
<1>3. Cardinality(1..Cardinality(S)) = Cardinality(S)
  BY <1>1, FS_Interval, 1 \in Int, Cardinality(S) \in Int
<1>4. order \in Surjection(1..Cardinality(S), S)
  BY <1>2, <1>3, FS_Injection
<1> QED
  BY <1>1, <1>4 DEF Surjection

\* The lists that begin a turn.
LEMMA StaleList ==
    ASSUME NEW order \in Orders({t \in Tasks : Stale(t)}),
           NEW q, q = [i \in DOMAIN order |-> Reclaimed(order[i])]
    PROVE  /\ q \in Seq(Items) /\ Due(q) = {Reclaimed(t) : t \in {u \in Tasks : Stale(u)}}
           /\ \A j, k \in DOMAIN q : q[j] = q[k] => j = k
<1> DEFINE S == {t \in Tasks : Stale(t)}
<1>1. IsFiniteSet(S)
  BY FS_Subset, GroupAssumption
<1>2. /\ order \in Seq(S) /\ {order[k] : k \in DOMAIN order} = S
      /\ \A j, k \in DOMAIN order : order[j] = order[k] => j = k
  BY <1>1, OrderAll
<1>3. \A t \in Tasks : Reclaimed(t) \in Items /\ Reclaimed(t).task = t
  BY ItemTypes, 0 \in Nat, NoSession \in AnySession DEF Reclaimed, Item, AnySession
<1>4. q \in Seq(Items) /\ DOMAIN q = DOMAIN order
  <2>1. DOMAIN order = 1..Len(order) /\ Len(order) \in Nat /\ \A i \in DOMAIN order : order[i] \in Tasks
    BY <1>2
  <2>2. q \in [1..Len(order) -> Items]
    BY <1>3, <2>1
  <2> QED
    BY <2>1, <2>2, SeqOf
<1>5. \A j, k \in DOMAIN q : q[j] = q[k] => j = k
  <2> SUFFICES ASSUME NEW j \in DOMAIN q, NEW k \in DOMAIN q, q[j] = q[k] PROVE j = k
    OBVIOUS
  <2>1. q[j] = Reclaimed(order[j]) /\ q[k] = Reclaimed(order[k]) /\ order[j] \in Tasks /\ order[k] \in Tasks
    BY <1>2, <1>4
  <2>2. order[j] = order[k]
    BY <1>3, <2>1
  <2> QED
    BY <1>2, <1>4, <2>2
<1>6. Due(q) = {Reclaimed(t) : t \in S}
  BY <1>2, <1>4 DEF Due
<1> QED
  BY <1>4, <1>5, <1>6

LEMMA WatcherList ==
    ASSUME TypeOK, NEW s \in Sessions, NEW order \in Orders(Watchers(s))
    PROVE  /\ {order[k] : k \in DOMAIN order} = Watchers(s)
           /\ Due([i \in DOMAIN order |-> Wedge(s, order[i][2], order[i][3])])
                           = {Wedge(s, w[2], w[3]) : w \in Watchers(s)}
<1>1. IsFiniteSet(Watchers(s))
  BY FS_Subset, Watchers(s) \subseteq watched DEF TypeOK, Watchers
<1>2. {order[k] : k \in DOMAIN order} = Watchers(s)
  BY <1>1, OrderAll
<1> QED
  BY <1>2 DEF Due

\* The turn that the end of a session's work opens has one finish for each watcher.
LEMMA FinishList ==
    ASSUME TypeOK, NEW s \in Sessions, NEW end, SessionSettles(s, end)
    PROVE  Due(todo') = {Finish(s, w[2], w[3], end) : w \in Watchers(s)}
<1>1. PICK order \in Orders(Watchers(s)) :
          todo' = [i \in DOMAIN order |-> Finish(s, order[i][2], order[i][3], end)]
  BY DEF SessionSettles
<1>2. DOMAIN todo' = DOMAIN order /\ \A i \in DOMAIN order : todo'[i] = Finish(s, order[i][2], order[i][3], end)
  BY <1>1
<1>3. {order[k] : k \in DOMAIN order} = Watchers(s)
  BY WatcherList
<1> QED
  BY <1>2, <1>3 DEF Due

\* What every other step makes of the turn, the call and the pass.
LEMMA FreshItems ==
    ASSUME TypeOK, [Next]_vars, ~RunTurn
    PROVE  \/ UNCHANGED <<todo, exec, tick>>
           \/ UNCHANGED <<todo, tick>> /\ exec.step # "none"
           \/ UNCHANGED <<todo, exec>> /\ tick # "run"
           \/ UNCHANGED <<exec, tick>> /\ Mild(todo')
           \/ UNCHANGED <<exec, tick>> /\ \E i \in Items : i.op = "resume" /\ todo' = <<i>>
           \/ exec' = NoExec /\ todo' = <<>>
           \/ UNCHANGED exec /\ tick = "off" /\ tick' = "run"
              /\ \E q, i : Mild(q) /\ i \in Items /\ i.op \in PassOps /\ todo' = q \o <<i>>
           \/ exec.step # "none" /\ exec' = NoExec /\ tick' = tick
              /\ \E q, i : Mild(q) /\ i \in Items /\ i.op \in PassOps /\ todo' = q \o <<i>>
<1> USE DEF memory, world, history, table, task
<1>1. CASE enqueue \/ enqueueGroup
  BY <1>1 DEF enqueue, enqueueGroup
<1>2. CASE StartTick
  <2>1. PICK order \in Orders({t \in Tasks : Stale(t)}) :
            todo' = [i \in DOMAIN order |-> Reclaimed(order[i])] \o <<Step("renew"), Step("claim")>>
    BY <1>2 DEF StartTick
  <2>2. PICK rows : rows = [i \in DOMAIN order |-> Reclaimed(order[i])]
    OBVIOUS
  <2>3. rows \in Seq(Items) /\ Due(rows) = {Reclaimed(t) : t \in {u \in Tasks : Stale(u)}}
    BY <2>2, StaleList
  <2>4. PICK r, c \in Items : r = Step("renew") /\ c = Step("claim")
    BY StepType
  <2>5. r.op = "renew" /\ c.op = "claim" /\ \A t : Reclaimed(t).op = "reclaimed"
    BY <2>4 DEF Step, Item, Reclaimed
  <2>6. todo' = rows \o <<r, c>>
    BY <2>1, <2>2, <2>4
  <2>7. <<r, c>> = <<r>> \o <<c>>
    BY Pair
  <2>a. PICK x, y : x = <<r>> /\ y = <<c>>
    OBVIOUS
  <2>b. x \in Seq(Items) /\ y \in Seq(Items)
    BY <2>a
  <2>8. rows \o <<r, c>> = (rows \o <<r>>) \o <<c>> /\ rows \o <<r>> \in Seq(Items)
    <3>1. rows \o (x \o y) = (rows \o x) \o y /\ rows \o x \in Seq(Items)
      BY <2>3, <2>b, ConcatAssociative
    <3> QED
      BY <2>7, <2>a, <3>1
  <2>9. Due(rows \o <<r>>) = Due(rows) \cup {r}
    <3>1. Due(rows \o x) = Due(rows) \cup Due(x)
      BY <2>3, <2>b, DueJoin
    <3>2. Due(x) = {r}
      BY <2>a, DueFew
    <3> QED
      BY <2>a, <3>1, <3>2
  <2>10. Mild(rows \o <<r>>)
    BY <2>3, <2>5, <2>8, <2>9 DEF Mild, LastOps, PassOps
  <2> QED
    BY <1>2, <2>4, <2>5, <2>6, <2>8, <2>10 DEF StartTick, PassOps
<1>3. ASSUME NEW t \in Tasks, hold(t) PROVE UNCHANGED <<todo, exec, tick>>
  BY <1>3 DEF hold
<1>4. ASSUME NEW t \in Tasks, unhold(t)
      PROVE  UNCHANGED <<exec, tick>> /\ (Mild(todo') \/ \E i \in Items : i.op = "resume" /\ todo' = <<i>>)
  <2>1. generation[t] \in Nat
    BY WorkerType
  <2>2. Mild(<<Settle(t)>>) /\ Resume(t, generation[t]) \in Items
    BY <2>1, MildMakers, ItemTypes, NoSession \in AnySession DEF AnySession
  <2>3. Resume(t, generation[t]).op = "resume"
    BY DEF Resume, Item
  <2>4. todo' = <<Settle(t)>> \/ todo' = <<Resume(t, generation[t])>>
    BY <1>4 DEF unhold
  <2> QED
    BY <1>4, <2>2, <2>3, <2>4 DEF unhold
<1>5. ASSUME NEW t \in Tasks, cancel(t) PROVE UNCHANGED <<exec, tick>> /\ Mild(todo')
  <2>1. Mild(<<Settle(t)>>)
    BY MildMakers, 0 \in Nat, NoSession \in AnySession DEF AnySession
  <2> QED
    BY <1>5, <2>1 DEF cancel
<1>6. CASE sendToSession \/ continueWorker \/ spawnWorker
  BY <1>6 DEF sendToSession, continueWorker, spawnWorker
<1>z. Mild(<<>>) /\ Step("claim") \in Items /\ Step("claim").op = "claim"
  BY MildFew, StepType DEF Step, Item
<1>7. CASE HostThrows
  <2>1. exec.step # "none"
    BY <1>7 DEF HostThrows, Refusals
  <2>2. exec.task \in Tasks /\ exec.generation \in Nat /\ exec.sess \in AnySession
    BY <2>1, ExecTypes
  <2>3. PICK how \in {"retry", "final"} : todo' = <<Throw(exec.sess, exec.task, exec.generation, how)>>
    BY <1>7 DEF HostThrows, Refusals
  <2>4. PICK i \in Items : i = Throw(exec.sess, exec.task, exec.generation, how)
    BY <2>2, ItemTypes
  <2>5. i.op = "throw" /\ todo' = <<>> \o <<i>>
    BY <2>3, <2>4 DEF Throw, Item
  <2> QED
    BY <1>7, <1>z, <2>1, <2>5 DEF HostThrows, PassOps
<1>8. CASE Executed
  <2>1. exec.task \in Tasks
    BY <1>8, ExecTypes DEF Executed
  <2>2. PICK d : d = Destroy(exec.sess)
    OBVIOUS
  <2>3. Kind[exec.task] = "spawn" /\ exec.step = "landed" => d \in Items /\ d.op = "destroy"
    BY <1>8, <2>1, <2>2, ExecTypes, ItemTypes, 0 \in Nat, NamesAssumption DEF Executed, AnySession, Destroy, Item
  <2>4. \/ todo' = <<>> \o <<Step("claim")>>
        \/ Kind[exec.task] = "spawn" /\ exec.step = "landed" /\ todo' = <<d>> \o <<Step("claim")>>
    <3>1. \/ todo' = <<Step("claim")>>
          \/ todo' = <<>> \o <<Step("claim")>>
          \/ Kind[exec.task] = "spawn" /\ exec.step = "landed" /\ todo' = <<Destroy(exec.sess)>> \o <<Step("claim")>>
      BY <1>8 DEF Executed
    <3>2. <<Step("claim")>> = <<>> \o <<Step("claim")>>
      BY <1>z
    <3> QED
      BY <2>2, <3>1, <3>2
  <2>5. d \in Items /\ d.op = "destroy" => Mild(<<d>>)
    BY MildFew DEF LastOps, PassOps
  <2> QED
    BY <1>8, <1>z, <2>3, <2>4, <2>5 DEF Executed, PassOps
<1>9. CASE Deliveries
  BY <1>9 DEF Deliveries, DeliveryLands, MarkDelivered, DeliveryFails, AfterDelivery
<1>10. ASSUME NEW s \in Sessions, NEW end \in {"idle", "error"}, SessionSettles(s, end)
       PROVE  UNCHANGED <<exec, tick>> /\ Mild(todo')
  <2>1. PICK order \in Orders(Watchers(s)) :
            todo' = [i \in DOMAIN order |-> Finish(s, order[i][2], order[i][3], end)]
    BY <1>10 DEF SessionSettles
  <2>2. todo' \in Seq(Items) /\ Due(todo') = {Finish(s, w[2], w[3], end) : w \in Watchers(s)}
    <3>1. todo' \in Seq(Items)
      BY <2>1, WatcherLoop
    <3>2. Due(todo') = {Finish(s, w[2], w[3], end) : w \in Watchers(s)}
      BY <1>10, FinishList
    <3> QED
      BY <3>1, <3>2
  <2>3. \A w : Finish(s, w[2], w[3], end).op = "finish"
    BY DEF Finish, Item
  <2> QED
    BY <1>10, <2>2, <2>3 DEF SessionSettles, Mild, LastOps, PassOps
<1>11. ASSUME NEW s \in Sessions, SessionWaits(s) PROVE UNCHANGED <<exec, tick>> /\ Mild(todo')
  <2>1. PICK order \in Orders(Watchers(s)) :
            todo' = [i \in DOMAIN order |-> Wedge(s, order[i][2], order[i][3])]
    BY <1>11 DEF SessionWaits
  <2>2. todo' \in Seq(Items) /\ Due(todo') = {Wedge(s, w[2], w[3]) : w \in Watchers(s)}
    <3>1. todo' \in Seq(Items)
      BY <2>1, WatcherLoop
    <3>2. Due(todo') = {Wedge(s, w[2], w[3]) : w \in Watchers(s)}
      BY <2>1, WatcherList
    <3> QED
      BY <3>1, <3>2
  <2>3. \A w : Wedge(s, w[2], w[3]).op = "wedge"
    BY DEF Wedge, Item
  <2> QED
    BY <1>11, <2>2, <2>3 DEF SessionWaits, Mild, LastOps, PassOps
<1>12. CASE Crash
  BY <1>12 DEF Crash
<1>13. ASSUME NEW s \in Sessions, SessionApproved(s) \/ SessionPrompted(s) \/ SessionVanishes(s)
       PROVE  UNCHANGED <<todo, exec, tick>>
  BY <1>13 DEF SessionApproved, SessionPrompted, SessionVanishes
<1>14. CASE ConductorTurns \/ Time \/ UNCHANGED vars
  BY <1>14 DEF ConductorTurns, Time, LeaseExpires, HoldLapses, CoolsDown, vars
<1>15. CASE Execution \/ Handlers
  BY <1>1, <1>2, <1>6, <1>7, <1>8, <1>15 DEF Execution, Handlers
<1>16. CASE Loop
  BY <1>3, <1>4, <1>5, <1>16 DEF Loop
<1>17. CASE SessionSteps
  BY <1>10, <1>11, <1>13, <1>17 DEF SessionSteps
<1> QED
  BY <1>9, <1>12, <1>14, <1>15, <1>16, <1>17 DEF Next

LEMMA LastStep ==
    ASSUME TypeOK, TypeOK', LastInv, [Next]_vars
    PROVE  LastInv'
<1>1. CASE RunTurn
  <2>1. PICK items \in Seq(Items) : Follows(items)
    BY <1>1, TurnFollows
  <2>2. PICK rest \in Seq(Items) : rest = Tail(todo)
    BY <2>1, HeadIsItem DEF Follows
  <2>3. todo \in Seq(Items) /\ todo # <<>> /\ todo' = items \o rest
    BY <2>1, <2>2 DEF TypeOK, Follows, Goes
  <2>4. /\ Len(todo) \in Nat /\ Len(rest) = Len(todo) - 1 /\ Len(items) \in Nat
        /\ Len(todo') = Len(items) + Len(rest)
        /\ \A k \in 1..Len(rest) : rest[k] = todo[k + 1]
        /\ \A k \in 1..Len(todo') : /\ k <= Len(items) => todo'[k] = items[k]
                                    /\ k > Len(items) => todo'[k] = rest[k - Len(items)]
    BY <2>2, <2>3
  <2> SUFFICES ASSUME NEW k \in 1..Len(todo'), todo'[k].op \in LastOps PROVE k = Len(todo')
    BY <2>3 DEF LastInv
  <2>5. CASE k > Len(items)
    <3>1. k - Len(items) \in 1..Len(rest)
      BY <2>4, <2>5
    <3>2. todo[k - Len(items) + 1].op \in LastOps /\ k - Len(items) + 1 \in 1..Len(todo)
      BY <2>4, <2>5, <3>1
    <3>3. k - Len(items) + 1 = Len(todo)
      BY <2>3, <3>2 DEF LastInv
    <3> QED
      BY <2>4, <3>3
  <2>6. CASE k <= Len(items)
    <3>1. items[k] \in Due(items) /\ items[k].op \in LastOps
      BY <2>4, <2>6 DEF Due
    <3>2. ~Mild(items)
      BY <3>1 DEF Mild
    <3>3. Len(todo) = 1
      <4>1. todo[1].op \in LastOps /\ 1 \in DOMAIN todo
        BY <2>1, <2>3, <3>2 DEF Follows, Head1, LastOps
      <4> QED
        BY <4>1 DEF LastInv
    <3>4. PICK p, i : Mild(p) /\ i \in Items /\ items = p \o <<i>>
      BY <2>1, <3>2 DEF Follows
    <3>5. CASE k <= Len(p)
      <4>1. p \in Seq(Items) /\ items[k] = p[k] /\ k \in DOMAIN p
        BY <2>4, <2>6, <3>4, <3>5 DEF Mild
      <4> QED
        BY <3>1, <3>4, <4>1 DEF Mild, Due
    <3>6. CASE k > Len(p)
      <4>1. Len(items) = Len(p) + 1 /\ Len(p) \in Nat
        BY <3>4 DEF Mild
      <4> QED
        BY <2>4, <2>6, <3>3, <3>6, <4>1
    <3> QED
      BY <2>4, <3>4, <3>5, <3>6 DEF Mild
  <2> QED
    BY <2>4, <2>5, <2>6
<1>2. CASE ~RunTurn
  <2>1. CASE todo' = todo
    BY <2>1 DEF LastInv
  <2>2. ASSUME NEW q, Mild(q), NEW i \in Items, todo' = q \/ todo' = <<i>> \/ todo' = q \o <<i>> PROVE LastInv'
    <3>1. q \in Seq(Items) /\ \A k \in 1..Len(q) : q[k].op \notin LastOps
      BY <2>2 DEF Mild, Due
    <3>2. CASE todo' = q
      BY <3>1, <3>2 DEF LastInv
    <3>3. CASE todo' = <<i>>
      BY <3>3 DEF LastInv
    <3>4. CASE todo' = q \o <<i>>
      <4>1. Len(todo') = Len(q) + 1 /\ \A k \in 1..Len(q) : todo'[k] = q[k]
        BY <3>1, <3>4
      <4> QED
        BY <3>1, <3>4, <4>1 DEF LastInv
    <3> QED
      BY <2>2, <3>2, <3>3, <3>4
  <2>3. CASE todo' = <<>>
    BY <2>3 DEF LastInv
  <2>4. \/ todo' = todo \/ todo' = <<>> \/ Mild(todo')
        \/ \E i \in Items : todo' = <<i>>
        \/ \E q, i : Mild(q) /\ i \in Items /\ todo' = q \o <<i>>
    BY <1>2, FreshItems
  <2>5. Mild(<<>>) /\ \E i : i \in Items
    BY MildFew, StepType
  <2> QED
    BY <2>1, <2>2, <2>3, <2>4, <2>5
<1> QED
  BY <1>1, <1>2

\* What ends a turn has nothing behind it.
LEMMA AloneAtEnd ==
    ASSUME TypeOK, LastInv, todo # <<>>, Head1.op \in LastOps
    PROVE  Tail(todo) = <<>> /\ \A items \in Seq(Items) : Goes(items) => todo' = items
<1>1. todo \in Seq(Items) /\ Len(todo) \in Nat /\ Len(todo) >= 1 /\ 1 \in DOMAIN todo
  BY DEF TypeOK
<1>2. Len(todo) = 1
  <2>1. todo[1].op \in LastOps
    BY <1>1 DEF Head1
  <2> QED
    BY <1>1, <2>1 DEF LastInv
<1>3. Tail(todo) = <<>>
  <2>1. PICK rest \in Seq(Items) : rest = Tail(todo)
    BY HeadIsItem
  <2>2. Len(rest) = 0
    BY <1>1, <1>2, <2>1
  <2> QED
    BY <2>1, <2>2
<1> QED
  BY <1>3, ConcatEmptySeq DEF Goes

LEMMA PassStep ==
    ASSUME TypeOK, LastInv, PassInv, [Next]_vars
    PROVE  PassInv'
<1> USE DEF memory, world, history, table, task
<1>1. CASE RunTurn
  <2>1. PICK items \in Seq(Items) : Follows(items)
    BY <1>1, TurnFollows
  <2>2. todo # <<>> /\ Due(todo) = {Head1} \cup Due(Tail(todo)) /\ Due(todo') = Due(items) \cup Due(Tail(todo))
    BY <2>1, DueHead, DueGoes DEF Follows
  <2>3. CASE RunExecute \/ RunGroupedSend
    <3>1. Doing("admit") /\ Goes(<<>>) /\ tick' = tick
      BY <2>3 DEF RunExecute, RunGroupedSend
    <3>2. todo' = <<>> /\ tick = "run"
      BY <2>2, <3>1, AloneAtEnd, <<>> \in Seq(Items) DEF Doing, LastOps, PassOps, PassInv
    <3> QED
      BY <3>1, <3>2, DueFew DEF PassInv
  <2>4. CASE Doing("pump")
    <3>1. RunDeliver
      BY <1>1, <2>4 DEF RunTurn, Doing, RunReclaimed, RunRenew, RunClaim, RunNothingReady, RunDefer, RunExecute,
                RunGroupedSend, RunGroupedRewatch, RunThrow, RunFinish, RunEmit, RunSettle, RunDestroy, RunWedge, RunResume
    <3>2. Goes(<<>>) /\ exec' = exec
      BY <3>1 DEF RunDeliver
    <3>3. todo' = <<>> /\ exec.step = "none"
      BY <2>2, <2>4, <3>2, AloneAtEnd, <<>> \in Seq(Items) DEF Doing, LastOps, PassOps, PassInv
    <3> QED
      BY <3>2, <3>3, DueFew DEF PassInv
  <2>5. CASE ~RunExecute /\ ~RunGroupedSend /\ ~Doing("pump")
    <3>1. exec' = exec /\ tick' = tick
      BY <1>1, <2>5 DEF RunTurn, RunReclaimed, RunRenew, RunClaim, RunNothingReady, RunDefer,
                RunGroupedRewatch, RunThrow, RunFinish, RunEmit, RunSettle, RunDestroy, RunWedge, RunResume, RunDeliver,
                Doing
    <3>2. CASE Mild(items)
      BY <2>2, <3>1, <3>2 DEF PassInv, Mild, LastOps
    <3>3. CASE Head1.op \in PassOps
      BY <2>2, <3>1, <3>3 DEF PassInv
    <3> QED
      BY <2>1, <3>2, <3>3 DEF Follows
  <2> QED
    BY <2>3, <2>4, <2>5
<1>2. CASE ~RunTurn
  <2>1. CASE UNCHANGED <<todo, exec, tick>>
    BY <2>1 DEF PassInv, Due
  <2>2. CASE UNCHANGED <<todo, tick>> /\ exec.step # "none"
    BY <2>2 DEF PassInv, Due
  <2>3. CASE UNCHANGED <<todo, exec>> /\ tick # "run"
    BY <2>3 DEF PassInv, Due
  <2>4. CASE UNCHANGED <<exec, tick>> /\ Mild(todo')
    BY <2>4 DEF PassInv, Mild, LastOps
  <2>5. CASE UNCHANGED <<exec, tick>> /\ \E i \in Items : i.op = "resume" /\ todo' = <<i>>
    <3>1. PICK i \in Items : i.op = "resume" /\ todo' = <<i>>
      BY <2>5
    <3>2. Due(todo') = {i}
      BY <3>1, DueFew
    <3> QED
      BY <2>5, <3>1, <3>2 DEF PassInv, PassOps
  <2>6. CASE exec' = NoExec /\ todo' = <<>>
    BY <2>6, DueFew DEF PassInv, NoExec
  <2>7. CASE UNCHANGED exec /\ tick = "off" /\ tick' = "run"
    BY <2>7 DEF PassInv
  <2>8. CASE exec.step # "none" /\ exec' = NoExec /\ tick' = tick
    BY <2>8 DEF PassInv, NoExec
  <2> QED
    BY <1>2, <2>1, <2>2, <2>3, <2>4, <2>5, <2>6, <2>7, <2>8, FreshItems
<1> QED
  BY <1>1, <1>2

-----------------------------------------------------------------------------
(* A loop hears of the end of an attempt once.                                 *)

\* An item that will report the end of t: at once, or by the loop over the rows reclaimed.
Settles(i, t) == i.task = t /\ (i.op = "settle" \/ (i.op = "reclaimed" /\ Kind[t] = "attempt"))
Once(q, t) == \A j, k \in DOMAIN q : Settles(q[j], t) /\ Settles(q[k], t) => j = k

SettleRow(t) ==
    /\ Once(todo, t)
    /\ settled[t] <= 1
    /\ settled[t] # 0 => Kind[t] = "attempt" /\ Terminal(t)
    /\ (\E i \in Due(todo) : Settles(i, t)) => Kind[t] = "attempt" /\ Terminal(t) /\ settled[t] = 0
SettleInv == \A t \in Tasks : SettleRow(t)

LEMMA OnceTail ==
    ASSUME TypeOK, todo # <<>>, NEW t, Once(todo, t)
    PROVE  /\ Once(Tail(todo), t)
           /\ Settles(Head1, t) => \A i \in Due(Tail(todo)) : ~Settles(i, t)
<1>1. /\ todo \in Seq(Items) /\ Len(todo) \in Nat /\ Len(todo) >= 1
      /\ \A k \in 1..(Len(todo) - 1) : Tail(todo)[k] = todo[k + 1]
      /\ DOMAIN Tail(todo) = 1..(Len(todo) - 1) /\ DOMAIN todo = 1..Len(todo)
  BY DEF TypeOK
<1>2. Once(Tail(todo), t)
  <2> SUFFICES ASSUME NEW j \in 1..(Len(todo) - 1), NEW k \in 1..(Len(todo) - 1),
                      Settles(todo[j + 1], t), Settles(todo[k + 1], t)
               PROVE  j = k
    BY <1>1 DEF Once
  <2>1. j + 1 \in DOMAIN todo /\ k + 1 \in DOMAIN todo
    BY <1>1
  <2>2. j + 1 = k + 1
    BY <2>1 DEF Once
  <2> QED
    BY <2>2
<1>3. ASSUME Settles(Head1, t), NEW k \in 1..(Len(todo) - 1) PROVE ~Settles(Tail(todo)[k], t)
  <2>1. k + 1 \in DOMAIN todo /\ 1 \in DOMAIN todo /\ k + 1 # 1 /\ Head1 = todo[1]
    BY <1>1 DEF Head1
  <2> QED
    BY <1>1, <1>3, <2>1 DEF Once
<1> QED
  BY <1>1, <1>2, <1>3 DEF Due

LEMMA OnceJoin ==
    ASSUME NEW t, NEW p \in Seq(Items), NEW q \in Seq(Items), Once(p, t), Once(q, t),
           (\A i \in Due(p) : ~Settles(i, t)) \/ (\A i \in Due(q) : ~Settles(i, t))
    PROVE  Once(p \o q, t)
<1>1. /\ Len(p) \in Nat /\ Len(q) \in Nat /\ DOMAIN p = 1..Len(p) /\ DOMAIN q = 1..Len(q)
      /\ DOMAIN (p \o q) = 1..(Len(p) + Len(q))
      /\ \A k \in 1..(Len(p) + Len(q)) : /\ k <= Len(p) => (p \o q)[k] = p[k]
                                         /\ k > Len(p) => (p \o q)[k] = q[k - Len(p)]
  OBVIOUS
<1> SUFFICES ASSUME NEW j \in 1..(Len(p) + Len(q)), NEW k \in 1..(Len(p) + Len(q)),
                    Settles((p \o q)[j], t), Settles((p \o q)[k], t)
             PROVE  j = k
  BY <1>1 DEF Once
<1>2. CASE j <= Len(p) /\ k <= Len(p)
  <2>1. j \in DOMAIN p /\ k \in DOMAIN p /\ Settles(p[j], t) /\ Settles(p[k], t)
    BY <1>1, <1>2
  <2> QED
    BY <2>1 DEF Once
<1>3. CASE j > Len(p) /\ k > Len(p)
  <2>1. /\ j - Len(p) \in DOMAIN q /\ k - Len(p) \in DOMAIN q
        /\ Settles(q[j - Len(p)], t) /\ Settles(q[k - Len(p)], t)
    BY <1>1, <1>3
  <2>2. j - Len(p) = k - Len(p)
    BY <2>1 DEF Once
  <2> QED
    BY <1>1, <2>2
<1>4. ASSUME NEW a \in 1..(Len(p) + Len(q)), NEW b \in 1..(Len(p) + Len(q)),
             a <= Len(p), b > Len(p), Settles((p \o q)[a], t), Settles((p \o q)[b], t)
      PROVE  FALSE
  <2>1. p[a] \in Due(p) /\ q[b - Len(p)] \in Due(q) /\ Settles(p[a], t) /\ Settles(q[b - Len(p)], t)
    BY <1>1, <1>4 DEF Due
  <2> QED
    BY <2>1
<1> QED
  BY <1>1, <1>2, <1>3, <1>4

\* A list with no report in it, and one that begins with a report.
LEMMA OnceFew ==
    ASSUME NEW t
    PROVE  /\ \A q \in Seq(Items) : (\A i \in Due(q) : ~Settles(i, t)) => Once(q, t)
           /\ \A i \in Items : Once(<<i>>, t)
           /\ Once(<<>>, t)
<1>1. \A q \in Seq(Items) : (\A i \in Due(q) : ~Settles(i, t)) => Once(q, t)
  BY DEF Due, Once
<1> QED
  BY <1>1 DEF Once

\* What follows a task's new status, item by item.
LEMMA AfterDue ==
    ASSUME NEW t \in Tasks, NEW next, NEW s \in AnySession
    PROVE  /\ Due(Teardown(t, s)) = IF Kind[t] = "spawn" /\ s # NoSession THEN {Destroy(s)} ELSE {}
           /\ Due(After(t, next, s)) = IF Kind[t] = "attempt" THEN {Settle(t)}
                                       ELSE IF next = "queued" THEN {}
                                       ELSE {Emit(t, EventOf(next))} \cup Due(Teardown(t, s))
<1>1. Due(Teardown(t, s)) = IF Kind[t] = "spawn" /\ s # NoSession THEN {Destroy(s)} ELSE {}
  BY DueFew DEF Teardown
<1>2. CASE Kind[t] = "attempt" \/ next = "queued"
  BY <1>1, <1>2, DueFew DEF After
<1>3. CASE ~(Kind[t] = "attempt" \/ next = "queued")
  <2>1. PICK e : e = Emit(t, EventOf(next))
    OBVIOUS
  <2>2. PICK p, q : p = <<e>> /\ q = Teardown(t, s)
    OBVIOUS
  <2>3. e \in Items
    BY <2>1, ItemTypes, 0 \in Nat DEF EventOf, TaskEvents
  <2>4. p \in Seq(Items) /\ q \in Seq(Items)
    BY <2>2, <2>3, ItemTypes, 0 \in Nat, s # NoSession => <<Destroy(s)>> \in Seq(Items) DEF Teardown
  <2>5. Due(p \o q) = Due(p) \cup Due(q)
    BY <2>4, DueJoin
  <2>6. Due(p) = {e}
    BY <2>2, DueFew
  <2>7. After(t, next, s) = p \o q
    BY <1>3, <2>1, <2>2 DEF After
  <2> QED
    BY <1>1, <1>3, <2>1, <2>2, <2>5, <2>6, <2>7
<1> QED
  BY <1>1, <1>2, <1>3

Silent(q) == q \in Seq(Items) /\ \A i \in Due(q) : i.op \notin {"settle", "reclaimed"}

LEMMA SilentFew ==
    /\ Silent(<<>>)
    /\ \A i \in Items : i.op \notin {"settle", "reclaimed"} => Silent(<<i>>)
    /\ \A i, j \in Items :
          i.op \notin {"settle", "reclaimed"} /\ j.op \notin {"settle", "reclaimed"} => Silent(<<i, j>>)
    /\ \A q, t : Silent(q) => Once(q, t) /\ \A i \in Due(q) : ~Settles(i, t)
<1>1. <<>> \in Seq(Items) /\ \A i, j \in Items : <<i>> \in Seq(Items) /\ <<i, j>> \in Seq(Items)
  OBVIOUS
<1>2. \A q, t : Silent(q) => Once(q, t) /\ \A i \in Due(q) : ~Settles(i, t)
  BY OnceFew DEF Silent, Settles
<1> QED
  BY <1>1, <1>2, DueFew DEF Silent

\* The reports a statement leaves: of its own attempt, which it ended or was to report.
Reporting(items) ==
    /\ todo # <<>> /\ Goes(items)
    /\ \A t \in Tasks :
          /\ Once(items, t)
          /\ (\E i \in Due(items) : Settles(i, t)) =>
                /\ Kind[t] = "attempt" /\ Terminal(t)'
                /\ Settles(Head1, t) \/ ~Terminal(t)

LEMMA AfterReports ==
    ASSUME NEW t \in Tasks, NEW next, NEW s \in AnySession, NEW u
    PROVE  /\ Once(After(t, next, s), u)
           /\ \A i \in Due(After(t, next, s)) : Settles(i, u) => u = t /\ Kind[t] = "attempt"
<1>1. CASE Kind[t] = "attempt"
  <2>1. PICK i \in Items : i = Settle(t)
    BY ItemTypes, 0 \in Nat, NoSession \in AnySession DEF AnySession
  <2>2. i.task = t
    BY <2>1 DEF Settle, Item
  <2>3. After(t, next, s) = <<i>>
    BY <1>1, <2>1 DEF After
  <2>4. Once(<<i>>, u) /\ Due(<<i>>) = {i}
    BY DueFew, OnceFew
  <2> QED
    BY <1>1, <2>2, <2>3, <2>4 DEF Settles
<1>2. CASE Kind[t] # "attempt"
  <2>1. \A i \in Due(After(t, next, s)) : i.op \in {"emit", "destroy"}
    <3>1. \A x \in Due(After(t, next, s)) : x = Emit(t, EventOf(next)) \/ x = Destroy(s)
      BY <1>2, AfterDue
    <3>2. Emit(t, EventOf(next)).op = "emit" /\ Destroy(s).op = "destroy"
      BY DEF Emit, Destroy, Item
    <3> QED
      BY <3>1, <3>2
  <2>2. Silent(After(t, next, s))
    BY <2>1, AfterType DEF Silent
  <2> QED
    BY <2>2, SilentFew
<1> QED
  BY <1>1, <1>2

LEMMA TurnReports ==
    ASSUME TypeOK, TurnInv, SettleInv, RunTurn
    PROVE  \E items \in Seq(Items) : Reporting(items)
<1> USE DEF memory, world, history, table, task
<1>1. ASSUME NEW items, Silent(items), Goes(items), todo # <<>> PROVE \E q \in Seq(Items) : Reporting(q)
  <2>1. items \in Seq(Items)
    BY <1>1 DEF Silent
  <2> QED
    BY <1>1, <2>1, SilentFew DEF Reporting
<1>2. ASSUME NEW t \in Tasks, NEW next, NEW s \in AnySession, NEW tail, Silent(tail), todo # <<>>,
             Goes(After(t, next, s) \o tail),
             Kind[t] = "attempt" => Terminal(t)' /\ (Settles(Head1, t) \/ ~Terminal(t))
      PROVE  \E q \in Seq(Items) : Reporting(q)
  <2>1. PICK p \in Seq(Items) : p = After(t, next, s)
    BY AfterType
  <2>2. tail \in Seq(Items) /\ p \o tail \in Seq(Items) /\ Due(p \o tail) = Due(p) \cup Due(tail)
    BY <1>2, <2>1, DueJoin DEF Silent
  <2>3. ASSUME NEW u \in Tasks
        PROVE  /\ Once(p \o tail, u)
               /\ \A i \in Due(p \o tail) : Settles(i, u) => u = t /\ Kind[t] = "attempt"
    <3>1. Once(p, u) /\ \A i \in Due(p) : Settles(i, u) => u = t /\ Kind[t] = "attempt"
      BY <2>1, AfterReports
    <3>2. Once(tail, u) /\ \A i \in Due(tail) : ~Settles(i, u)
      BY <1>2, SilentFew
    <3>3. Once(p \o tail, u)
      BY <2>2, <3>1, <3>2, OnceJoin
    <3> QED
      BY <2>2, <3>1, <3>2, <3>3
  <2>4. Reporting(p \o tail)
    BY <1>2, <2>1, <2>3 DEF Reporting
  <2> QED
    BY <2>2, <2>4
<1>3. ASSUME NEW t \in Tasks, NEW next, NEW s \in AnySession, todo # <<>>,
             Goes(After(t, next, s)),
             Kind[t] = "attempt" => Terminal(t)' /\ (Settles(Head1, t) \/ ~Terminal(t))
      PROVE  \E q \in Seq(Items) : Reporting(q)
  <2>1. After(t, next, s) \o <<>> = After(t, next, s)
    BY AfterType, ConcatEmptySeq
  <2>2. Goes(After(t, next, s) \o <<>>)
    BY <1>3, <2>1
  <2> QED
    BY <1>2, <1>3, <2>2, SilentFew
<1>f. \A t \in Tasks : Kind[t] = "attempt" => AfterFailure(t) = "failed"
  BY DEF AfterFailure
<1>m. \A t \in Tasks : worker[t] \in AnySession
  BY WorkerType
<1>c. /\ \A op \in {"claim", "pump", "deliver"} : Silent(<<Step(op)>>)
      /\ Silent(<<>>)
  BY StepType, SilentFew DEF Step, Item
<1>4. CASE RunReclaimed
  <2>1. PICK t \in Tasks : t = Head1.task
    BY <1>4, TaskItem DEF RunReclaimed
  <2>2. Kind[t] = "attempt" => Settles(Head1, t) /\ Head1 \in Due(todo)
    BY <1>4, <2>1, DueHead DEF RunReclaimed, Doing, Settles
  <2>3. Kind[t] = "attempt" => Terminal(t) /\ Terminal(t)'
    BY <1>4, <2>2 DEF SettleInv, SettleRow, RunReclaimed, Terminal
  <2> QED
    BY <1>3, <1>4, <2>1, <2>2, <2>3, WorkerType DEF RunReclaimed, Doing
<1>5. CASE RunRenew \/ RunExecute \/ RunSettle \/ RunDestroy \/ RunDeliver \/ RunGroupedSend
  <2>1. Goes(<<>>) /\ todo # <<>>
    BY <1>5 DEF RunRenew, RunExecute, RunSettle, RunDestroy, RunDeliver, RunGroupedSend, Doing
  <2> QED
    BY <1>1, <1>c, <2>1
<1>6. CASE RunNothingReady \/ RunDefer \/ RunEmit
  <2>1. todo # <<>> /\ (Goes(<<>>) \/ \E op \in {"pump", "claim", "deliver"} : Goes(<<Step(op)>>))
    BY <1>6 DEF RunNothingReady, RunDefer, RunEmit, Doing
  <2> QED
    BY <1>1, <1>c, <2>1
<1>7. CASE RunClaim
  <2>1. PICK t \in Tasks : Goes(<<Admit(t)>>)
    BY <1>7 DEF RunClaim
  <2>2. PICK a : a = Admit(t)
    OBVIOUS
  <2>3. a \in Items /\ a.op = "admit"
    BY <2>2, ItemTypes, 0 \in Nat, NoSession \in AnySession DEF Admit, Item, AnySession
  <2> QED
    BY <1>1, <1>7, <2>1, <2>2, <2>3, SilentFew DEF RunClaim, Doing
<1>8. CASE RunGroupedRewatch
  <2> DEFINE f(end) == Finish(Target[Head1.task], Head1.task, generation[Head1.task], end)
             h == Throw(Target[Head1.task], Head1.task, generation[Head1.task], "final")
  <2>1. /\ todo # <<>>
        /\ \/ Goes(<<h>>) \/ Goes(<<Step("claim")>>)
           \/ \E end \in {"idle", "error"} : Goes(<<f(end), Step("claim")>>)
    BY <1>8 DEF RunGroupedRewatch, Doing
  <2>2. Head1.task \in Tasks /\ Target[Head1.task] \in AnySession /\ generation[Head1.task] \in Nat
    BY <1>8, TaskItem, TargetAssumption, WorkerType DEF RunGroupedRewatch, AnySession
  <2>3. h \in Items /\ h.op = "throw" /\ \A end \in {"idle", "error"} : f(end) \in Items /\ f(end).op = "finish"
    BY <2>2, ItemTypes DEF Throw, Finish, Item
  <2> HIDE DEF f, h
  <2>4. Step("claim") \in Items /\ Step("claim").op = "claim"
    BY StepType DEF Step, Item
  <2>5. Silent(<<h>>) /\ \A end \in {"idle", "error"} : Silent(<<f(end), Step("claim")>>)
    BY <2>3, <2>4, SilentFew
  <2> QED
    BY <1>1, <1>c, <2>1, <2>5
<1>9. CASE RunThrow
  <2>1. PICK t \in Tasks : t = Head1.task
    BY <1>9, TaskItem DEF RunThrow
  <2>2. Head1.sess \in AnySession /\ todo # <<>>
    BY <1>9, TaskItem DEF RunThrow, Doing
  <2>3. CASE Goes(<<Step("claim")>>)
    BY <1>1, <1>c, <2>2, <2>3
  <2>4. CASE ~Goes(<<Step("claim")>>)
    <3>1. PICK r \in BOOLEAN : /\ Goes(After(t, Failed(t, r), Head1.sess) \o <<Step("claim")>>)
                               /\ dispatchFail(t, r) /\ status[t] \in {"claimed", "running"}
      BY <1>9, <2>1, <2>4 DEF RunThrow, Fence
    <3>2. Kind[t] = "attempt" => Terminal(t)' /\ ~Terminal(t)
      BY <1>f, <3>1 DEF dispatchFail, Failed, Terminal, TERMINAL_TASK_STATUS, TypeOK
    <3> QED
      BY <1>2, <1>c, <2>2, <3>1, <3>2
  <2> QED
    BY <2>3, <2>4
<1>10. CASE RunFinish
  <2>1. PICK t \in Tasks : t = Head1.task
    BY <1>10, TaskItem DEF RunFinish
  <2>2. Head1.sess \in AnySession /\ todo # <<>>
    BY <1>10, TaskItem DEF RunFinish, Doing
  <2>3. CASE Goes(<<>>)
    BY <1>1, <1>c, <2>2, <2>3
  <2>4. CASE Fence(t, Head1.generation) /\ Goes(After(t, "done", Head1.sess)) /\ dispatchComplete(t)
    <3>1. Terminal(t)' /\ ~Terminal(t)
      BY <2>4 DEF Fence, dispatchComplete, Terminal, TERMINAL_TASK_STATUS, TypeOK
    <3> QED
      BY <1>3, <2>2, <2>4, <3>1
  <2>5. CASE Fence(t, Head1.generation) /\ Goes(After(t, AfterFailure(t), Head1.sess)) /\ dispatchFail(t, TRUE)
    <3>1. Kind[t] = "attempt" => Terminal(t)' /\ ~Terminal(t)
      BY <1>f, <2>5 DEF Fence, dispatchFail, Failed, Terminal, TERMINAL_TASK_STATUS, TypeOK
    <3> QED
      BY <1>3, <2>2, <2>5, <3>1
  <2> QED
    BY <1>10, <2>1, <2>3, <2>4, <2>5 DEF RunFinish
<1>11. CASE RunWedge
  <2>1. Head1.task \in Tasks /\ todo # <<>> /\ (Goes(<<>>) \/ Goes(<<Notice(Head1.task)>>))
    BY <1>11, TaskItem DEF RunWedge, Doing
  <2>2. Notice(Head1.task) \in Items /\ Notice(Head1.task).op = "notice"
    BY <2>1, ItemTypes, 0 \in Nat, NoSession \in AnySession DEF AnySession, Notice, Item
  <2> QED
    BY <1>1, <1>c, <2>1, <2>2, SilentFew
<1>12. CASE RunResume
  <2>1. PICK t \in Tasks : t = Head1.task
    BY <1>12, TaskItem DEF RunResume
  <2>2. todo # <<>> /\ Kind[t] = "attempt" /\ status[t] = "running"
    BY <1>12, <2>1 DEF RunResume, Doing, TurnInv
  <2>3. CASE Goes(<<Settle(t)>>) /\ dispatchFail(t, FALSE)
    <3>1. Terminal(t)' /\ ~Terminal(t)
      BY <2>2, <2>3 DEF dispatchFail, Failed, Terminal, TERMINAL_TASK_STATUS, TypeOK
    <3>2. Goes(After(t, "failed", NoSession))
      BY <2>2, <2>3 DEF After
    <3> QED
      BY <1>3, <2>2, <3>1, <3>2, NoSession \in AnySession DEF AnySession
  <2>4. CASE Goes(<<>>)
    BY <1>1, <1>c, <2>2, <2>4
  <2>5. ASSUME NEW end \in {"idle", "error"}, Goes(<<Finish(worker[t], t, Head1.generation, end)>>)
        PROVE  \E q \in Seq(Items) : Reporting(q)
    <3>1. PICK i : i = Finish(worker[t], t, Head1.generation, end)
      OBVIOUS
    <3>2. i \in Items /\ i.op = "finish"
      BY <1>12, <3>1, ItemTypes, WorkerType, TaskItem DEF Finish, Item, RunResume
    <3> QED
      BY <1>1, <2>2, <2>5, <3>1, <3>2, SilentFew
  <2>6. \/ Goes(<<Settle(t)>>) /\ dispatchFail(t, FALSE)
        \/ Goes(<<>>)
        \/ \E end \in {"idle", "error"} : Goes(<<Finish(worker[t], t, Head1.generation, end)>>)
    BY <1>12, <2>1 DEF RunResume
  <2> QED
    BY <2>3, <2>4, <2>5, <2>6
<1> QED
  BY <1>4, <1>5, <1>6, <1>7, <1>8, <1>9, <1>10, <1>11, <1>12 DEF RunTurn

LEMMA FreshReports ==
    ASSUME TypeOK, TurnInv, [Next]_vars, ~RunTurn
    PROVE  \/ todo' = todo
           \/ Silent(todo')
           \/ StartTick
           \/ \E t \in Tasks : /\ Kind[t] = "attempt" /\ ~Terminal(t) /\ Terminal(t)'
                               /\ todo' = <<Settle(t)>>
<1> USE DEF memory, world, history, table, task
<1>1. CASE enqueue \/ enqueueGroup
  BY <1>1 DEF enqueue, enqueueGroup
<1>2. ASSUME NEW t \in Tasks, hold(t) PROVE todo' = todo
  BY <1>2 DEF hold
<1>3. ASSUME NEW t \in Tasks, unhold(t)
      PROVE  \/ Silent(todo')
             \/ Kind[t] = "attempt" /\ ~Terminal(t) /\ Terminal(t)' /\ todo' = <<Settle(t)>>
  <2>1. Resume(t, generation[t]) \in Items /\ Resume(t, generation[t]).op = "resume"
    BY WorkerType, ItemTypes, NoSession \in AnySession DEF AnySession, Resume, Item
  <2>2. \/ todo' = <<Resume(t, generation[t])>>
        \/ EndAttempt(t, 1) /\ todo' = <<Settle(t)>>
    BY <1>3 DEF unhold
  <2>3. Kind[t] = "attempt" /\ ~Terminal(t)
    BY <1>3 DEF unhold, TurnInv, Terminal, TERMINAL_TASK_STATUS
  <2>4. EndAttempt(t, 1) => Terminal(t)'
    BY DEF EndAttempt, Terminal, TERMINAL_TASK_STATUS, TypeOK
  <2> QED
    BY <2>1, <2>2, <2>3, <2>4, SilentFew
<1>4. ASSUME NEW t \in Tasks, cancel(t)
      PROVE  Kind[t] = "attempt" /\ ~Terminal(t) /\ Terminal(t)' /\ todo' = <<Settle(t)>>
  BY <1>4 DEF cancel, EndAttempt, Terminal, TERMINAL_TASK_STATUS, TypeOK
<1>5. CASE sendToSession \/ continueWorker \/ spawnWorker
  BY <1>5 DEF sendToSession, continueWorker, spawnWorker
<1>c. Step("claim") \in Items /\ Step("claim").op = "claim" /\ Silent(<<Step("claim")>>)
  BY StepType, SilentFew DEF Step, Item
<1>6. CASE HostThrows
  <2>1. exec.step # "none"
    BY <1>6 DEF HostThrows, Refusals
  <2>2. PICK how \in {"retry", "final"} : todo' = <<Throw(exec.sess, exec.task, exec.generation, how)>>
    BY <1>6 DEF HostThrows, Refusals
  <2>3. PICK i \in Items : i = Throw(exec.sess, exec.task, exec.generation, how)
    BY <2>1, ExecTypes, ItemTypes
  <2>4. i.op = "throw"
    BY <2>3 DEF Throw, Item
  <2> QED
    BY <2>2, <2>3, <2>4, SilentFew
<1>7. CASE Executed
  <2>1. PICK d : d = Destroy(exec.sess)
    OBVIOUS
  <2>2. Kind[exec.task] = "spawn" /\ exec.step = "landed" => d \in Items /\ d.op = "destroy"
    BY <1>7, <2>1, ExecTypes, ItemTypes, 0 \in Nat, NamesAssumption DEF Executed, AnySession, Destroy, Item
  <2>3. \/ todo' = <<Step("claim")>>
        \/ todo' = <<>> \o <<Step("claim")>>
        \/ Kind[exec.task] = "spawn" /\ exec.step = "landed" /\ todo' = <<Destroy(exec.sess)>> \o <<Step("claim")>>
    BY <1>7 DEF Executed
  <2>4. <<>> \o <<Step("claim")>> = <<Step("claim")>>
    BY <1>c
  <2>5. d \in Items => <<d>> \o <<Step("claim")>> = <<d, Step("claim")>>
    BY <1>c, Pair
  <2> QED
    BY <1>c, <2>1, <2>2, <2>3, <2>4, <2>5, SilentFew
<1>8. CASE Deliveries
  BY <1>8 DEF Deliveries, DeliveryLands, MarkDelivered, DeliveryFails
<1>9. ASSUME NEW s \in Sessions, NEW end \in {"idle", "error"}, SessionSettles(s, end) PROVE Silent(todo')
  <2>1. PICK order \in Orders(Watchers(s)) :
            todo' = [i \in DOMAIN order |-> Finish(s, order[i][2], order[i][3], end)]
    BY <1>9 DEF SessionSettles
  <2>2. todo' \in Seq(Items) /\ Due(todo') = {Finish(s, w[2], w[3], end) : w \in Watchers(s)}
    <3>1. todo' \in Seq(Items)
      BY <2>1, WatcherLoop
    <3>2. Due(todo') = {Finish(s, w[2], w[3], end) : w \in Watchers(s)}
      BY <1>9, FinishList
    <3> QED
      BY <3>1, <3>2
  <2>3. \A w : Finish(s, w[2], w[3], end).op = "finish"
    BY DEF Finish, Item
  <2> QED
    BY <2>2, <2>3 DEF Silent
<1>10. ASSUME NEW s \in Sessions, SessionWaits(s) PROVE Silent(todo')
  <2>1. PICK order \in Orders(Watchers(s)) :
            todo' = [i \in DOMAIN order |-> Wedge(s, order[i][2], order[i][3])]
    BY <1>10 DEF SessionWaits
  <2>2. todo' \in Seq(Items) /\ Due(todo') = {Wedge(s, w[2], w[3]) : w \in Watchers(s)}
    <3>1. todo' \in Seq(Items)
      BY <2>1, WatcherLoop
    <3>2. Due(todo') = {Wedge(s, w[2], w[3]) : w \in Watchers(s)}
      BY <2>1, WatcherList
    <3> QED
      BY <3>1, <3>2
  <2>3. \A w : Wedge(s, w[2], w[3]).op = "wedge"
    BY DEF Wedge, Item
  <2> QED
    BY <2>2, <2>3 DEF Silent
<1>11. CASE Crash
  BY <1>11, SilentFew DEF Crash
<1>12. ASSUME NEW s \in Sessions, SessionApproved(s) \/ SessionPrompted(s) \/ SessionVanishes(s)
       PROVE  todo' = todo
  BY <1>12 DEF SessionApproved, SessionPrompted, SessionVanishes
<1>13. CASE ConductorTurns \/ Time \/ UNCHANGED vars
  BY <1>13 DEF ConductorTurns, Time, LeaseExpires, HoldLapses, CoolsDown, vars
<1>14. CASE Execution \/ Handlers
  BY <1>1, <1>5, <1>6, <1>7, <1>14 DEF Execution, Handlers
<1>15. CASE Loop
  BY <1>2, <1>3, <1>4, <1>15 DEF Loop
<1>16. CASE SessionSteps
  BY <1>9, <1>10, <1>12, <1>16 DEF SessionSteps
<1> QED
  BY <1>8, <1>11, <1>13, <1>14, <1>15, <1>16 DEF Next

LEMMA SettledKept ==
    ASSUME [Next]_vars, ~RunSettle
    PROVE  settled' = settled
<1> USE DEF memory, world, history, table, task
<1>1. CASE RunTurn
  BY <1>1 DEF RunTurn, RunReclaimed, RunRenew, RunClaim, RunNothingReady, RunDefer, RunExecute, RunGroupedSend,
              RunGroupedRewatch, RunThrow, RunFinish, RunEmit, RunWedge, RunResume, RunDestroy, RunDeliver
<1>2. CASE Handlers \/ Loop
  BY <1>2 DEF Handlers, enqueue, enqueueGroup, StartTick, Loop, hold, unhold, cancel
<1>3. CASE Execution
  BY <1>3 DEF Execution, sendToSession, continueWorker, spawnWorker, HostThrows, Executed
<1>4. CASE Deliveries \/ ConductorTurns \/ Time \/ Crash \/ UNCHANGED vars
  BY <1>4 DEF Deliveries, DeliveryLands, MarkDelivered, DeliveryFails, ConductorTurns, Time, LeaseExpires,
              HoldLapses, CoolsDown, Crash, vars
<1>5. CASE SessionSteps
  BY <1>5 DEF SessionSteps, SessionSettles, SessionWaits, SessionApproved, SessionPrompted, SessionVanishes
<1> QED
  BY <1>1, <1>2, <1>3, <1>4, <1>5 DEF Next

LEMMA SettleStep ==
    ASSUME TypeOK, TurnInv, SettleInv, [Next]_vars, NEW t \in Tasks
    PROVE  SettleRow(t)'
<1>0. /\ SettleRow(t) /\ settled[t] \in Nat
      /\ Terminal(t) => Terminal(t)'
  BY FinalStep DEF SettleInv, TypeOK, Terminal
<1>1. CASE RunSettle
  <2>1. /\ todo # <<>> /\ Head1.op = "settle" /\ Head1.task \in Tasks
        /\ settled' = [settled EXCEPT ![Head1.task] = @ + 1] /\ Goes(<<>>)
    BY <1>1, TaskItem DEF RunSettle, Doing
  <2>2. todo' = Tail(todo) /\ Due(todo) = {Head1} \cup Due(Tail(todo))
    BY <2>1, HeadIsItem, ConcatEmptySeq, DueHead DEF Goes
  <2>3. Once(todo', t) /\ (Settles(Head1, t) => \A i \in Due(todo') : ~Settles(i, t))
    BY <1>0, <2>1, <2>2, OnceTail DEF SettleRow
  <2>4. CASE t = Head1.task
    <3>1. Settles(Head1, t) /\ settled'[t] = settled[t] + 1
      BY <2>1, <2>4 DEF Settles, TypeOK
    <3>2. settled[t] = 0 /\ Kind[t] = "attempt" /\ Terminal(t)
      BY <1>0, <2>2, <3>1 DEF SettleRow
    <3> QED
      BY <1>0, <2>3, <3>1, <3>2 DEF SettleRow
  <2>5. CASE t # Head1.task
    <3>1. settled'[t] = settled[t]
      BY <2>1, <2>5 DEF TypeOK
    <3> QED
      BY <1>0, <2>2, <2>3, <3>1 DEF SettleRow
  <2> QED
    BY <2>4, <2>5
<1>2. CASE RunTurn /\ ~RunSettle
  <2>1. PICK items \in Seq(Items) : Reporting(items)
    BY <1>2, TurnReports
  <2>2. PICK rest \in Seq(Items) : rest = Tail(todo)
    BY <2>1, HeadIsItem DEF Reporting
  <2>3. /\ todo # <<>> /\ todo' = items \o rest /\ Due(todo') = Due(items) \cup Due(rest)
        /\ Due(todo) = {Head1} \cup Due(rest)
    BY <2>1, <2>2, DueGoes, DueHead DEF Reporting, Goes
  <2>4. Once(rest, t) /\ (Settles(Head1, t) => \A i \in Due(rest) : ~Settles(i, t))
    BY <1>0, <2>2, <2>3, OnceTail DEF SettleRow
  <2>5. /\ Once(items, t)
        /\ (\E i \in Due(items) : Settles(i, t)) =>
              /\ Kind[t] = "attempt" /\ Terminal(t)' /\ (Settles(Head1, t) \/ ~Terminal(t))
    BY <2>1 DEF Reporting
  <2>6. settled'[t] = settled[t]
    BY <1>2, SettledKept
  <2>7. (\E i \in Due(items) : Settles(i, t)) => \A i \in Due(rest) : ~Settles(i, t)
    BY <1>0, <2>3, <2>4, <2>5 DEF SettleRow
  <2>8. Once(todo', t)
    BY <2>3, <2>4, <2>5, <2>7, OnceJoin
  <2>9. (\E i \in Due(todo') : Settles(i, t)) => Kind[t] = "attempt" /\ Terminal(t)' /\ settled[t] = 0
    BY <1>0, <2>3, <2>5 DEF SettleRow
  <2> QED
    BY <1>0, <2>6, <2>8, <2>9 DEF SettleRow
<1>3. CASE ~RunTurn
  <2>1. settled' = settled
    BY <1>3, SettledKept DEF RunTurn
  <2>2. CASE todo' = todo
    BY <1>0, <2>1, <2>2 DEF SettleRow
  <2>3. CASE Silent(todo')
    BY <1>0, <2>1, <2>3, SilentFew DEF SettleRow
  <2>4. ASSUME NEW u \in Tasks, Kind[u] = "attempt", ~Terminal(u), Terminal(u)', todo' = <<Settle(u)>>
        PROVE  SettleRow(t)'
    <3>1. PICK i \in Items : i = Settle(u)
      BY ItemTypes, 0 \in Nat, NoSession \in AnySession DEF AnySession
    <3>2. i.task = u
      BY <3>1 DEF Settle, Item
    <3>3. Once(todo', t) /\ Due(todo') = {i}
      BY <2>4, <3>1, DueFew, OnceFew
    <3>4. Settles(i, t) => t = u
      BY <3>2 DEF Settles
    <3> QED
      BY <1>0, <2>1, <2>4, <3>3, <3>4 DEF SettleRow
  <2>5. CASE StartTick
    <3>1. PICK order \in Orders({u \in Tasks : Stale(u)}) :
              todo' = [i \in DOMAIN order |-> Reclaimed(order[i])] \o <<Step("renew"), Step("claim")>>
      BY <2>5 DEF StartTick
    <3>2. PICK rows : rows = [i \in DOMAIN order |-> Reclaimed(order[i])]
      OBVIOUS
    <3>3. /\ rows \in Seq(Items) /\ Due(rows) = {Reclaimed(u) : u \in {v \in Tasks : Stale(v)}}
          /\ \A j, k \in DOMAIN rows : rows[j] = rows[k] => j = k
      BY <3>2, StaleList
    <3>4. PICK ends : ends = <<Step("renew"), Step("claim")>>
      OBVIOUS
    <3>5. Silent(ends)
      BY <3>4, StepType, SilentFew DEF Step, Item
    <3>6. \A u : Reclaimed(u).task = u
      BY DEF Reclaimed, Item
    <3>7. Once(rows, t)
      <4> SUFFICES ASSUME NEW j \in DOMAIN rows, NEW k \in DOMAIN rows, Settles(rows[j], t), Settles(rows[k], t)
                   PROVE  j = k
        BY DEF Once
      <4>1. rows[j] \in Due(rows) /\ rows[k] \in Due(rows)
        BY DEF Due
      <4>2. rows[j] = Reclaimed(t) /\ rows[k] = Reclaimed(t)
        BY <3>3, <3>6, <4>1 DEF Settles
      <4> QED
        BY <3>3, <4>2
    <3>8. /\ ends \in Seq(Items) /\ todo' = rows \o ends /\ Due(todo') = Due(rows) \cup Due(ends)
          /\ Once(ends, t) /\ \A i \in Due(ends) : ~Settles(i, t)
      BY <3>1, <3>2, <3>3, <3>4, <3>5, DueJoin, SilentFew DEF Silent
    <3>9. Once(todo', t)
      BY <3>3, <3>7, <3>8, OnceJoin
    <3>10. ASSUME NEW i \in Due(todo'), Settles(i, t) PROVE Kind[t] = "attempt" /\ Terminal(t)' /\ settled[t] = 0
      <4>1. i \in Due(rows)
        BY <3>8, <3>10
      <4>2. PICK u \in Tasks : Stale(u) /\ i = Reclaimed(u)
        BY <3>3, <4>1
      <4>3. u = t /\ i.op = "reclaimed"
        BY <3>6, <3>10, <4>2 DEF Settles, Reclaimed, Item
      <4>4. Kind[t] = "attempt" /\ ~Terminal(t)
        BY <3>10, <4>2, <4>3, StaleRows DEF Settles, Terminal, TERMINAL_TASK_STATUS
      <4>5. status'[t] = "failed"
        BY <2>5, <4>2, <4>3, <4>4 DEF StartTick, dispatchReclaimStale, AfterFailure
      <4> QED
        BY <1>0, <4>4, <4>5 DEF SettleRow, Terminal, TERMINAL_TASK_STATUS
    <3> QED
      BY <1>0, <2>1, <3>9, <3>10 DEF SettleRow
  <2> QED
    BY <1>3, <2>2, <2>3, <2>4, <2>5, FreshReports
<1> QED
  BY <1>1, <1>2, <1>3

(* AttemptSettledOnce: the loop is told once, by whichever of the paths that   *)
(* end an attempt gets there first: its worker's end, a throw, a lapsed lease  *)
(* or hold, a cancel, a resume that finds no worker (#settleAttempt).          *)
THEOREM SettledOnce == Spec => []AttemptSettledOnce
<1>1. Init => SettleInv
  <2> SUFFICES ASSUME Init, NEW t \in Tasks PROVE SettleRow(t)
    BY DEF SettleInv
  <2>1. todo = <<>> /\ settled[t] = 0
    BY DEF Init
  <2> QED
    BY <2>1, OnceFew, DueFew DEF SettleRow
<1>2. TypeOK /\ TurnInv /\ SettleInv /\ [Next]_vars => SettleInv'
  BY SettleStep DEF SettleInv
<1>3. TypeOK /\ SettleInv => AttemptSettledOnce
  BY DEF SettleInv, SettleRow, AttemptSettledOnce
<1> QED
  BY <1>1, <1>2, <1>3, TypeCorrect, TurnCorrect, PTL DEF Spec

-----------------------------------------------------------------------------
(* The watch table, statement by statement.  While a turn still has to deal    *)
(* with the watch of a task the table may be behind or ahead of the row; the   *)
(* item that will deal with it says by how much.                               *)
Loosening == {"reclaimed", "throw", "finish", "resume"}
Loose(t) == \E i \in Due(todo) : i.op \in Loosening /\ i.task = t

WatchesOf(t) == {w \in watched : w[2] = t}
Mine(t) == status[t] = "running" /\ claim_owner[t] = boot
Own(t) == IF Mine(t) THEN {<<worker[t], t, generation[t]>>} ELSE {}
Started(t) == status[t] \in {"running", "held"} \/ Terminal(t)

\* What an item relies on when its turn comes.
Means(i) ==
    /\ i.op = "reclaimed" => ~Mine(i.task) /\ \A w \in WatchesOf(i.task) : w[1] = worker[i.task]
    /\ i.op \in {"finish", "resume"} => WatchesOf(i.task) = {}
    /\ i.op \in {"finish", "throw"} => (Mine(i.task) => generation[i.task] = i.generation)
    /\ i.op = "resume" => Mine(i.task) /\ generation[i.task] = i.generation
    /\ i.op = "admit" => claim_owner[i.task] = boot
    /\ i.op = "wedge" => (Kind[i.task] = "attempt" => Started(i.task))

ItemsInv == \A i \in Due(todo) : Means(i)
WatchInv == \A t \in Tasks : ~Loose(t) => WatchesOf(t) = Own(t)

\* The row of the call that is awaited, and of an attempt the loop host was told of.
CallInv ==
    exec.step # "none" =>
        /\ status[exec.task] # "held"
        /\ status[exec.task] \in Live => generation[exec.task] = exec.generation /\ claim_owner[exec.task] = boot
        /\ status[exec.task] = "running" => Kind[exec.task] = "send" /\ exec.task \in Group
InboxInv == \A t \in Tasks : <<t, "waiting">> \in inbox => Started(t)
OwnerInv == \A t \in Tasks : claim_owner[t] <= boot

DutyInv == ItemsInv /\ WatchInv /\ CallInv /\ InboxInv /\ OwnerInv

Meaning == {"reclaimed", "finish", "throw", "resume", "admit", "wedge"}

LEMMA MeaningTasks ==
    /\ \A i \in Items : i.op \in Meaning => i.task \in Tasks
    /\ \A i : i.op \notin Meaning => Means(i)
    /\ Loosening \subseteq Meaning
<1>1. \A i \in Items : i.op \in Meaning => i.task \in Tasks
  BY DEF Items, ItemsOf, Meaning
<1> QED
  BY <1>1 DEF Means, Meaning, Loosening

\* A row and its watches as they were.
Same(t) ==
    /\ status'[t] = status[t] /\ generation'[t] = generation[t]
    /\ claim_owner'[t] = claim_owner[t] /\ worker'[t] = worker[t]
    /\ WatchesOf(t)' = WatchesOf(t)

LEMMA SameMeans ==
    ASSUME NEW t, Same(t), boot' = boot
    PROVE  /\ Own(t)' = Own(t) /\ (Mine(t)' <=> Mine(t)) /\ (Started(t)' <=> Started(t))
           /\ \A i : i.task = t /\ Means(i) => Means(i)'
<1>1. Own(t)' = Own(t) /\ (Mine(t)' <=> Mine(t)) /\ (Started(t)' <=> Started(t))
  BY DEF Same, Own, Mine, Started, Terminal
<1>2. ASSUME NEW i, i.task = t, Means(i) PROVE Means(i)'
  BY <1>1, <1>2 DEF Same, Means
<1> QED
  BY <1>1, <1>2

LEMMA SameWatched ==
    ASSUME UNCHANGED <<status, generation, claim_owner, worker, watched>>
    PROVE  \A t : Same(t)
  BY DEF Same, WatchesOf

\* A statement that touches the row of t only.
LEMMA TurnDuty ==
    ASSUME TypeOK, ItemsInv, WatchInv, boot' = boot, todo # <<>>,
           NEW items \in Seq(Items), Goes(items), NEW t \in Tasks,
           \A u \in Tasks : u # t => Same(u),
           Head1.op \in Loosening => Head1.task = t,
           \A i \in Due(items) : Means(i)',
           \A i \in Due(Tail(todo)) : i.task = t /\ Means(i) => Means(i)',
           Loose(t)' \/ WatchesOf(t)' = Own(t)'
    PROVE  ItemsInv' /\ WatchInv'
<1>1. /\ Due(todo) = {Head1} \cup Due(Tail(todo)) /\ Due(todo') = Due(items) \cup Due(Tail(todo))
      /\ Due(Tail(todo)) \subseteq Items
  BY DueHead, DueGoes, DueJoin, HeadIsItem
<1>2. ItemsInv'
  <2> SUFFICES ASSUME NEW i \in Due(Tail(todo)) PROVE Means(i)'
    BY <1>1 DEF ItemsInv
  <2>1. Means(i) /\ i \in Items
    BY <1>1 DEF ItemsInv
  <2>2. CASE i.op \in Meaning /\ i.task # t
    <3>1. i.task \in Tasks
      BY <2>1, <2>2, MeaningTasks
    <3>2. Same(i.task)
      BY <2>2, <3>1
    <3>3. PICK u : u = i.task
      OBVIOUS
    <3> QED
      BY <2>1, <3>2, <3>3, SameMeans
  <2>3. CASE i.op \notin Meaning
    BY <2>3 DEF Means, Meaning
  <2> QED
    BY <2>1, <2>2, <2>3
<1>3. WatchInv'
  <2> SUFFICES ASSUME NEW u \in Tasks, u # t, ~Loose(u)' PROVE WatchesOf(u)' = Own(u)'
    BY DEF WatchInv
  <2>1. ~Loose(u)
    BY <1>1 DEF Loose
  <2>2. Same(u) /\ WatchesOf(u) = Own(u)
    BY <2>1 DEF WatchInv
  <2>3. Own(u)' = Own(u)
    BY <2>2, SameMeans
  <2> QED
    BY <2>2, <2>3 DEF Same
<1> QED
  BY <1>2, <1>3

\* A statement that touches none, and leaves nothing that relies on one.
LEMMA IdleDuty ==
    ASSUME TypeOK, ItemsInv, WatchInv, boot' = boot, todo # <<>>, NEW items \in Seq(Items), Goes(items),
           \A u \in Tasks : Same(u), Head1.op \notin Loosening, \A i \in Due(items) : Means(i)'
    PROVE  ItemsInv' /\ WatchInv'
<1>1. /\ Due(todo) = {Head1} \cup Due(Tail(todo)) /\ Due(todo') = Due(items) \cup Due(Tail(todo))
      /\ Due(Tail(todo)) \subseteq Items
  BY DueHead, DueGoes, DueJoin, HeadIsItem
<1>2. ItemsInv'
  <2> SUFFICES ASSUME NEW i \in Due(Tail(todo)) PROVE Means(i)'
    BY <1>1 DEF ItemsInv
  <2>1. Means(i) /\ i \in Items
    BY <1>1 DEF ItemsInv
  <2>2. CASE i.op \in Meaning
    <3>1. i.task \in Tasks
      BY <2>1, <2>2, MeaningTasks
    <3>2. PICK u \in Tasks : u = i.task
      BY <3>1
    <3> QED
      BY <2>1, <3>2, SameMeans
  <2>3. CASE i.op \notin Meaning
    BY <2>3 DEF Means, Meaning
  <2> QED
    BY <2>2, <2>3
<1>3. WatchInv'
  <2> SUFFICES ASSUME NEW u \in Tasks, ~Loose(u)' PROVE WatchesOf(u)' = Own(u)'
    BY DEF WatchInv
  <2>1. ~Loose(u)
    BY <1>1 DEF Loose
  <2>2. Same(u) /\ WatchesOf(u) = Own(u)
    BY <2>1 DEF WatchInv
  <2>3. Own(u)' = Own(u)
    BY <2>2, SameMeans
  <2> QED
    BY <2>2, <2>3 DEF Same
<1> QED
  BY <1>2, <1>3

\* What the changes of the watch table leave to each task.
LEMMA WatchChanges ==
    ASSUME NEW s, NEW t, NEW g
    PROVE  /\ watched' = unwatch(s, t) => /\ \A u : u # t => WatchesOf(u)' = WatchesOf(u)
                                          /\ WatchesOf(t)' = {w \in WatchesOf(t) : w[1] # s}
           /\ watched' = unwatchTask(t) => /\ \A u : u # t => WatchesOf(u)' = WatchesOf(u)
                                           /\ WatchesOf(t)' = {}
           /\ watched' = watch(s, t, g) => /\ \A u : u # t => WatchesOf(u)' = WatchesOf(u)
                                           /\ WatchesOf(t) = {} => WatchesOf(t)' = {<<s, t, g>>}
  BY DEF WatchesOf, unwatch, unwatchTask, watch

\* A statement of the store on the row of t leaves the others as they were.
RowOnly(t) ==
    \A u \in Tasks : u # t => /\ status'[u] = status[u] /\ generation'[u] = generation[u]
                              /\ claim_owner'[u] = claim_owner[u] /\ worker'[u] = worker[u]
LEMMA OneRow ==
    ASSUME TypeOK, NEW t
    PROVE  /\ \A s : dispatchMarkRunning(t, s) => RowOnly(t)
           /\ dispatchClaimNext(t) \/ dispatchComplete(t) \/ dispatchHold(t) \/ dispatchUnhold(t)
                  \/ dispatchRelease(t) => RowOnly(t)
           /\ \A r : dispatchFail(t, r) => RowOnly(t)
           /\ \A cost : EndAttempt(t, cost) => RowOnly(t)
  BY DEF RowOnly, TypeOK, dispatchMarkRunning, dispatchClaimNext, dispatchComplete, dispatchHold, dispatchUnhold,
         dispatchRelease, dispatchFail, EndAttempt, Unclaimed

\* The row of an admitted task, and what is behind it.
LEMMA Admitted ==
    ASSUME TypeOK, TurnInv, LastInv, ItemsInv, WatchInv, Doing("admit")
    PROVE  /\ Head1.task \in Tasks /\ status[Head1.task] = "claimed" /\ claim_owner[Head1.task] = boot
           /\ WatchesOf(Head1.task) = {} /\ Tail(todo) = <<>> /\ Due(Tail(todo)) = {}
           /\ \A items \in Seq(Items) : Goes(items) => todo' = items
<1>1. todo # <<>> /\ Head1.op = "admit" /\ Head1.task \in Tasks /\ status[Head1.task] = "claimed"
  BY TaskItem DEF Doing, TurnInv
<1>2. /\ Tail(todo) = <<>> /\ Due(Tail(todo)) = {}
      /\ \A items \in Seq(Items) : Goes(items) => todo' = items
  BY <1>1, AloneAtEnd, DueFew DEF LastOps, PassOps
<1>3. Due(todo) = {Head1}
  BY <1>1, <1>2, DueHead
<1>4. claim_owner[Head1.task] = boot
  BY <1>1, <1>3 DEF ItemsInv, Means
<1>5. ~Loose(Head1.task) /\ ~Mine(Head1.task)
  BY <1>1, <1>3 DEF Loose, Loosening, Mine
<1>6. WatchesOf(Head1.task) = {}
  BY <1>1, <1>5 DEF WatchInv, Own
<1> QED
  BY <1>1, <1>2, <1>4, <1>6

\* The items a statement leaves, by their kind.
LEMMA FewMeans ==
    /\ \A i : i.op \notin Meaning => Means(i)'
    /\ \A t, next, s : t \in Tasks /\ s \in AnySession => \A i \in Due(After(t, next, s)) : Means(i)' /\ i.op \notin Meaning
    /\ \A op : op \notin Meaning => Means(Step(op))' /\ Step(op).op = op
<1>1. \A i : i.op \notin Meaning => Means(i)'
  BY DEF Means, Meaning
<1>2. ASSUME NEW t \in Tasks, NEW next, NEW s \in AnySession, NEW i \in Due(After(t, next, s))
      PROVE  i.op \notin Meaning
  <2>1. i = Emit(t, EventOf(next)) \/ i = Destroy(s) \/ i = Settle(t)
    BY <1>2, AfterDue
  <2>2. Emit(t, EventOf(next)).op = "emit" /\ Destroy(s).op = "destroy" /\ Settle(t).op = "settle"
    BY DEF Emit, Destroy, Settle, Item
  <2> QED
    BY <2>1, <2>2 DEF Meaning
<1>3. \A op : Step(op).op = op
  BY DEF Step, Item
<1> QED
  BY <1>1, <1>2, <1>3

LEMMA ReclaimedDuty ==
    ASSUME TypeOK, TurnInv, DutyInv, RunReclaimed
    PROVE  ItemsInv' /\ WatchInv'
<1>1. PICK t \in Tasks : t = Head1.task
  BY TaskItem DEF RunReclaimed
<1>2. /\ todo # <<>> /\ Head1.op = "reclaimed" /\ boot' = boot
      /\ UNCHANGED <<status, generation, claim_owner, worker>>
      /\ watched' = unwatch(worker[t], t) /\ Goes(After(t, status[t], worker[t]))
  BY <1>1 DEF RunReclaimed, Doing, table, task
<1>3. Means(Head1)
  BY <1>2, DueHead DEF DutyInv, ItemsInv
<1>h. PICK h : h = Head1
  OBVIOUS
<1>m. ~Mine(t) /\ \A w \in WatchesOf(t) : w[1] = worker[t]
  BY <1>1, <1>2, <1>3, <1>h DEF Means
<1>w. WatchesOf(t)' = {w \in WatchesOf(t) : w[1] # worker[t]} /\ \A u : u # t => WatchesOf(u)' = WatchesOf(u)
  BY <1>2, WatchChanges
<1>4. WatchesOf(t)' = {} /\ ~Mine(t) /\ \A u : u # t => Same(u)
  BY <1>2, <1>m, <1>w DEF Same
<1>5. Own(t)' = {} /\ ~Mine(t)' /\ (Started(t)' <=> Started(t))
  BY <1>2, <1>4 DEF Own, Mine, Started, Terminal
<1>6. ASSUME NEW i, i.task = t, Means(i) PROVE Means(i)'
  BY <1>2, <1>4, <1>5, <1>6 DEF Means
<1>7. After(t, status[t], worker[t]) \in Seq(Items)
  BY WorkerType, AfterType
<1> QED
  BY <1>1, <1>2, <1>4, <1>5, <1>6, <1>7, FewMeans, WorkerType, TurnDuty DEF DutyInv

LEMMA IdleTurns ==
    ASSUME TypeOK, TurnInv, DutyInv,
           RunRenew \/ RunNothingReady \/ RunExecute \/ RunEmit \/ RunSettle \/ RunWedge \/ RunDestroy \/ RunDeliver
    PROVE  ItemsInv' /\ WatchInv'
<1> USE DEF memory, world, history, table, task
<1>1. /\ UNCHANGED <<status, generation, claim_owner, worker, watched, boot>>
      /\ todo # <<>> /\ Head1.op \notin Loosening
  BY DEF RunRenew, RunNothingReady, RunExecute, RunEmit, RunSettle, RunWedge, RunDestroy, RunDeliver,
         dispatchTouch, Doing, Loosening
<1>2. \/ Goes(<<>>) \/ \E op \in {"pump", "deliver"} : Goes(<<Step(op)>>)
      \/ Head1.task \in Tasks /\ Goes(<<Notice(Head1.task)>>)
  BY TaskItem DEF RunRenew, RunNothingReady, RunExecute, RunEmit, RunSettle, RunWedge, RunDestroy, RunDeliver
<1>3. \A u : Same(u)
  BY <1>1, SameWatched
<1>4. ASSUME NEW i \in Items, i.op \notin Meaning, Goes(<<i>>) PROVE ItemsInv' /\ WatchInv'
  <2>1. <<i>> \in Seq(Items) /\ Due(<<i>>) = {i}
    BY DueFew
  <2> QED
    BY <1>1, <1>3, <1>4, <2>1, FewMeans, IdleDuty DEF DutyInv
<1>5. CASE Goes(<<>>)
  BY <1>1, <1>3, <1>5, <<>> \in Seq(Items), DueFew, IdleDuty DEF DutyInv
<1>6. ASSUME NEW op \in {"pump", "deliver"}, Goes(<<Step(op)>>) PROVE ItemsInv' /\ WatchInv'
  BY <1>4, <1>6, StepType, FewMeans DEF Meaning
<1>7. ASSUME NEW t \in Tasks, Goes(<<Notice(t)>>) PROVE ItemsInv' /\ WatchInv'
  <2>1. Notice(t) \in Items /\ Notice(t).op = "notice"
    BY ItemTypes, 0 \in Nat, NoSession \in AnySession DEF AnySession, Notice, Item
  <2> QED
    BY <1>4, <1>7, <2>1 DEF Meaning
<1> QED
  BY <1>2, <1>5, <1>6, <1>7

LEMMA ClaimDuty ==
    ASSUME TypeOK, TurnInv, LastInv, DutyInv, RunClaim
    PROVE  ItemsInv' /\ WatchInv'
<1>1. PICK t \in Tasks : status[t] = "queued" /\ dispatchClaimNext(t) /\ Goes(<<Admit(t)>>)
  BY DEF RunClaim, Ready
<1>2. todo # <<>> /\ Head1.op = "claim" /\ UNCHANGED <<watched, boot>>
  BY DEF RunClaim, Doing
<1>3. Tail(todo) = <<>> /\ Due(Tail(todo)) = {} /\ Due(todo) = {Head1}
  BY <1>2, AloneAtEnd, DueFew, DueHead DEF LastOps, PassOps
<1>4. WatchesOf(t) = {}
  BY <1>1, <1>2, <1>3 DEF DutyInv, WatchInv, Loose, Loosening, Own, Mine
<1>5. WatchesOf(t)' = Own(t)'
  BY <1>1, <1>2, <1>4 DEF WatchesOf, Own, Mine, dispatchClaimNext, TypeOK
<1>6. \A u \in Tasks : u # t => Same(u)
  BY <1>1, <1>2, OneRow DEF RowOnly, Same, WatchesOf
<1>7. PICK a \in Items : a = Admit(t)
  BY ItemTypes, 0 \in Nat, NoSession \in AnySession DEF AnySession
<1>8. a.op = "admit" /\ a.task = t
  BY <1>7 DEF Admit, Item
<1>9. Means(a)'
  BY <1>1, <1>2, <1>8 DEF Means, dispatchClaimNext, TypeOK
<1>10. <<a>> \in Seq(Items) /\ Due(<<a>>) = {a}
  BY DueFew
<1> QED
  BY <1>1, <1>2, <1>3, <1>5, <1>6, <1>7, <1>9, <1>10, TurnDuty DEF DutyInv, Loosening

LEMMA DeferDuty ==
    ASSUME TypeOK, TurnInv, LastInv, DutyInv, RunDefer
    PROVE  ItemsInv' /\ WatchInv'
<1>1. PICK t \in Tasks : t = Head1.task
  BY TaskItem DEF RunDefer
<1>2. todo # <<>> /\ Head1.op = "admit" /\ UNCHANGED <<watched, boot>> /\ Goes(<<Step("claim")>>) /\ dispatchRelease(t)
  BY <1>1 DEF RunDefer, Doing, memory
<1>3. Due(Tail(todo)) = {} /\ WatchesOf(t) = {}
  BY <1>1, Admitted DEF RunDefer, DutyInv
<1>4. WatchesOf(t)' = Own(t)'
  BY <1>2, <1>3 DEF WatchesOf, Own, Mine, dispatchRelease, TypeOK
<1>5. \A u \in Tasks : u # t => Same(u)
  BY <1>2, OneRow DEF RowOnly, Same, WatchesOf
<1>6. Step("claim") \in Items /\ Means(Step("claim"))'
  BY StepType, FewMeans DEF Meaning
<1>7. <<Step("claim")>> \in Seq(Items) /\ Due(<<Step("claim")>>) = {Step("claim")}
  BY <1>6, DueFew
<1> QED
  BY <1>1, <1>2, <1>3, <1>4, <1>5, <1>6, <1>7, TurnDuty DEF DutyInv, Loosening

LEMMA GroupedSendDuty ==
    ASSUME TypeOK, TurnInv, LastInv, DutyInv, RunGroupedSend
    PROVE  ItemsInv' /\ WatchInv'
<1>1. PICK t \in Tasks : t = Head1.task
  BY TaskItem DEF RunGroupedSend
<1>2. /\ todo # <<>> /\ Head1.op = "admit" /\ boot' = boot /\ Goes(<<>>)
      /\ dispatchMarkRunning(t, Target[t]) /\ watched' = watch(Target[t], t, generation[t])
  BY <1>1 DEF RunGroupedSend, Doing
<1>3. Due(Tail(todo)) = {} /\ WatchesOf(t) = {} /\ claim_owner[t] = boot
  BY <1>1, Admitted DEF RunGroupedSend, DutyInv
<1>4. WatchesOf(t)' = {<<Target[t], t, generation[t]>>} /\ \A u : u # t => WatchesOf(u)' = WatchesOf(u)
  BY <1>2, <1>3, WatchChanges
<1>5. /\ status'[t] = "running" /\ worker'[t] = Target[t] /\ generation'[t] = generation[t]
      /\ claim_owner'[t] = boot
  BY <1>2, <1>3 DEF dispatchMarkRunning, TypeOK
<1>6. WatchesOf(t)' = Own(t)'
  BY <1>2, <1>4, <1>5 DEF Own, Mine
<1>7. \A u \in Tasks : u # t => Same(u)
  BY <1>2, <1>4, OneRow DEF RowOnly, Same
<1> QED
  BY <1>1, <1>2, <1>3, <1>6, <1>7, <<>> \in Seq(Items), DueFew, TurnDuty DEF DutyInv, Loosening

LEMMA RewatchDuty ==
    ASSUME TypeOK, TurnInv, LastInv, DutyInv, RunGroupedRewatch
    PROVE  ItemsInv' /\ WatchInv'
<1>1. PICK t \in Tasks, s \in AnySession, g \in Nat : t = Head1.task /\ s = Target[t] /\ g = generation[t]
  BY TaskItem, WorkerType, TargetAssumption DEF RunGroupedRewatch, AnySession
<1>2. todo # <<>> /\ Head1.op = "admit" /\ boot' = boot
  BY DEF RunGroupedRewatch, Doing
<1>3. /\ Due(Tail(todo)) = {} /\ WatchesOf(t) = {} /\ claim_owner[t] = boot /\ status[t] = "claimed"
      /\ \A items \in Seq(Items) : Goes(items) => todo' = items
  BY <1>1, Admitted DEF RunGroupedRewatch, DutyInv
<1>c. Step("claim") \in Items /\ Means(Step("claim"))'
  BY StepType, FewMeans DEF Meaning
<1>4. CASE Goes(<<Throw(s, t, g, "final")>>) /\ UNCHANGED <<task, watched>>
  <2>1. PICK h \in Items : h = Throw(s, t, g, "final")
    BY ItemTypes
  <2>2. h.op = "throw" /\ h.task = t /\ h.generation = g
    BY <2>1 DEF Throw, Item
  <2>3. \A u : Same(u)
    BY <1>4, SameWatched DEF task
  <2>4. Means(h)'
    BY <1>1, <1>4, <2>2 DEF Means, task
  <2>5. <<h>> \in Seq(Items) /\ Due(<<h>>) = {h}
    BY DueFew
  <2>6. Loose(t)'
    BY <1>3, <1>4, <2>1, <2>2, <2>5 DEF Loose, Loosening
  <2>7. Goes(<<h>>)
    BY <1>4, <2>1
  <2>8. \A i \in Due(<<h>>) : Means(i)'
    BY <2>4, <2>5
  <2>9. Head1.op \notin Loosening /\ \A i \in Due(Tail(todo)) : i.task = t /\ Means(i) => Means(i)'
    BY <1>2, <1>3 DEF Loosening
  <2> QED
    BY <1>2, <2>3, <2>5, <2>6, <2>7, <2>8, <2>9, TurnDuty DEF DutyInv
<1>5. CASE dispatchMarkRunning(t, s) /\ watched' = watch(s, t, g) /\ Goes(<<Step("claim")>>)
  <2>1. WatchesOf(t)' = {<<s, t, g>>} /\ \A u : u # t => WatchesOf(u)' = WatchesOf(u)
    BY <1>3, <1>5, WatchChanges
  <2>2. /\ status'[t] = "running" /\ worker'[t] = s /\ generation'[t] = g
        /\ claim_owner'[t] = boot
    BY <1>1, <1>3, <1>5 DEF dispatchMarkRunning, TypeOK
  <2>3. WatchesOf(t)' = Own(t)'
    BY <1>2, <2>1, <2>2 DEF Own, Mine
  <2>4. \A u \in Tasks : u # t => Same(u)
    <3>1. RowOnly(t)
      BY <1>5, OneRow
    <3> QED
      BY <2>1, <3>1 DEF RowOnly, Same
  <2>5. <<Step("claim")>> \in Seq(Items) /\ Due(<<Step("claim")>>) = {Step("claim")}
    BY <1>c, DueFew
  <2> QED
    BY <1>2, <1>3, <1>5, <1>c, <2>3, <2>4, <2>5, TurnDuty DEF DutyInv, Loosening
<1>6. ASSUME NEW end \in {"idle", "error"}, dispatchMarkRunning(t, s), UNCHANGED watched,
             Goes(<<Finish(s, t, g, end), Step("claim")>>)
      PROVE  ItemsInv' /\ WatchInv'
  <2>1. PICK h \in Items : h = Finish(s, t, g, end)
    BY ItemTypes
  <2>2. h.op = "finish" /\ h.task = t /\ h.generation = g
    BY <2>1 DEF Finish, Item
  <2>3. \A u \in Tasks : u # t => Same(u)
    <3>1. RowOnly(t)
      BY <1>6, OneRow
    <3> QED
      BY <1>6, <3>1 DEF RowOnly, Same, WatchesOf
  <2>4. generation'[t] = g /\ WatchesOf(t)' = {}
    BY <1>1, <1>3, <1>6 DEF dispatchMarkRunning, WatchesOf
  <2>5. Means(h)'
    BY <2>2, <2>4 DEF Means
  <2>6. <<h, Step("claim")>> \in Seq(Items) /\ Due(<<h, Step("claim")>>) = {h, Step("claim")}
    BY <1>c, DueFew
  <2>7. Loose(t)'
    BY <1>3, <1>6, <2>1, <2>2, <2>6 DEF Loose, Loosening
  <2>8. \A i \in Due(<<h, Step("claim")>>) : Means(i)'
    BY <1>c, <2>5, <2>6
  <2>9. Goes(<<h, Step("claim")>>)
    BY <1>6, <2>1
  <2>10. Head1.op \notin Loosening /\ \A i \in Due(Tail(todo)) : i.task = t /\ Means(i) => Means(i)'
    BY <1>2, <1>3 DEF Loosening
  <2> QED
    BY <1>2, <2>3, <2>6, <2>7, <2>8, <2>9, <2>10, TurnDuty DEF DutyInv
<1>7. \/ Goes(<<Throw(s, t, g, "final")>>) /\ UNCHANGED <<task, watched>>
      \/ dispatchMarkRunning(t, s) /\ watched' = watch(s, t, g) /\ Goes(<<Step("claim")>>)
      \/ /\ dispatchMarkRunning(t, s) /\ UNCHANGED watched
         /\ \E end \in {"idle", "error"} : Goes(<<Finish(s, t, g, end), Step("claim")>>)
  BY <1>1 DEF RunGroupedRewatch
<1> QED
  BY <1>4, <1>5, <1>6, <1>7


\* The row of an ended try, or of one put back.
LEMMA EndedRow ==
    ASSUME TypeOK, NEW t \in Tasks, dispatchComplete(t) \/ \E r \in BOOLEAN : dispatchFail(t, r)
    PROVE  ~Mine(t)' /\ Own(t)' = {} /\ (Kind[t] = "attempt" => Started(t)') /\ worker' = worker
<1>1. \A r : Failed(t, r) \in {"failed", "blocked", "queued"}
  BY DEF Failed, AfterFailure
<1>2. ~Mine(t)' /\ (Kind[t] = "attempt" => Started(t)') /\ worker' = worker
  BY <1>1 DEF dispatchComplete, dispatchFail, Mine, Started, Terminal, TERMINAL_TASK_STATUS, TypeOK, Failed, AfterFailure
<1> QED
  BY <1>2 DEF Own

LEMMA ThrowDuty ==
    ASSUME TypeOK, TurnInv, LastInv, DutyInv, RunThrow
    PROVE  ItemsInv' /\ WatchInv'
<1>1. PICK t \in Tasks, g \in Nat, s \in AnySession : t = Head1.task /\ g = Head1.generation /\ s = Head1.sess
  BY TaskItem DEF RunThrow
<1>2. todo # <<>> /\ Head1.op = "throw" /\ boot' = boot /\ watched' = unwatchTask(t) /\ Tail(todo) = <<>>
  BY <1>1, AloneAtEnd DEF RunThrow, Doing, LastOps, PassOps
<1>3. WatchesOf(t)' = {} /\ \A u : u # t => WatchesOf(u)' = WatchesOf(u)
  BY <1>2, WatchChanges
<1>4. Due(Tail(todo)) = {} /\ Due(todo) = {Head1}
  BY <1>2, DueFew, DueHead
<1>5. Mine(t) => generation[t] = g
  <2>1. PICK h : h = Head1
    OBVIOUS
  <2> QED
    BY <1>1, <1>2, <1>4, <2>1 DEF DutyInv, ItemsInv, Means
<1>c. Step("claim") \in Items /\ Means(Step("claim"))'
  BY StepType, FewMeans DEF Meaning
<1>6. CASE ~Fence(t, g) /\ UNCHANGED task /\ Goes(<<Step("claim")>>)
  <2>1. ~Mine(t) /\ Own(t)' = {}
    BY <1>2, <1>5, <1>6 DEF Fence, Mine, Own, task
  <2>2. \A u \in Tasks : u # t => Same(u)
    BY <1>3, <1>6 DEF Same, task
  <2>3. <<Step("claim")>> \in Seq(Items) /\ Due(<<Step("claim")>>) = {Step("claim")}
    BY <1>c, DueFew
  <2> QED
    BY <1>1, <1>2, <1>3, <1>4, <1>6, <1>c, <2>1, <2>2, <2>3, TurnDuty DEF DutyInv
<1>7. ASSUME NEW r \in BOOLEAN, NEW next, dispatchFail(t, r), Goes(After(t, next, s) \o <<Step("claim")>>)
      PROVE  ItemsInv' /\ WatchInv'
  <2>1. Own(t)' = {}
    BY <1>7, EndedRow
  <2>2. RowOnly(t)
    BY <1>7, OneRow
  <2>3. \A u \in Tasks : u # t => Same(u)
    BY <1>3, <2>2 DEF RowOnly, Same
  <2>4. PICK items \in Seq(Items) : items = After(t, next, s)
    BY AfterType
  <2>s. PICK c \in Items : c = Step("claim")
    BY <1>c
  <2>e. <<c>> \in Seq(Items)
    BY <2>s
  <2>5. PICK more \in Seq(Items) : more = <<c>>
    BY <2>e
  <2>d. Due(more) = {c} /\ Due(items \o more) = Due(items) \cup Due(more)
    BY <2>5, DueFew, DueJoin
  <2>6. Due(items \o more) = Due(items) \cup {Step("claim")} /\ items \o more \in Seq(Items)
    BY <2>s, <2>d
  <2>7. \A i \in Due(items \o more) : Means(i)'
    BY <1>c, <2>4, <2>6, FewMeans
  <2>8. Goes(items \o more)
    BY <1>7, <2>s, <2>4, <2>5
  <2> QED
    BY <1>1, <1>2, <1>3, <1>4, <2>1, <2>3, <2>6, <2>7, <2>8, TurnDuty DEF DutyInv
<1>8. \/ ~Fence(t, g) /\ UNCHANGED task /\ Goes(<<Step("claim")>>)
      \/ \E r \in BOOLEAN : \E next : dispatchFail(t, r) /\ Goes(After(t, next, s) \o <<Step("claim")>>)
  BY <1>1 DEF RunThrow
<1> QED
  BY <1>6, <1>7, <1>8

LEMMA FinishDuty ==
    ASSUME TypeOK, TurnInv, DutyInv, RunFinish
    PROVE  ItemsInv' /\ WatchInv'
<1>1. PICK t \in Tasks, g \in Nat, s \in AnySession : t = Head1.task /\ g = Head1.generation /\ s = Head1.sess
  BY TaskItem DEF RunFinish
<1>2. todo # <<>> /\ Head1.op = "finish" /\ UNCHANGED <<boot, watched>>
  BY <1>1 DEF RunFinish, Doing, memory
<1>3. Head1 \in Due(todo)
  BY <1>2, DueHead
<1>4. WatchesOf(t) = {} /\ (Mine(t) => generation[t] = g)
  <2>1. PICK h : h = Head1
    OBVIOUS
  <2> QED
    BY <1>1, <1>2, <1>3, <2>1 DEF DutyInv, ItemsInv, Means
<1>5. CASE ~Fence(t, g) /\ UNCHANGED task /\ Goes(<<>>)
  <2>1. ~Mine(t) /\ Own(t)' = {} /\ WatchesOf(t)' = {} /\ \A u \in Tasks : Same(u)
    BY <1>2, <1>4, <1>5 DEF Fence, Mine, Own, task, WatchesOf, Same
  <2>2. <<>> \in Seq(Items) /\ Due(<<>>) = {}
    BY DueFew
  <2>3. \A i \in Due(Tail(todo)) : i.task = t /\ Means(i) => Means(i)'
    BY <1>2, <2>1, SameMeans
  <2> QED
    BY <1>1, <1>2, <1>5, <2>1, <2>2, <2>3, TurnDuty DEF DutyInv
<1>6. ASSUME NEW next, dispatchComplete(t) \/ dispatchFail(t, TRUE), Goes(After(t, next, s))
      PROVE  ItemsInv' /\ WatchInv'
  <2>1. ~Mine(t)' /\ Own(t)' = {} /\ (Kind[t] = "attempt" => Started(t)') /\ WatchesOf(t)' = {}
    BY <1>2, <1>4, <1>6, EndedRow DEF WatchesOf
  <2>2. RowOnly(t)
    BY <1>6, OneRow
  <2>3. \A u \in Tasks : u # t => Same(u)
    BY <1>2, <2>2 DEF RowOnly, Same, WatchesOf
  <2>4. PICK rest \in Seq(CalmItems) : rest = Tail(todo)
    BY <1>2 DEF TurnInv, Calm
  <2>5. \A i \in Due(Tail(todo)) : i.op \notin {"admit", "resume"}
    BY <2>4 DEF Due, CalmItems, Trusting
  <2>6. \A i \in Due(Tail(todo)) : i.task = t /\ Means(i) => Means(i)'
    BY <2>1, <2>5 DEF Means
  <2>7. PICK items \in Seq(Items) : items = After(t, next, s)
    BY AfterType
  <2>8. (\A i \in Due(items) : Means(i)') /\ Goes(items)
    BY <1>6, <2>7, FewMeans
  <2> QED
    BY <1>1, <1>2, <2>1, <2>3, <2>6, <2>8, TurnDuty DEF DutyInv
<1>7. \/ ~Fence(t, g) /\ UNCHANGED task /\ Goes(<<>>)
      \/ \E next : (dispatchComplete(t) \/ dispatchFail(t, TRUE)) /\ Goes(After(t, next, s))
  BY <1>1 DEF RunFinish
<1> QED
  BY <1>5, <1>6, <1>7

LEMMA ResumeDuty ==
    ASSUME TypeOK, TurnInv, LastInv, DutyInv, RunResume
    PROVE  ItemsInv' /\ WatchInv'
<1>1. PICK t \in Tasks, g \in Nat, s \in AnySession : t = Head1.task /\ g = Head1.generation /\ s = worker[t]
  BY TaskItem, WorkerType DEF RunResume
<1>2. todo # <<>> /\ Head1.op = "resume" /\ boot' = boot /\ Tail(todo) = <<>>
  BY <1>1, AloneAtEnd DEF RunResume, Doing, LastOps, PassOps
<1>3. Due(Tail(todo)) = {} /\ Due(todo) = {Head1}
  BY <1>2, DueFew, DueHead
<1>4. WatchesOf(t) = {} /\ Mine(t) /\ generation[t] = g
  <2>1. PICK h : h = Head1
    OBVIOUS
  <2> QED
    BY <1>1, <1>2, <1>3, <2>1 DEF DutyInv, ItemsInv, Means
<1>5. CASE dispatchFail(t, FALSE) /\ Goes(<<Settle(t)>>) /\ UNCHANGED watched
  <2>1. Own(t)' = {} /\ WatchesOf(t)' = {}
    BY <1>4, <1>5, EndedRow DEF WatchesOf
  <2>2. RowOnly(t)
    BY <1>5, OneRow
  <2>3. \A u \in Tasks : u # t => Same(u)
    BY <1>5, <2>2 DEF RowOnly, Same, WatchesOf
  <2>4. PICK i \in Items : i = Settle(t)
    BY ItemTypes, 0 \in Nat, NoSession \in AnySession DEF AnySession
  <2>5. i.op = "settle"
    BY <2>4 DEF Settle, Item
  <2>6. Means(i)' /\ <<i>> \in Seq(Items) /\ Due(<<i>>) = {i} /\ Goes(<<i>>)
    BY <1>5, <2>4, <2>5, FewMeans, DueFew DEF Meaning
  <2> QED
    BY <1>1, <1>2, <1>3, <2>1, <2>3, <2>6, TurnDuty DEF DutyInv
<1>6. ASSUME NEW end \in {"idle", "error"}, Goes(<<Finish(s, t, g, end)>>), UNCHANGED <<task, watched>>
      PROVE  ItemsInv' /\ WatchInv'
  <2>1. \A u \in Tasks : Same(u)
    BY <1>6, SameWatched DEF task
  <2>2. PICK i \in Items : i = Finish(s, t, g, end)
    BY ItemTypes
  <2>3. i.op = "finish" /\ i.task = t /\ i.generation = g
    BY <2>2 DEF Finish, Item
  <2>4. Means(i)'
    BY <1>4, <1>6, <2>1, <2>3 DEF Means, Same, task
  <2>5. <<i>> \in Seq(Items) /\ Due(<<i>>) = {i} /\ Goes(<<i>>)
    BY <1>6, <2>2, DueFew
  <2>6. i \in Due(todo')
    BY <1>2, <2>5, DueGoes
  <2>7. Loose(t)'
    BY <2>3, <2>6 DEF Loose, Loosening
  <2> QED
    BY <1>1, <1>2, <1>3, <2>1, <2>4, <2>5, <2>7, TurnDuty DEF DutyInv
<1>7. CASE watched' = watch(s, t, g) /\ Goes(<<>>) /\ UNCHANGED task
  <2>1. WatchesOf(t)' = {<<s, t, g>>} /\ \A u : u # t => WatchesOf(u)' = WatchesOf(u)
    BY <1>4, <1>7, WatchChanges
  <2>2. WatchesOf(t)' = Own(t)'
    BY <1>1, <1>2, <1>4, <1>7, <2>1 DEF Own, Mine, task
  <2>3. \A u \in Tasks : u # t => Same(u)
    BY <1>7, <2>1 DEF Same, task
  <2>4. <<>> \in Seq(Items) /\ Due(<<>>) = {}
    BY DueFew
  <2> QED
    BY <1>1, <1>2, <1>3, <1>7, <2>2, <2>3, <2>4, TurnDuty DEF DutyInv
<1>8. \/ dispatchFail(t, FALSE) /\ Goes(<<Settle(t)>>) /\ UNCHANGED watched
      \/ \E end \in {"idle", "error"} : Goes(<<Finish(s, t, g, end)>>) /\ UNCHANGED <<task, watched>>
      \/ watched' = watch(s, t, g) /\ Goes(<<>>) /\ UNCHANGED task
  BY <1>1 DEF RunResume
<1> QED
  BY <1>5, <1>6, <1>7, <1>8


LEMMA TurnDuties ==
    ASSUME TypeOK, TurnInv, LastInv, DutyInv, RunTurn
    PROVE  ItemsInv' /\ WatchInv'
  BY ReclaimedDuty, IdleTurns, ClaimDuty, DeferDuty, GroupedSendDuty, RewatchDuty, ThrowDuty, FinishDuty,
     ResumeDuty DEF RunTurn

\* At rest the table is exact.
LEMMA AtRest ==
    ASSUME WatchInv, todo = <<>>
    PROVE  Due(todo) = {} /\ \A t \in Tasks : WatchesOf(t) = Own(t)
  BY DueFew DEF WatchInv, Loose

\* A handler that leaves the rows and their watches alone.
LEMMA RestDuty ==
    ASSUME ItemsInv, WatchInv, boot' = boot, todo' = todo, \A t : Same(t)
    PROVE  ItemsInv' /\ WatchInv'
<1>1. \A i : Means(i) => Means(i)'
  BY SameMeans
<1>2. \A t : Own(t)' = Own(t) /\ WatchesOf(t)' = WatchesOf(t)
  BY SameMeans DEF Same
<1>3. Due(todo') = Due(todo) /\ \A t : Loose(t)' <=> Loose(t)
  BY DEF Due, Loose
<1> QED
  BY <1>1, <1>2, <1>3 DEF ItemsInv, WatchInv

LEMMA QuietDuty ==
    ASSUME TypeOK, DutyInv,
           \/ sendToSession \/ continueWorker \/ spawnWorker \/ Deliveries \/ ConductorTurns \/ Time \/ UNCHANGED vars
           \/ \E s \in Sessions : SessionApproved(s) \/ SessionPrompted(s) \/ SessionVanishes(s)
    PROVE  ItemsInv' /\ WatchInv'
<1>1. UNCHANGED <<status, generation, claim_owner, worker, watched, boot, todo>>
  BY DEF sendToSession, continueWorker, spawnWorker, Deliveries, DeliveryLands, MarkDelivered, DeliveryFails,
         ConductorTurns, Time, LeaseExpires, HoldLapses, CoolsDown, vars, SessionApproved, SessionPrompted,
         SessionVanishes, memory, table, task, world, history
<1> QED
  BY <1>1, SameWatched, RestDuty DEF DutyInv

LEMMA EnqueueDuty ==
    ASSUME TypeOK, TurnInv, DutyInv, enqueue \/ enqueueGroup
    PROVE  ItemsInv' /\ WatchInv'
<1>1. /\ todo = <<>> /\ todo' = todo /\ UNCHANGED <<generation, claim_owner, worker, watched, boot>>
      /\ \E S : (\A t \in S : status[t] = "absent") /\ Submit(S)
  BY GroupAssumption DEF enqueue, enqueueGroup, Quiet, memory, TurnInv, Submit
<1>2. \A t \in Tasks : Own(t)' = Own(t)
  <2>1. \A t \in Tasks : status'[t] = status[t] \/ (status[t] = "absent" /\ status'[t] = "queued")
    BY <1>1 DEF Submit
  <2> QED
    BY <1>1, <2>1 DEF Own, Mine
<1>3. Due(todo') = {} /\ \A t \in Tasks : WatchesOf(t)' = Own(t)'
  BY <1>1, <1>2, AtRest DEF DutyInv, WatchesOf
<1> QED
  BY <1>3 DEF ItemsInv, WatchInv

LEMMA TickDuty ==
    ASSUME TypeOK, TurnInv, DutyInv, StartTick
    PROVE  ItemsInv' /\ WatchInv'
<1>1. todo = <<>> /\ UNCHANGED <<watched, worker, boot>> /\ dispatchReclaimStale
  BY DEF StartTick, Quiet, dispatchReclaimStale
<1>2. PICK order \in Orders({t \in Tasks : Stale(t)}) :
          todo' = [i \in DOMAIN order |-> Reclaimed(order[i])] \o <<Step("renew"), Step("claim")>>
  BY DEF StartTick
<1>3. PICK rows : rows = [i \in DOMAIN order |-> Reclaimed(order[i])]
  OBVIOUS
<1>4. PICK ends : ends = <<Step("renew"), Step("claim")>>
  OBVIOUS
<1>5. /\ ends \in Seq(Items) /\ Due(ends) = {Step("renew"), Step("claim")}
      /\ rows \in Seq(Items) /\ Due(rows) = {Reclaimed(t) : t \in {u \in Tasks : Stale(u)}}
  BY <1>3, <1>4, StepType, StaleList, DueFew
<1>6. Due(todo') = Due(rows) \cup Due(ends)
  BY <1>2, <1>3, <1>4, <1>5, DueJoin
<1>7. ASSUME NEW t \in Tasks, Stale(t)
      PROVE  /\ Reclaimed(t).op = "reclaimed" /\ Reclaimed(t).task = t /\ Loose(t)' /\ Means(Reclaimed(t))'
  <2>1. PICK i : i = Reclaimed(t)
    OBVIOUS
  <2>2. i.op = "reclaimed" /\ i.task = t
    BY <2>1 DEF Reclaimed, Item
  <2>3. i \in Due(todo')
    BY <1>5, <1>6, <1>7, <2>1
  <2>4. status'[t] # "running"
    BY <1>1, <1>7 DEF dispatchReclaimStale, AfterFailure
  <2>5. WatchesOf(t)' = WatchesOf(t) /\ worker'[t] = worker[t] /\ ~Mine(t)'
    BY <1>1, <2>4 DEF WatchesOf, Mine
  <2>6. \A w \in WatchesOf(t)' : w[1] = worker'[t]
    BY <1>1, <2>5, AtRest DEF DutyInv, Own
  <2>7. Means(i)'
    BY <2>2, <2>5, <2>6 DEF Means
  <2> QED
    BY <2>1, <2>2, <2>3, <2>7 DEF Loose, Loosening
<1>8. ASSUME NEW t \in Tasks, ~Stale(t) PROVE WatchesOf(t)' = Own(t)'
  <2>1. status'[t] = status[t] /\ claim_owner'[t] = claim_owner[t] /\ generation'[t] = generation[t]
    BY <1>1, <1>8 DEF dispatchReclaimStale
  <2>2. Own(t)' = Own(t) /\ WatchesOf(t)' = WatchesOf(t)
    BY <1>1, <2>1 DEF Own, Mine, WatchesOf
  <2> QED
    BY <1>1, <2>2, AtRest DEF DutyInv
<1>9. \A op \in {"renew", "claim"} : Means(Step(op))'
  BY FewMeans DEF Meaning
<1> QED
  BY <1>5, <1>6, <1>7, <1>8, <1>9 DEF ItemsInv, WatchInv

\* A handler that touches the row of t only and leaves one item or none.
LEMMA LoneDuty ==
    ASSUME TypeOK, DutyInv, todo = <<>>, boot' = boot, NEW t \in Tasks,
           \A u \in Tasks : u # t => Same(u),
           todo' = <<>> \/ \E i : todo' = <<i>> /\ Means(i)',
           Loose(t)' \/ WatchesOf(t)' = Own(t)'
    PROVE  ItemsInv' /\ WatchInv'
<1>1. ItemsInv'
  BY DueFew DEF ItemsInv
<1>2. \A u \in Tasks : u # t => WatchesOf(u)' = Own(u)'
  BY AtRest, SameMeans DEF DutyInv, Same
<1> QED
  BY <1>1, <1>2 DEF WatchInv

LEMMA HoldDuty ==
    ASSUME TypeOK, DutyInv, NEW t \in Tasks, hold(t)
    PROVE  ItemsInv' /\ WatchInv'
<1>1. todo = <<>> /\ todo' = todo /\ boot' = boot
  BY DEF hold, Quiet
<1>2. CASE UNCHANGED <<task, watched>>
  BY <1>1, <1>2, SameWatched, RestDuty DEF DutyInv, task
<1>3. CASE dispatchHold(t) /\ watched' = unwatch(worker[t], t)
  <2>1. /\ \A u : u # t => WatchesOf(u)' = WatchesOf(u)
        /\ WatchesOf(t)' = {w \in WatchesOf(t) : w[1] # worker[t]}
    BY <1>3, WatchChanges
  <2>2. WatchesOf(t)' = {}
    BY <1>1, <2>1, AtRest DEF DutyInv, Own
  <2>3. RowOnly(t)
    BY <1>3, OneRow
  <2>4. \A u \in Tasks : u # t => Same(u)
    BY <2>1, <2>3 DEF RowOnly, Same
  <2>5. Own(t)' = {}
    BY <1>3 DEF dispatchHold, Own, Mine, TypeOK
  <2> QED
    BY <1>1, <2>2, <2>4, <2>5, LoneDuty
<1> QED
  BY <1>2, <1>3 DEF hold

LEMMA EndDuty ==
    ASSUME TypeOK, DutyInv, todo = <<>>, boot' = boot, NEW t \in Tasks, NEW cost \in {0, 1}, EndAttempt(t, cost),
           todo' = <<Settle(t)>>, \A u : u # t => WatchesOf(u)' = WatchesOf(u), WatchesOf(t)' = {}
    PROVE  ItemsInv' /\ WatchInv'
<1>1. RowOnly(t)
  BY OneRow
<1>2. \A u \in Tasks : u # t => Same(u)
  BY <1>1 DEF RowOnly, Same
<1>3. Own(t)' = {}
  BY DEF EndAttempt, Own, Mine, TypeOK
<1>4. PICK i : i = Settle(t)
  OBVIOUS
<1>5. i.op = "settle"
  BY <1>4 DEF Settle, Item
<1>6. Means(i)'
  BY <1>5 DEF Means
<1> QED
  BY <1>2, <1>3, <1>4, <1>6, LoneDuty

LEMMA UnholdDuty ==
    ASSUME TypeOK, DutyInv, NEW t \in Tasks, unhold(t)
    PROVE  ItemsInv' /\ WatchInv'
<1>1. todo = <<>> /\ UNCHANGED <<boot, watched>> /\ status[t] = "held"
  BY DEF unhold, Quiet
<1>2. WatchesOf(t)' = {} /\ \A u : WatchesOf(u)' = WatchesOf(u)
  BY <1>1, AtRest DEF DutyInv, Own, Mine, WatchesOf
<1>3. CASE EndAttempt(t, 1) /\ todo' = <<Settle(t)>>
  BY <1>1, <1>2, <1>3, EndDuty
<1>4. CASE claim_owner[t] = boot /\ dispatchUnhold(t) /\ todo' = <<Resume(t, generation[t])>>
  <2>1. RowOnly(t)
    BY <1>4, OneRow
  <2>2. \A u \in Tasks : u # t => Same(u)
    BY <1>2, <2>1 DEF RowOnly, Same
  <2>3. PICK i : i = Resume(t, generation[t])
    OBVIOUS
  <2>4. i.op = "resume" /\ i.task = t /\ i.generation = generation[t]
    BY <2>3 DEF Resume, Item
  <2>5. Mine(t)' /\ generation'[t] = generation[t]
    BY <1>1, <1>4 DEF dispatchUnhold, Mine, TypeOK
  <2>6. Means(i)'
    BY <1>2, <2>4, <2>5 DEF Means
  <2>7. Due(todo') = {i}
    BY <1>4, <2>3, DueFew
  <2>8. Loose(t)'
    BY <2>4, <2>7 DEF Loose, Loosening
  <2> QED
    BY <1>1, <1>4, <2>2, <2>3, <2>6, <2>8, LoneDuty
<1> QED
  BY <1>3, <1>4 DEF unhold

LEMMA CancelDuty ==
    ASSUME TypeOK, DutyInv, NEW t \in Tasks, cancel(t)
    PROVE  ItemsInv' /\ WatchInv'
<1>1. /\ todo = <<>> /\ boot' = boot /\ watched' = unwatchTask(t)
      /\ EndAttempt(t, 0) /\ todo' = <<Settle(t)>>
  BY DEF cancel, Quiet
<1>2. WatchesOf(t)' = {} /\ \A u : u # t => WatchesOf(u)' = WatchesOf(u)
  BY <1>1, WatchChanges
<1> QED
  BY <1>1, <1>2, EndDuty


LEMMA ThrowsDuty ==
    ASSUME TypeOK, DutyInv, HostThrows
    PROVE  ItemsInv' /\ WatchInv'
<1>1. /\ todo = <<>> /\ exec.step # "none"
      /\ UNCHANGED <<status, generation, claim_owner, worker, watched, boot>>
  BY DEF HostThrows, Quiet, Refusals, table, task
<1>2. PICK t \in Tasks, g \in Nat, s \in AnySession : t = exec.task /\ g = exec.generation /\ s = exec.sess
  BY <1>1, ExecTypes
<1>3. PICK how \in {"retry", "final"} : todo' = <<Throw(s, t, g, how)>>
  BY <1>2 DEF HostThrows, Refusals
<1>4. PICK i : i = Throw(s, t, g, how)
  OBVIOUS
<1>5. i.op = "throw" /\ i.task = t /\ i.generation = g
  BY <1>4 DEF Throw, Item
<1>6. Mine(t) => generation[t] = g
  BY <1>1, <1>2 DEF DutyInv, CallInv, Mine, Live
<1>7. Means(i)'
  BY <1>1, <1>5, <1>6 DEF Means, Mine
<1>8. \A u : Same(u)
  BY <1>1, SameWatched
<1>9. WatchesOf(t)' = Own(t)'
  BY <1>1, <1>8, AtRest, SameMeans DEF DutyInv, Same
<1> QED
  BY <1>1, <1>3, <1>4, <1>7, <1>8, <1>9, LoneDuty

LEMMA ExecutedDuty ==
    ASSUME TypeOK, DutyInv, Executed
    PROVE  ItemsInv' /\ WatchInv'
<1>1. todo = <<>> /\ exec.step # "none" /\ UNCHANGED boot
  BY DEF Executed, Quiet
<1>2. PICK t \in Tasks, g \in Nat, s \in AnySession : t = exec.task /\ g = exec.generation /\ s = exec.sess
  BY <1>1, ExecTypes
<1>3. /\ status[t] \in Live => claim_owner[t] = boot /\ generation[t] = g
      /\ status[t] = "running" => Kind[t] = "send" /\ t \in Group
  BY <1>1, <1>2 DEF DutyInv, CallInv
<1>4. WatchesOf(t) = Own(t)
  BY <1>1, AtRest DEF DutyInv
<1>5. /\ \A u \in Tasks : u # t => Same(u)
      /\ WatchesOf(t)' = Own(t)'
  <2>1. CASE UNCHANGED <<task, watched>>
    <3>1. \A u : Same(u)
      BY <2>1, SameWatched DEF task
    <3> QED
      BY <1>1, <1>4, <3>1, SameMeans DEF Same
  <2>2. CASE Kind[t] = "send" /\ t \notin Group /\ Fence(t, g) /\ dispatchComplete(t) /\ UNCHANGED watched
    <3>1. status[t] = "claimed"
      BY <1>3, <2>2 DEF Fence
    <3>2. WatchesOf(t)' = {} /\ Own(t)' = {}
      BY <1>4, <2>2, <3>1, EndedRow DEF WatchesOf, Own, Mine
    <3>3. RowOnly(t)
      BY <2>2, OneRow
    <3> QED
      BY <2>2, <3>2, <3>3 DEF RowOnly, Same, WatchesOf
  <2>3. CASE Kind[t] # "send" /\ Fence(t, g) /\ dispatchMarkRunning(t, s) /\ watched' = watch(s, t, g)
    <3>1. status[t] = "claimed" /\ claim_owner[t] = boot /\ generation[t] = g
      BY <1>3, <2>3 DEF Fence, Live
    <3>2. WatchesOf(t) = {}
      BY <1>4, <3>1 DEF Own, Mine
    <3>3. WatchesOf(t)' = {<<s, t, g>>} /\ \A u : u # t => WatchesOf(u)' = WatchesOf(u)
      BY <2>3, <3>2, WatchChanges
    <3>4. Own(t)' = {<<s, t, g>>}
      BY <1>1, <2>3, <3>1 DEF dispatchMarkRunning, Own, Mine, TypeOK
    <3>5. RowOnly(t)
      BY <2>3, OneRow
    <3> QED
      BY <3>3, <3>4, <3>5 DEF RowOnly, Same
  <2>4. \/ UNCHANGED <<task, watched>>
        \/ Kind[t] = "send" /\ t \notin Group /\ Fence(t, g) /\ dispatchComplete(t) /\ UNCHANGED watched
        \/ Kind[t] # "send" /\ Fence(t, g) /\ dispatchMarkRunning(t, s) /\ watched' = watch(s, t, g)
    BY <1>2 DEF Executed
  <2> QED
    BY <2>1, <2>2, <2>3, <2>4
<1>6. \A u \in Tasks : WatchesOf(u)' = Own(u)'
  BY <1>1, <1>5, AtRest, SameMeans DEF DutyInv, Same
<1>7. \A i \in Due(todo') : i.op \notin Meaning
  <2>1. PICK d : d = Destroy(s)
    OBVIOUS
  <2>2. d.op = "destroy" /\ Step("claim").op = "claim" /\ Step("claim") \in Items
    BY <2>1, StepType DEF Destroy, Item, Step
  <2>3. Kind[t] = "spawn" /\ exec.step = "landed" => d \in Items
    BY <1>2, <2>1, ExecTypes, ItemTypes, NamesAssumption DEF Executed, AnySession
  <2>4. \/ todo' = <<Step("claim")>>
        \/ todo' = <<>> \o <<Step("claim")>>
        \/ Kind[t] = "spawn" /\ exec.step = "landed" /\ todo' = <<d>> \o <<Step("claim")>>
    BY <1>2, <2>1 DEF Executed
  <2>5. <<>> \o <<Step("claim")>> = <<Step("claim")>>
    BY <2>2
  <2>6. d \in Items => <<d>> \o <<Step("claim")>> = <<d, Step("claim")>>
    BY <2>2, Pair
  <2> QED
    BY <2>2, <2>3, <2>4, <2>5, <2>6, DueFew DEF Meaning
<1> QED
  BY <1>6, <1>7, FewMeans DEF ItemsInv, WatchInv

\* What is watched at rest.
LEMMA WatcherRow ==
    ASSUME TypeOK, WatchInv, todo = <<>>, NEW s, NEW w \in Watchers(s)
    PROVE  /\ w[2] \in Tasks /\ w = <<s, w[2], w[3]>>
           /\ Mine(w[2]) /\ worker[w[2]] = s /\ generation[w[2]] = w[3]
<1>1. w \in Sessions \X Tasks \X Nat /\ w[1] = s
  BY DEF Watchers, TypeOK
<1>2. PICK t \in Tasks : t = w[2]
  BY <1>1
<1>3. w \in WatchesOf(t)
  BY <1>2 DEF WatchesOf, Watchers
<1>4. w \in Own(t)
  BY <1>3, AtRest
<1>5. Mine(t) /\ w = <<worker[t], t, generation[t]>>
  BY <1>4 DEF Own
<1> QED
  BY <1>1, <1>2, <1>5

LEMMA SettlesDuty ==
    ASSUME TypeOK, DutyInv, NEW s \in Sessions, NEW end \in {"idle", "error"}, SessionSettles(s, end)
    PROVE  ItemsInv' /\ WatchInv'
<1>1. /\ todo = <<>> /\ UNCHANGED <<status, generation, claim_owner, worker, boot>>
      /\ watched' = watched \ Watchers(s)
  BY DEF SessionSettles, Quiet, table, task
<1>3. Due(todo') = {Finish(s, w[2], w[3], end) : w \in Watchers(s)}
  BY FinishList
<1>4. ASSUME NEW w \in Watchers(s), NEW i, i = Finish(s, w[2], w[3], end)
      PROVE  i.op = "finish" /\ i.task = w[2] /\ i.generation = w[3] /\ Means(i)'
  <2>1. i.op = "finish" /\ i.task = w[2] /\ i.generation = w[3]
    BY <1>4 DEF Finish, Item
  <2>2. PICK t \in Tasks : t = w[2]
    BY <1>1, WatcherRow DEF DutyInv
  <2>3. Mine(t) /\ worker[t] = s /\ generation[t] = w[3]
    BY <1>1, <2>2, WatcherRow DEF DutyInv
  <2>4. WatchesOf(t) = Own(t)
    BY <1>1, AtRest DEF DutyInv
  <2>5. \A v \in WatchesOf(t) : v[1] = s
    BY <2>3, <2>4 DEF Own
  <2>6. WatchesOf(t)' = {}
    BY <1>1, <2>5 DEF WatchesOf, Watchers
  <2>7. (Mine(t) => generation[t] = w[3])'
    BY <1>1, <2>3 DEF Mine
  <2> QED
    BY <2>1, <2>2, <2>6, <2>7 DEF Means
<1>5. ASSUME NEW t \in Tasks PROVE Loose(t)' \/ WatchesOf(t)' = Own(t)'
  <2>1. WatchesOf(t) = Own(t) /\ Own(t)' = Own(t)
    BY <1>1, AtRest DEF DutyInv, Own, Mine
  <2>2. CASE \A w \in WatchesOf(t) : w[1] # s
    BY <1>1, <2>1, <2>2 DEF WatchesOf, Watchers
  <2>3. ASSUME NEW w \in WatchesOf(t), w[1] = s PROVE Loose(t)'
    <3>1. w \in Watchers(s) /\ w[2] = t
      BY <2>3 DEF WatchesOf, Watchers
    <3>2. PICK i : i = Finish(s, w[2], w[3], end)
      OBVIOUS
    <3>3. i \in Due(todo') /\ i.op = "finish" /\ i.task = t
      BY <1>3, <1>4, <3>1, <3>2
    <3> QED
      BY <3>3 DEF Loose, Loosening
  <2> QED
    BY <2>2, <2>3
<1> QED
  BY <1>3, <1>4, <1>5 DEF ItemsInv, WatchInv

LEMMA WaitsDuty ==
    ASSUME TypeOK, DutyInv, NEW s \in Sessions, SessionWaits(s)
    PROVE  ItemsInv' /\ WatchInv'
<1>1. todo = <<>> /\ UNCHANGED <<status, generation, claim_owner, worker, boot, watched>>
  BY DEF SessionWaits, Quiet, table, task, memory
<1>2. PICK order \in Orders(Watchers(s)) : todo' = [i \in DOMAIN order |-> Wedge(s, order[i][2], order[i][3])]
  BY DEF SessionWaits
<1>3. Due(todo') = {Wedge(s, w[2], w[3]) : w \in Watchers(s)}
  BY <1>2, WatcherList
<1>4. ASSUME NEW w \in Watchers(s), NEW i, i = Wedge(s, w[2], w[3]) PROVE Means(i)'
  <2>1. i.op = "wedge" /\ i.task = w[2]
    BY <1>4 DEF Wedge, Item
  <2>2. PICK t \in Tasks : t = w[2] /\ Mine(t)
    BY <1>1, WatcherRow DEF DutyInv
  <2>3. Started(t)'
    BY <1>1, <2>2 DEF Mine, Started
  <2> QED
    BY <2>1, <2>2, <2>3 DEF Means
<1>5. \A t : Same(t)
  BY <1>1, SameWatched
<1>6. \A t \in Tasks : WatchesOf(t)' = Own(t)'
  BY <1>1, <1>5, AtRest, SameMeans DEF DutyInv, Same
<1> QED
  BY <1>3, <1>4, <1>6 DEF ItemsInv, WatchInv

LEMMA CrashDuty ==
    ASSUME TypeOK, DutyInv, Crash
    PROVE  ItemsInv' /\ WatchInv'
<1>1. /\ todo' = <<>> /\ watched' = {} /\ boot' = boot + 1 /\ UNCHANGED claim_owner /\ boot \in Nat
      /\ claim_owner \in [Tasks -> Nat]
  BY BoundsAssumption DEF Crash, table, task, TypeOK
<1>2. \A t \in Tasks : WatchesOf(t)' = {} /\ Own(t)' = {}
  BY <1>1 DEF WatchesOf, Own, Mine, DutyInv, OwnerInv
<1> QED
  BY <1>1, <1>2, DueFew DEF ItemsInv, WatchInv

LEMMA DutyStep ==
    ASSUME TypeOK, TurnInv, LastInv, DutyInv, [Next]_vars
    PROVE  ItemsInv' /\ WatchInv'
  BY TurnDuties, QuietDuty, EnqueueDuty, TickDuty, HoldDuty, UnholdDuty, CancelDuty, ThrowsDuty, ExecutedDuty,
     SettlesDuty, WaitsDuty, CrashDuty DEF Next, Handlers, Loop, Execution, SessionSteps


\* The row of a call: as it was, or no longer one that the call may change.
CallRow(t, g) ==
    /\ status[t] # "held"
    /\ status[t] \in Live => generation[t] = g /\ claim_owner[t] = boot
    /\ status[t] = "running" => Kind[t] = "send" /\ t \in Group

LEMMA CallKept ==
    ASSUME NEW t, NEW g, CallRow(t, g), boot' = boot,
           \/ status'[t] = status[t] /\ generation'[t] = generation[t] /\ claim_owner'[t] = claim_owner[t]
           \/ status'[t] \notin Live \cup {"held"}
    PROVE  CallRow(t, g)'
  BY DEF CallRow, Live

LEMMA TurnCall ==
    ASSUME TypeOK, TurnInv, LastInv, PassInv, DutyInv, RunTurn
    PROVE  CallInv'
<1> USE DEF memory, world, history, table, task
<1>1. CASE RunExecute \/ RunGroupedSend
  <2>1. PICK t \in Tasks : t = Head1.task
    BY <1>1, TaskItem DEF RunExecute, RunGroupedSend
  <2>2. status[t] = "claimed" /\ claim_owner[t] = boot /\ generation[t] \in Nat
    BY <1>1, <2>1, Admitted, WorkerType DEF RunExecute, RunGroupedSend, DutyInv
  <2>3. CASE RunExecute
    <3>1. exec'.task = t /\ exec'.generation = generation[t] /\ UNCHANGED <<status, generation, claim_owner, boot>>
      BY <2>1, <2>3 DEF RunExecute, Start
    <3> QED
      BY <2>2, <3>1 DEF CallInv
  <2>4. CASE RunGroupedSend
    <3>1. /\ exec'.task = t /\ exec'.generation = generation[t] /\ UNCHANGED <<generation, claim_owner, boot>>
          /\ Kind[t] = "send" /\ t \in Group /\ status'[t] = "running"
      BY <2>1, <2>4 DEF RunGroupedSend, Start, dispatchMarkRunning, TypeOK
    <3> QED
      BY <2>2, <3>1 DEF CallInv
  <2> QED
    BY <1>1, <2>3, <2>4
<1>2. CASE ~RunExecute /\ ~RunGroupedSend
  <2>1. exec' = exec /\ boot' = boot /\ todo # <<>>
    BY <1>2 DEF RunTurn, RunReclaimed, RunRenew, RunClaim, RunNothingReady, RunDefer, RunGroupedRewatch, RunThrow,
                RunFinish, RunEmit, RunSettle, RunWedge, RunResume, RunDestroy, RunDeliver, Doing
  <2> SUFFICES ASSUME exec.step # "none", NEW t \in Tasks, NEW g \in Nat, t = exec.task, g = exec.generation
               PROVE  CallRow(t, g)'
    <3>1. exec.step # "none" => exec.task \in Tasks /\ exec.generation \in Nat
      BY ExecTypes
    <3> QED
      BY <2>1, <3>1 DEF CallInv, CallRow
  <2>3. CallRow(t, g)
    BY DEF DutyInv, CallInv, CallRow
  <2>4. Head1.op \notin PassOps
    BY <2>1, DueHead DEF PassInv
  <2>5. CASE UNCHANGED <<status, generation, claim_owner>>
    BY <2>1, <2>3, <2>5, CallKept
  <2>6. ASSUME NEW u \in Tasks, NEW r \in BOOLEAN, dispatchComplete(u) \/ dispatchFail(u, r)
        PROVE  CallRow(t, g)'
    <3>1. CASE u = t
      <4>1. Failed(t, r) \in {"failed", "blocked", "queued"}
        BY DEF Failed, AfterFailure
      <4>2. status'[t] \in {"done", "failed", "blocked", "queued"}
        BY <2>6, <3>1, <4>1 DEF dispatchComplete, dispatchFail, TypeOK
      <4> QED
        BY <2>1, <2>3, <4>2, CallKept DEF Live
    <3>2. CASE u # t
      <4>1. RowOnly(u)
        BY <2>6, OneRow
      <4> QED
        BY <2>1, <2>3, <3>2, <4>1, CallKept DEF RowOnly
    <3> QED
      BY <3>1, <3>2
  <2>7. CASE RunFinish \/ RunResume
    <3>1. Head1.task \in Tasks
      BY <2>7, TaskItem DEF RunFinish, RunResume
    <3>2. \/ UNCHANGED <<status, generation, claim_owner>>
          \/ \E r \in BOOLEAN : dispatchComplete(Head1.task) \/ dispatchFail(Head1.task, r)
      BY <2>7 DEF RunFinish, RunResume
    <3> QED
      BY <2>5, <2>6, <3>1, <3>2
  <2>8. CASE ~RunFinish /\ ~RunResume
    BY <1>2, <2>4, <2>5, <2>8 DEF RunTurn, RunReclaimed, RunRenew, RunClaim, RunNothingReady, RunDefer,
       RunGroupedRewatch, RunThrow, RunEmit, RunSettle, RunWedge, RunDestroy, RunDeliver, Doing, PassOps, dispatchTouch
  <2> QED
    BY <2>7, <2>8
<1> QED
  BY <1>1, <1>2

LEMMA FreshCall ==
    ASSUME TypeOK, TurnInv, PassInv, DutyInv, [Next]_vars, ~RunTurn
    PROVE  CallInv'
<1> USE DEF memory, world, history, table, task
<1>1. CASE HostThrows \/ Executed \/ Crash
  BY <1>1 DEF HostThrows, Executed, Crash, CallInv, NoExec
<1>2. CASE ~(HostThrows \/ Executed \/ Crash)
  <2>1. /\ boot' = boot
        /\ exec' = exec \/ (exec.step # "none" /\ exec'.task = exec.task /\ exec'.generation = exec.generation)
    <3>1. CASE sendToSession \/ continueWorker \/ spawnWorker
      <4>1. exec.step # "none" /\ boot' = boot
        BY <3>1 DEF sendToSession, continueWorker, spawnWorker
      <4>2. exec \in ExecsOf(Sends, {"send", "gsend", "landed"}, AnySession)
                     \cup ExecsOf(Tasks \ Sends, {"spawn"}, AnySession)
                     \cup ExecsOf(Tasks \ Sends, {"continue", "landed", "continued"}, Sessions)
        BY <4>1 DEF TypeOK, Execs, NoExec
      <4> QED
        BY <3>1, <4>1, <4>2 DEF sendToSession, continueWorker, spawnWorker, ExecsOf
    <3>2. CASE Handlers \/ Loop
      BY <3>2 DEF Handlers, enqueue, enqueueGroup, StartTick, Loop, hold, unhold, cancel
    <3>3. CASE Deliveries \/ ConductorTurns \/ Time \/ UNCHANGED vars
      BY <3>3 DEF Deliveries, DeliveryLands, MarkDelivered, DeliveryFails, ConductorTurns, Time, LeaseExpires,
                  HoldLapses, CoolsDown, vars
    <3>4. CASE SessionSteps
      BY <3>4 DEF SessionSteps, SessionSettles, SessionWaits, SessionApproved, SessionPrompted, SessionVanishes
    <3> QED
      BY <1>2, <3>1, <3>2, <3>3, <3>4 DEF Next, Execution
  <2> SUFFICES ASSUME exec.step # "none", NEW t \in Tasks, NEW g \in Nat, t = exec.task, g = exec.generation
               PROVE  CallRow(t, g)'
    <3>1. exec.step # "none" => exec.task \in Tasks /\ exec.generation \in Nat
      BY ExecTypes
    <3> QED
      BY <2>1, <3>1 DEF CallInv, CallRow
  <2>3. CallRow(t, g)
    BY DEF DutyInv, CallInv, CallRow
  <2>4. CASE UNCHANGED <<status, generation, claim_owner>>
    BY <2>1, <2>3, <2>4, CallKept
  <2>5. CASE enqueue \/ enqueueGroup
    <3>1. status'[t] \in {status[t], "queued"} /\ UNCHANGED <<generation, claim_owner>>
      BY <2>5 DEF enqueue, enqueueGroup, Submit
    <3> QED
      BY <2>1, <2>3, <3>1, CallKept DEF Live
  <2>6. ~StartTick
    BY DEF StartTick, PassInv
  <2>7. ASSUME NEW u \in Tasks, hold(u) \/ unhold(u) \/ cancel(u) PROVE CallRow(t, g)'
    <3>1. CASE UNCHANGED <<status, generation, claim_owner>>
      BY <2>4, <3>1
    <3>2. CASE dispatchHold(u) /\ hold(u) /\ status[u] \in Live
      <4>1. Kind[u] = "attempt" /\ Started(u)
        BY <3>2 DEF hold, TurnInv, DutyInv, InboxInv
      <4>2. status[u] = "running"
        BY <3>2, <4>1 DEF Started, Terminal, TERMINAL_TASK_STATUS, Live
      <4>3. u # t /\ RowOnly(u)
        BY <2>3, <3>2, <4>1, <4>2, OneRow DEF CallRow
      <4> QED
        BY <2>1, <2>3, <4>3, CallKept DEF RowOnly
    <3>3. CASE dispatchUnhold(u) /\ status[u] = "held"
      <4>1. u # t /\ RowOnly(u)
        BY <2>3, <3>3, OneRow DEF CallRow
      <4> QED
        BY <2>1, <2>3, <4>1, CallKept DEF RowOnly
    <3>4. ASSUME NEW cost, EndAttempt(u, cost) PROVE CallRow(t, g)'
      <4>1. CASE u = t
        <5>1. status'[t] = "failed"
          BY <3>4, <4>1 DEF EndAttempt, TypeOK
        <5> QED
          BY <2>1, <2>3, <5>1, CallKept DEF Live
      <4>2. CASE u # t
        <5>1. RowOnly(u)
          BY <3>4, OneRow
        <5> QED
          BY <2>1, <2>3, <4>2, <5>1, CallKept DEF RowOnly
      <4> QED
        BY <4>1, <4>2
    <3> QED
      BY <2>7, <3>1, <3>2, <3>3, <3>4 DEF hold, unhold, cancel, Live
  <2>8. CASE sendToSession \/ continueWorker \/ spawnWorker \/ Deliveries \/ ConductorTurns \/ UNCHANGED vars
    BY <2>4, <2>8 DEF sendToSession, continueWorker, spawnWorker, Deliveries, DeliveryLands, MarkDelivered,
       DeliveryFails, ConductorTurns, vars
  <2>9. CASE SessionSteps
    BY <2>4, <2>9 DEF SessionSteps, SessionSettles, SessionWaits, SessionApproved, SessionPrompted, SessionVanishes
  <2>10. CASE Time
    BY <2>4, <2>10 DEF Time, LeaseExpires, HoldLapses, CoolsDown
  <2> QED
    BY <1>2, <2>5, <2>6, <2>7, <2>8, <2>9, <2>10 DEF Next, Handlers, Loop, Execution
<1> QED
  BY <1>1, <1>2

\* An attempt that was started stays so, or is parked or over.
LEMMA StartedKept ==
    ASSUME TypeOK, TurnInv, StoreMove, NEW t \in Tasks, Kind[t] = "attempt", Started(t)
    PROVE  Started(t)'
<1> USE DEF Started, Terminal, TERMINAL_TASK_STATUS
<1>1. CASE UNCHANGED <<status, attempts, generation>>
  BY <1>1
<1>2. ASSUME NEW u \in Tasks,
             \/ status[u] = "queued" /\ dispatchClaimNext(u)
             \/ \E s : status[u] \in Live /\ dispatchMarkRunning(u, s)
             \/ status[u] \in Live /\ dispatchComplete(u)
             \/ \E r : status[u] \in Live /\ dispatchFail(u, r)
             \/ dispatchHold(u)
             \/ dispatchUnhold(u)
             \/ \E cost : EndAttempt(u, cost)
             \/ Doing("admit") /\ u = Head1.task /\ dispatchRelease(u)
      PROVE  Started(t)'
  <2>1. CASE u # t
    <3>1. RowOnly(u)
      BY <1>2, OneRow
    <3> QED
      BY <2>1, <3>1 DEF RowOnly
  <2>2. CASE u = t
    BY <1>2, <2>2 DEF dispatchClaimNext, dispatchMarkRunning, dispatchComplete, dispatchFail, Failed, AfterFailure,
                      dispatchHold, dispatchUnhold, EndAttempt, dispatchRelease, TurnInv, TypeOK
  <2> QED
    BY <2>1, <2>2
<1>3. ASSUME NEW S \in SUBSET Tasks, \A u \in S : status[u] = "absent", Submit(S) PROVE Started(t)'
  BY <1>3 DEF Submit
<1>4. CASE dispatchReclaimStale
  BY <1>4 DEF dispatchReclaimStale, AfterFailure
<1> QED
  BY <1>1, <1>2, <1>3, <1>4 DEF StoreMove

LEMMA InboxStep ==
    ASSUME TypeOK, TurnInv, DutyInv, [Next]_vars
    PROVE  InboxInv'
<1> USE DEF memory, world, history, table, task
<1>1. ASSUME NEW t \in Tasks, <<t, "waiting">> \in inbox PROVE Started(t)'
  <2>1. Kind[t] = "attempt" /\ Started(t)
    BY <1>1 DEF TurnInv, DutyInv, InboxInv
  <2> QED
    BY <2>1, StepMoves, StartedKept
<1>2. CASE \A t \in Tasks : <<t, "waiting">> \in inbox' => <<t, "waiting">> \in inbox
  BY <1>1, <1>2 DEF InboxInv
<1>3. CASE RunWedge
  <2>1. PICK t \in Tasks : t = Head1.task
    BY <1>3, TaskItem DEF RunWedge
  <2>2. todo # <<>> /\ Head1.op = "wedge" /\ UNCHANGED status
    BY <1>3 DEF RunWedge, Doing
  <2>3. Kind[t] = "attempt" => Started(t)'
    <3>1. PICK h : h = Head1
      OBVIOUS
    <3> QED
      BY <2>1, <2>2, <3>1, DueHead DEF DutyInv, ItemsInv, Means, Started, Terminal
  <2>4. inbox' = inbox \/ (Kind[t] = "attempt" /\ inbox' = inbox \cup {<<t, "waiting">>})
    BY <1>3, <2>1 DEF RunWedge
  <2> QED
    BY <1>1, <2>3, <2>4 DEF InboxInv
<1>4. CASE RunResume
  <2>1. PICK t \in Tasks : t = Head1.task /\ status[t] = "running"
    BY <1>4, TaskItem DEF RunResume, TurnInv
  <2>2. inbox' = inbox \/ (UNCHANGED task /\ inbox' = inbox \cup {<<t, "waiting">>})
    BY <1>4, <2>1 DEF RunResume
  <2> QED
    BY <1>1, <2>1, <2>2 DEF InboxInv, Started
<1>5. CASE RunTurn /\ ~RunWedge /\ ~RunResume
  <2>1. inbox' = inbox
    BY <1>5 DEF RunTurn, RunReclaimed, RunRenew, RunClaim, RunNothingReady, RunDefer, RunExecute, RunGroupedSend,
                RunGroupedRewatch, RunThrow, RunFinish, RunEmit, RunSettle, RunDestroy, RunDeliver
  <2> QED
    BY <1>2, <2>1
<1>6. \A s : \A t : <<t, "waiting">> \notin Answered(s)
  BY DEF Answered
<1>7. CASE Handlers \/ Loop
  BY <1>2, <1>7 DEF Handlers, enqueue, enqueueGroup, StartTick, Loop, hold, unhold, cancel
<1>8. CASE Execution
  BY <1>2, <1>8 DEF Execution, sendToSession, continueWorker, spawnWorker, HostThrows, Executed
<1>9. CASE Deliveries \/ ConductorTurns \/ Time \/ Crash \/ UNCHANGED vars
  BY <1>2, <1>9 DEF Deliveries, DeliveryLands, MarkDelivered, DeliveryFails, ConductorTurns, Time, LeaseExpires,
              HoldLapses, CoolsDown, Crash, vars
<1>10. CASE SessionSteps
  BY <1>2, <1>6, <1>10 DEF SessionSteps, SessionSettles, SessionWaits, SessionApproved, SessionPrompted, SessionVanishes
<1> QED
  BY <1>3, <1>4, <1>5, <1>7, <1>8, <1>9, <1>10 DEF Next

LEMMA OwnerStep ==
    ASSUME TypeOK, DutyInv, [Next]_vars
    PROVE  OwnerInv'
<1> USE DEF memory, world, history, table, task
<1>1. boot \in Nat /\ claim_owner \in [Tasks -> Nat] /\ \A t \in Tasks : claim_owner[t] <= boot
  BY BoundsAssumption DEF TypeOK, DutyInv, OwnerInv
<1>2. CASE claim_owner' = claim_owner /\ boot' \in {boot, boot + 1}
  BY <1>1, <1>2 DEF OwnerInv
<1>3. ASSUME NEW t \in Tasks, dispatchClaimNext(t) \/ Unclaimed(t), boot' = boot PROVE OwnerInv'
  BY <1>1, <1>3 DEF dispatchClaimNext, Unclaimed, OwnerInv
<1>4. CASE RunTurn
  <2>1. boot' = boot
    BY <1>4 DEF RunTurn, RunReclaimed, RunRenew, RunClaim, RunNothingReady, RunDefer, RunExecute, RunGroupedSend,
                RunGroupedRewatch, RunThrow, RunFinish, RunEmit, RunSettle, RunWedge, RunResume, RunDestroy, RunDeliver
  <2>2. CASE RunThrow \/ RunFinish \/ RunResume \/ RunDefer
    <3>1. Head1.task \in Tasks
      BY <2>2, TaskItem DEF RunThrow, RunFinish, RunResume, RunDefer
    <3>2. claim_owner' = claim_owner \/ Unclaimed(Head1.task)
      BY <2>2 DEF RunThrow, RunFinish, RunResume, RunDefer, dispatchFail, dispatchComplete, dispatchRelease
    <3> QED
      BY <1>2, <1>3, <2>1, <3>1, <3>2
  <2>3. CASE RunClaim
    BY <1>3, <2>1, <2>3 DEF RunClaim
  <2>4. CASE ~RunThrow /\ ~RunFinish /\ ~RunResume /\ ~RunDefer /\ ~RunClaim
    <3>1. claim_owner' = claim_owner
      BY <1>4, <2>4 DEF RunTurn, RunReclaimed, RunRenew, RunNothingReady, RunExecute, RunGroupedSend,
           RunGroupedRewatch, RunEmit, RunSettle, RunWedge, RunDestroy, RunDeliver, dispatchTouch, dispatchMarkRunning
    <3> QED
      BY <1>2, <2>1, <3>1
  <2> QED
    BY <2>2, <2>3, <2>4
<1>5. CASE enqueue \/ enqueueGroup
  BY <1>2, <1>5 DEF enqueue, enqueueGroup, Submit
<1>6. CASE StartTick
  BY <1>1, <1>6 DEF StartTick, dispatchReclaimStale, OwnerInv
<1>7. ASSUME NEW t \in Tasks, hold(t) \/ unhold(t) \/ cancel(t) PROVE OwnerInv'
  <2>1. boot' = boot /\ (claim_owner' = claim_owner \/ Unclaimed(t))
    BY <1>7 DEF hold, unhold, cancel, dispatchHold, dispatchUnhold, EndAttempt
  <2> QED
    BY <1>2, <1>3, <2>1
<1>8. CASE Execution
  BY <1>2, <1>8 DEF Execution, sendToSession, continueWorker, spawnWorker, HostThrows, Executed, dispatchComplete,
              dispatchMarkRunning
<1>9. CASE Deliveries \/ ConductorTurns \/ Time \/ Crash \/ UNCHANGED vars
  BY <1>2, <1>9 DEF Deliveries, DeliveryLands, MarkDelivered, DeliveryFails, ConductorTurns, Time, LeaseExpires,
              HoldLapses, CoolsDown, Crash, vars
<1>10. CASE SessionSteps
  BY <1>2, <1>10 DEF SessionSteps, SessionSettles, SessionWaits, SessionApproved, SessionPrompted, SessionVanishes
<1> QED
  BY <1>4, <1>5, <1>6, <1>7, <1>8, <1>9, <1>10 DEF Next, Handlers, Loop

\* The order of the turn, the watches and the calls, in every state.
LEMMA DutyCorrect == Spec => [](LastInv /\ PassInv /\ DutyInv)
<1>1. Init => LastInv /\ PassInv /\ DutyInv
  <2> SUFFICES ASSUME Init PROVE LastInv /\ PassInv /\ DutyInv
    OBVIOUS
  <2>1. todo = <<>> /\ Due(todo) = {} /\ exec.step = "none" /\ inbox = {} /\ watched = {}
    BY DueFew DEF Init, NoExec
  <2>2. LastInv /\ PassInv /\ ItemsInv /\ CallInv /\ InboxInv
    BY <2>1 DEF LastInv, PassInv, ItemsInv, CallInv, InboxInv
  <2>3. \A t \in Tasks : WatchesOf(t) = {} /\ Own(t) = {} /\ claim_owner[t] <= boot
    BY <2>1 DEF Init, WatchesOf, Own, Mine
  <2> QED
    BY <2>2, <2>3 DEF DutyInv, WatchInv, OwnerInv
<1>2. TypeOK /\ TypeOK' /\ TurnInv /\ LastInv /\ PassInv /\ DutyInv /\ [Next]_vars => (LastInv /\ PassInv /\ DutyInv)'
  BY LastStep, PassStep, DutyStep, TurnCall, FreshCall, InboxStep, OwnerStep DEF DutyInv
<1> QED
  BY <1>1, <1>2, TypeCorrect, TurnCorrect, PTL DEF Spec

(* WatchTableExact: between two turns the in-memory table names exactly the    *)
(* workers of the rows this boot has running, whichever of #watch, #unwatch,   *)
(* the catch of #execute, a reclaim, a hold or a session's end came last.      *)
THEOREM WatchesExact == Spec => []WatchTableExact
<1>1. TypeOK /\ DutyInv => WatchTableExact
  <2> SUFFICES ASSUME TypeOK, DutyInv, todo = <<>>
               PROVE  watched = {<<worker[t], t, generation[t]>> :
                                    t \in {r \in Tasks : status[r] = "running" /\ claim_owner[r] = boot}}
    BY DEF WatchTableExact, Quiet
  <2>1. \A t \in Tasks : WatchesOf(t) = Own(t)
    BY AtRest DEF DutyInv
  <2>2. ASSUME NEW w \in watched
        PROVE  \E t \in Tasks : status[t] = "running" /\ claim_owner[t] = boot /\ w = <<worker[t], t, generation[t]>>
    <3>1. w \in Watchers(w[1])
      BY DEF Watchers
    <3> QED
      BY <3>1, WatcherRow DEF DutyInv, Mine
  <2>3. ASSUME NEW t \in Tasks, status[t] = "running", claim_owner[t] = boot
        PROVE  <<worker[t], t, generation[t]>> \in watched
    <3>1. <<worker[t], t, generation[t]>> \in WatchesOf(t)
      BY <2>1, <2>3 DEF Own, Mine
    <3> QED
      BY <3>1 DEF WatchesOf
  <2> QED
    BY <2>2, <2>3
<1> QED
  BY <1>1, TypeCorrect, DutyCorrect, PTL

-----------------------------------------------------------------------------
(* An end is told.  From the statement that ends a task on, the turn holds an  *)
(* item that will tell of it, until the event or the report is there.          *)
Speaks(i, t) ==
    /\ i.task = t
    /\ i.op = "reclaimed" \/ i.op = (IF Kind[t] = "attempt" THEN "settle" ELSE "emit")
Heard(t) == \E i \in Due(todo) : Speaks(i, t)

Joined == \E i \in DOMAIN events : events[i].type = "group_done"
Said(t) ==
    CASE Kind[t] = "attempt" -> settled[t] > 0
      [] t \in Group -> BarrierPending \/ Joined
      [] OTHER -> Told(t) \/ (Kind[t] = "send" /\ status[t] = "done")
ToldRow(t) ==
    Terminal(t) =>
        Said(t) \/ IF t \in Group THEN \E u \in Group : Terminal(u) /\ Heard(u) ELSE Heard(t)
ToldInv == \A t \in Tasks : ToldRow(t)

\* What was told stays told.
LEMMA SaidKept ==
    ASSUME TypeOK, [Next]_vars
    PROVE  /\ Joined => Joined'
           /\ \A t \in Tasks : (Told(t) => Told(t)') /\ (settled[t] > 0 => settled'[t] > 0)
<1> DEFINE StillTold == (Joined => Joined') /\ \A t \in Tasks : Told(t) => Told(t)'
<1>1. ASSUME DOMAIN events' = DOMAIN events,
             \A i \in DOMAIN events : events'[i].type = events[i].type /\ events'[i].task = events[i].task
      PROVE  StillTold
  BY <1>1 DEF Joined, Told
<1>2. ASSUME RunEmit, events' # events PROVE StillTold
  <2>1. PICK e \in Event : events' = Append(events, e)
    BY <1>2, EmitAdds
  <2>2. DOMAIN events \subseteq DOMAIN events' /\ \A i \in DOMAIN events : events'[i] = events[i]
    BY <2>1 DEF TypeOK
  <2> QED
    BY <2>2 DEF Joined, Told
<1>3. ASSUME Deliveries PROVE StillTold
  <2>1. \A i \in DOMAIN events : events[i] \in Event
    BY DEF TypeOK
  <2> QED
    BY <1>1, <1>3, <2>1 DEF Deliveries, DeliveryLands, MarkDelivered, DeliveryFails, table, Event
<1>4. StillTold
  BY <1>1, <1>2, <1>3, EventSteps DEF RunDeliver, Crash, table
<1>5. \A t \in Tasks : settled[t] > 0 => settled'[t] > 0
  <2>1. CASE RunSettle
    BY <2>1, TaskItem DEF RunSettle, TypeOK
  <2>2. CASE ~RunSettle
    BY <2>2, SettledKept
  <2> QED
    BY <2>1, <2>2
<1> QED
  BY <1>4, <1>5

LEMMA AfterTells ==
    ASSUME NEW t \in Tasks, NEW next, NEW s \in AnySession, next # "queued"
    PROVE  \E i \in Due(After(t, next, s)) : Speaks(i, t)
<1>1. PICK e, w : e = Emit(t, EventOf(next)) /\ w = Settle(t)
  OBVIOUS
<1>2. e.op = "emit" /\ e.task = t /\ w.op = "settle" /\ w.task = t
  BY <1>1 DEF Emit, Settle, Item
<1>3. IF Kind[t] = "attempt" THEN w \in Due(After(t, next, s)) ELSE e \in Due(After(t, next, s))
  BY <1>1, AfterDue
<1> QED
  BY <1>2, <1>3 DEF Speaks

(* A statement leaves word of what it ended and of what it was to tell and     *)
(* did not.                                                                    *)
Telling(items) ==
    /\ todo # <<>> /\ Goes(items)
    /\ \A t \in Tasks :
          \/ ~Terminal(t) /\ Terminal(t)'
          \/ Terminal(t) /\ Speaks(Head1, t) /\ Head1.op = "reclaimed"
          => \E i \in Due(items) : Speaks(i, t)

LEMMA TurnTells ==
    ASSUME TypeOK, TurnInv, RunTurn
    PROVE  \E items \in Seq(Items) : Telling(items)
<1> USE DEF memory, world, history, table, task
<1>1. PICK some \in Seq(Items) : todo # <<>> /\ Goes(some)
  BY TurnFollows DEF Follows
<1>2. CASE Head1.op # "reclaimed" /\ \A t \in Tasks : Terminal(t)' => Terminal(t)
  BY <1>1, <1>2 DEF Telling
<1>3. ASSUME NEW t \in Tasks, RowOnly(t), Head1.op # "reclaimed", NEW next, Terminal(t)' => next # "queued",
             NEW s \in AnySession, NEW more \in Seq(Items), Goes(After(t, next, s) \o more)
      PROVE  \E items \in Seq(Items) : Telling(items)
  <2>1. PICK q \in Seq(Items) : q = After(t, next, s)
    BY AfterType
  <2>2. q \o more \in Seq(Items) /\ Due(q) \subseteq Due(q \o more) /\ Goes(q \o more)
    BY <1>3, <2>1, DueJoin
  <2>3. \A u \in Tasks : u # t => (Terminal(u)' <=> Terminal(u))
    BY <1>3 DEF RowOnly, Terminal
  <2>4. Terminal(t)' => \E i \in Due(q \o more) : Speaks(i, t)
    BY <1>3, <2>1, <2>2, AfterTells
  <2> QED
    BY <1>1, <1>3, <2>2, <2>3, <2>4 DEF Telling
<1>e. \A t \in Tasks, next, s \in AnySession : Goes(After(t, next, s)) => Goes(After(t, next, s) \o <<>>)
  BY AfterType, ConcatEmptySeq
<1>4. CASE RunReclaimed
  <2>1. PICK t \in Tasks : t = Head1.task
    BY <1>4, TaskItem DEF RunReclaimed
  <2>2. After(t, status[t], worker[t]) \in Seq(Items) /\ Goes(After(t, status[t], worker[t])) /\ status' = status
    BY <1>4, <2>1, AfterType, WorkerType DEF RunReclaimed
  <2>3. Terminal(t) => \E i \in Due(After(t, status[t], worker[t])) : Speaks(i, t)
    BY AfterTells, WorkerType DEF Terminal, TERMINAL_TASK_STATUS
  <2>4. \A u : Speaks(Head1, u) => u = t
    BY <2>1 DEF Speaks
  <2> QED
    BY <1>1, <2>2, <2>3, <2>4 DEF Telling, Terminal
<1>5. CASE RunRenew \/ RunNothingReady \/ RunExecute \/ RunSettle \/ RunWedge \/ RunDestroy \/ RunDeliver \/ RunEmit
  <2>1. Head1.op # "reclaimed" /\ status' = status
    BY <1>5 DEF RunRenew, RunNothingReady, RunExecute, RunSettle, RunWedge, RunDestroy, RunDeliver, RunEmit,
       dispatchTouch, Doing
  <2> QED
    BY <1>2, <2>1 DEF Terminal
<1>6. CASE RunClaim \/ RunDefer \/ RunGroupedSend \/ RunGroupedRewatch
  <2>1. Head1.op # "reclaimed"
    BY <1>6 DEF RunClaim, RunDefer, RunGroupedSend, RunGroupedRewatch, Doing
  <2>2. \/ status' = status
        \/ \E t \in Tasks : RowOnly(t) /\ status'[t] \in {"claimed", "queued", "running"}
    <3>1. CASE RunClaim
      <4>1. PICK t \in Tasks : dispatchClaimNext(t)
        BY <3>1 DEF RunClaim
      <4> QED
        BY <4>1, OneRow DEF dispatchClaimNext, TypeOK
    <3>2. CASE RunDefer \/ RunGroupedSend \/ RunGroupedRewatch
      <4>1. PICK t \in Tasks : t = Head1.task
        BY <3>2, TaskItem DEF RunDefer, RunGroupedSend, RunGroupedRewatch
      <4>2. status' = status \/ dispatchRelease(t) \/ dispatchMarkRunning(t, Target[t])
        BY <3>2, <4>1 DEF RunDefer, RunGroupedSend, RunGroupedRewatch
      <4>3. dispatchRelease(t) \/ dispatchMarkRunning(t, Target[t]) => RowOnly(t)
        BY OneRow
      <4> QED
        BY <4>2, <4>3 DEF dispatchRelease, dispatchMarkRunning, TypeOK
    <3> QED
      BY <1>6, <3>1, <3>2
  <2>3. \A u \in Tasks : Terminal(u)' => Terminal(u)
    BY <2>2 DEF Terminal, TERMINAL_TASK_STATUS, RowOnly
  <2> QED
    BY <1>2, <2>1, <2>3
<1>7. CASE RunThrow
  <2>1. PICK t \in Tasks, s \in AnySession : t = Head1.task /\ s = Head1.sess
    BY <1>7, TaskItem DEF RunThrow
  <2>2. Head1.op # "reclaimed" /\ <<Step("claim")>> \in Seq(Items)
    BY <1>7, StepType DEF RunThrow, Doing
  <2>3. CASE status' = status
    BY <1>2, <2>2, <2>3 DEF Terminal
  <2>4. ASSUME NEW r \in BOOLEAN, dispatchFail(t, r), Goes(After(t, Failed(t, r), s) \o <<Step("claim")>>)
        PROVE  \E items \in Seq(Items) : Telling(items)
    <3>1. RowOnly(t) /\ status'[t] = Failed(t, r)
      BY <2>4, OneRow DEF dispatchFail, TypeOK
    <3> QED
      BY <1>3, <2>2, <2>4, <3>1 DEF Terminal, TERMINAL_TASK_STATUS
  <2>5. status' = status \/ \E r \in BOOLEAN : dispatchFail(t, r) /\ Goes(After(t, Failed(t, r), s) \o <<Step("claim")>>)
    BY <1>7, <2>1 DEF RunThrow
  <2> QED
    BY <2>3, <2>4, <2>5
<1>8. CASE RunFinish
  <2>1. PICK t \in Tasks, s \in AnySession : t = Head1.task /\ s = Head1.sess
    BY <1>8, TaskItem DEF RunFinish
  <2>2. Head1.op # "reclaimed" /\ <<>> \in Seq(Items)
    BY <1>8 DEF RunFinish, Doing
  <2>3. CASE status' = status
    BY <1>2, <2>2, <2>3 DEF Terminal
  <2>4. ASSUME NEW next, RowOnly(t), status'[t] = next, Goes(After(t, next, s))
        PROVE  \E items \in Seq(Items) : Telling(items)
    <3>1. Goes(After(t, next, s) \o <<>>) /\ (Terminal(t)' => next # "queued")
      BY <1>e, <2>4 DEF Terminal, TERMINAL_TASK_STATUS
    <3> QED
      BY <1>3, <2>2, <2>4, <3>1
  <2>5. dispatchComplete(t) => RowOnly(t) /\ status'[t] = "done"
    BY OneRow DEF dispatchComplete, TypeOK
  <2>6. dispatchFail(t, TRUE) => RowOnly(t) /\ status'[t] = AfterFailure(t)
    BY OneRow DEF dispatchFail, Failed, TypeOK
  <2>7. \/ status' = status
        \/ dispatchComplete(t) /\ Goes(After(t, "done", s))
        \/ dispatchFail(t, TRUE) /\ Goes(After(t, AfterFailure(t), s))
    BY <1>8, <2>1 DEF RunFinish
  <2> QED
    BY <2>3, <2>4, <2>5, <2>6, <2>7
<1>9. CASE RunResume
  <2>1. PICK t \in Tasks : t = Head1.task /\ Kind[t] = "attempt"
    BY <1>9, TaskItem DEF RunResume, TurnInv
  <2>2. Head1.op # "reclaimed" /\ <<>> \in Seq(Items) /\ NoSession \in AnySession
    BY <1>9 DEF RunResume, Doing, AnySession
  <2>3. CASE status' = status
    BY <1>2, <2>2, <2>3 DEF Terminal
  <2>4. CASE dispatchFail(t, FALSE) /\ Goes(<<Settle(t)>>)
    <3>1. RowOnly(t)
      BY <2>4, OneRow
    <3>2. Goes(After(t, "failed", NoSession))
      BY <2>1, <2>4 DEF After
    <3>3. Goes(After(t, "failed", NoSession) \o <<>>)
      BY <1>e, <2>2, <3>2
    <3> QED
      BY <1>3, <2>2, <3>1, <3>3
  <2> QED
    BY <1>9, <2>1, <2>3, <2>4 DEF RunResume
<1> QED
  BY <1>4, <1>5, <1>6, <1>7, <1>8, <1>9 DEF RunTurn

\* What ends outside a turn begins one that will tell of it.
LEMMA FreshTells ==
    ASSUME TypeOK, TurnInv, [Next]_vars, ~RunTurn, ~Crash, NEW t \in Tasks, ~Terminal(t), Terminal(t)'
    PROVE  Heard(t)' \/ (Kind[t] = "send" /\ t \notin Group /\ status'[t] = "done")
<1> USE DEF memory, world, history, table, task
<1>1. CASE UNCHANGED status
  BY <1>1 DEF Terminal
<1>2. CASE enqueue \/ enqueueGroup
  BY <1>2 DEF enqueue, enqueueGroup, Submit, Terminal, TERMINAL_TASK_STATUS
<1>3. CASE StartTick
  <2>1. dispatchReclaimStale
    BY <1>3 DEF StartTick
  <2>2. Stale(t)
    BY <2>1 DEF dispatchReclaimStale, Terminal
  <2>3. PICK order \in Orders({u \in Tasks : Stale(u)}) :
            todo' = [i \in DOMAIN order |-> Reclaimed(order[i])] \o <<Step("renew"), Step("claim")>>
    BY <1>3 DEF StartTick
  <2>4. PICK rows : rows = [i \in DOMAIN order |-> Reclaimed(order[i])]
    OBVIOUS
  <2>5. PICK ends : ends = <<Step("renew"), Step("claim")>>
    OBVIOUS
  <2>6. /\ ends \in Seq(Items) /\ rows \in Seq(Items)
        /\ Due(rows) = {Reclaimed(u) : u \in {v \in Tasks : Stale(v)}}
    BY <2>4, <2>5, StepType, StaleList
  <2>7. PICK i : i = Reclaimed(t)
    OBVIOUS
  <2>d. Due(todo') = Due(rows) \cup Due(ends)
    BY <2>3, <2>4, <2>5, <2>6, DueJoin
  <2>8. i \in Due(todo')
    BY <2>2, <2>6, <2>7, <2>d
  <2>9. Speaks(i, t)
    BY <2>7 DEF Reclaimed, Item, Speaks
  <2> QED
    BY <2>8, <2>9 DEF Heard
<1>4. ASSUME NEW u \in Tasks, hold(u) \/ unhold(u) \/ cancel(u) PROVE Heard(t)'
  <2>1. PICK i : i = Settle(u)
    OBVIOUS
  <2>2. i.task = u /\ i.op = "settle"
    BY <2>1 DEF Settle, Item
  <2>3. CASE dispatchHold(u) \/ dispatchUnhold(u) \/ UNCHANGED status
    <3>1. RowOnly(u) \/ UNCHANGED status
      BY <2>3, OneRow
    <3> QED
      BY <2>3, <3>1 DEF dispatchHold, dispatchUnhold, RowOnly, Terminal, TERMINAL_TASK_STATUS, TypeOK
  <2>4. ASSUME NEW cost, EndAttempt(u, cost), todo' = <<i>>, Kind[u] = "attempt" PROVE Heard(t)'
    <3>1. RowOnly(u)
      BY <2>4, OneRow
    <3>2. t = u
      BY <3>1 DEF RowOnly, Terminal
    <3>3. Due(todo') = {i}
      BY <2>4, DueFew
    <3> QED
      BY <2>2, <2>4, <3>2, <3>3 DEF Heard, Speaks
  <2>5. CASE hold(u)
    BY <2>3, <2>5 DEF hold
  <2>6. CASE unhold(u)
    BY <2>1, <2>3, <2>4, <2>6 DEF unhold, TurnInv
  <2>7. CASE cancel(u)
    BY <2>1, <2>4, <2>7 DEF cancel
  <2> QED
    BY <1>4, <2>5, <2>6, <2>7
<1>5. CASE Executed
  <2>1. PICK u \in Tasks : u = exec.task
    BY <1>5, ExecTypes DEF Executed
  <2>2. \/ UNCHANGED status
        \/ Kind[u] = "send" /\ u \notin Group /\ dispatchComplete(u)
        \/ \E s : dispatchMarkRunning(u, s)
    BY <1>5, <2>1 DEF Executed
  <2>3. CASE Kind[u] = "send" /\ u \notin Group /\ dispatchComplete(u)
    <3>1. RowOnly(u) /\ status'[u] = "done"
      BY <2>3, OneRow DEF dispatchComplete, TypeOK
    <3> QED
      BY <2>3, <3>1 DEF RowOnly, Terminal
  <2>4. ASSUME NEW s, dispatchMarkRunning(u, s) PROVE FALSE
    <3>1. RowOnly(u) /\ status'[u] = "running"
      BY <2>4, OneRow DEF dispatchMarkRunning, TypeOK
    <3> QED
      BY <3>1 DEF RowOnly, Terminal, TERMINAL_TASK_STATUS
  <2> QED
    BY <1>1, <2>2, <2>3, <2>4
<1>6. CASE sendToSession \/ continueWorker \/ spawnWorker \/ HostThrows
  BY <1>1, <1>6 DEF sendToSession, continueWorker, spawnWorker, HostThrows
<1>7. CASE Deliveries \/ ConductorTurns \/ UNCHANGED vars
  BY <1>1, <1>7 DEF Deliveries, DeliveryLands, MarkDelivered, DeliveryFails, ConductorTurns, vars
<1>8. CASE SessionSteps
  BY <1>1, <1>8 DEF SessionSteps, SessionSettles, SessionWaits, SessionApproved, SessionPrompted, SessionVanishes
<1>9. CASE Time
  BY <1>1, <1>9 DEF Time, LeaseExpires, HoldLapses, CoolsDown
<1> QED
  BY <1>2, <1>3, <1>4, <1>5, <1>6, <1>7, <1>8, <1>9 DEF Next, Handlers, Loop, Execution

\* A handler leaves the turn as it is, or starts one when there is none.
LEMMA Begins ==
    ASSUME [Next]_vars, ~RunTurn, ~Crash
    PROVE  todo' = todo \/ todo = <<>>
<1> USE DEF memory, world, history, table, task, Quiet
<1>1. CASE Handlers \/ Loop \/ Execution
  BY <1>1 DEF Handlers, enqueue, enqueueGroup, StartTick, Loop, hold, unhold, cancel, Execution, sendToSession,
              continueWorker, spawnWorker, HostThrows, Executed
<1>2. CASE Deliveries \/ ConductorTurns \/ Time \/ UNCHANGED vars
  BY <1>2 DEF Deliveries, DeliveryLands, MarkDelivered, DeliveryFails, ConductorTurns, Time, LeaseExpires,
              HoldLapses, CoolsDown, vars
<1>3. CASE SessionSteps
  BY <1>3 DEF SessionSteps, SessionSettles, SessionWaits, SessionApproved, SessionPrompted, SessionVanishes
<1> QED
  BY <1>1, <1>2, <1>3 DEF Next

\* A task that has ended, and who was to tell of it.
LEMMA Passed ==
    ASSUME TypeOK, TurnInv, [Next]_vars, ~Crash, NEW t \in Tasks, Terminal(t)', ~Terminal(t) \/ Heard(t)
    PROVE  \/ Heard(t)'
           \/ Kind[t] = "send" /\ t \notin Group /\ status'[t] = "done"
           \/ Kind[t] = "attempt" /\ settled'[t] > 0
           \/ t \in Group /\ (BarrierPending' \/ Joined')
           \/ Kind[t] # "attempt" /\ t \notin Group /\ Told(t)'
<1>1. CASE ~RunTurn /\ ~Terminal(t)
  BY <1>1, FreshTells
<1>2. CASE ~RunTurn /\ Heard(t)
  BY <1>2, Begins, DueFew DEF Heard
<1>3. CASE RunTurn
  <2>1. PICK items \in Seq(Items) : Telling(items)
    BY <1>3, TurnTells
  <2>2. todo # <<>> /\ Due(todo) = {Head1} \cup Due(Tail(todo)) /\ Due(todo') = Due(items) \cup Due(Tail(todo))
    BY <2>1, DueHead, DueGoes DEF Telling
  <2>3. CASE ~Terminal(t)
    BY <2>1, <2>2, <2>3 DEF Telling, Heard
  <2>4. CASE Terminal(t)
    <3>1. PICK i \in Due(todo) : Speaks(i, t)
      BY <2>4 DEF Heard
    <3>2. CASE i \in Due(Tail(todo))
      BY <2>2, <3>1, <3>2 DEF Heard
    <3>3. CASE i = Head1
      <4>1. Head1.task = t /\ Head1.op \in {"reclaimed", "settle", "emit"}
        BY <3>1, <3>3 DEF Speaks
      <4>2. CASE Head1.op = "reclaimed"
        BY <2>1, <2>2, <2>4, <3>1, <3>3, <4>2 DEF Telling, Heard
      <4>3. CASE Head1.op = "settle"
        <5>1. Kind[t] = "attempt"
          BY <3>1, <3>3, <4>3 DEF Speaks
        <5>2. RunSettle
          BY <1>3, <4>3 DEF RunTurn, RunReclaimed, RunRenew, RunClaim, RunNothingReady, RunDefer, RunExecute,
             RunGroupedSend, RunGroupedRewatch, RunThrow, RunFinish, RunEmit, RunWedge, RunResume, RunDestroy,
             RunDeliver, Doing
        <5>3. settled' = [settled EXCEPT ![t] = @ + 1]
          BY <4>1, <5>2 DEF RunSettle
        <5>4. settled'[t] > 0
          BY <5>3 DEF TypeOK
        <5> QED
          BY <5>1, <5>4
      <4>4. CASE Head1.op = "emit"
        <5>k. Kind[t] # "attempt"
          BY <3>1, <3>3, <4>4 DEF Speaks
        <5>1. RunEmit
          BY <1>3, <4>4 DEF RunTurn, RunReclaimed, RunRenew, RunClaim, RunNothingReady, RunDefer, RunExecute,
             RunGroupedSend, RunGroupedRewatch, RunThrow, RunFinish, RunSettle, RunWedge, RunResume, RunDestroy,
             RunDeliver, Doing
        <5>2. status' = status /\ Head1.how \in TaskEvents
          BY <5>1, TaskItem DEF RunEmit, task
        <5>3. CASE t \in Group /\ BarrierPending
          BY <5>2, <5>3 DEF BarrierPending, Terminal
        <5>4. CASE t \notin Group \/ ~BarrierPending
          <6>1. PICK e : e = [task |-> t, type |-> IF t \in Group THEN "group_done" ELSE Head1.how,
                              delivered |-> FALSE, handed |-> 0]
            OBVIOUS
          <6>2. events' = Append(events, e)
            BY <2>4, <4>1, <5>1, <5>4, <6>1 DEF RunEmit, Absorbed, dispatchEventAdd
          <6>3. Len(events) + 1 \in DOMAIN events' /\ events'[Len(events) + 1] = e
            BY <6>2 DEF TypeOK
          <6>4. e.task = t /\ (t \in Group => e.type = "group_done") /\ (t \notin Group => e.type # "group_done")
            BY <5>2, <6>1 DEF TaskEvents
          <6> QED
            BY <5>k, <6>3, <6>4 DEF Joined, Told
        <5> QED
          BY <5>3, <5>4
      <4> QED
        BY <4>1, <4>2, <4>3, <4>4
    <3> QED
      BY <2>2, <3>1, <3>2, <3>3
  <2> QED
    BY <2>3, <2>4
<1> QED
  BY <1>1, <1>2, <1>3

LEMMA ToldStep ==
    ASSUME TypeOK, TurnInv, ToldInv, [Next]_vars, ~Crash
    PROVE  ToldInv'
<1> SUFFICES ASSUME NEW t \in Tasks, Terminal(t)' PROVE ToldRow(t)'
  BY DEF ToldInv, ToldRow
<1>1. /\ \A u \in Tasks : Terminal(u) => Terminal(u)' /\ status'[u] = status[u]
      /\ Group \subseteq Tasks /\ \A u \in Group : Kind[u] # "attempt"
  BY FinalStep, GroupAssumption DEF Terminal
<1>2. CASE t \notin Group
  <2>1. CASE Terminal(t) /\ Said(t)
    BY <1>1, <1>2, <2>1, SaidKept DEF ToldRow, Said
  <2>2. CASE ~Terminal(t) \/ Heard(t)
    <3>1. \/ Heard(t)'
          \/ Kind[t] = "send" /\ status'[t] = "done"
          \/ Kind[t] = "attempt" /\ settled'[t] > 0
          \/ Kind[t] # "attempt" /\ Told(t)'
      BY <1>2, <2>2, Passed
    <3> QED
      BY <1>2, <3>1 DEF ToldRow, Said
  <2> QED
    BY <1>2, <2>1, <2>2 DEF ToldInv, ToldRow
<1>3. CASE t \in Group
  <2>1. CASE BarrierPending' \/ Joined'
    BY <1>1, <1>3, <2>1 DEF ToldRow, Said
  <2>2. ASSUME ~BarrierPending', ~Joined', NEW u \in Group, ~Terminal(u) \/ Heard(u) PROVE ToldRow(t)'
    <3>1. Terminal(u)' /\ u \in Tasks
      BY <1>1, <2>2 DEF BarrierPending
    <3>2. Heard(u)'
      BY <1>1, <2>2, <3>1, Passed
    <3> QED
      BY <1>3, <3>1, <3>2 DEF ToldRow
  <2>3. CASE ~BarrierPending /\ ~Joined
    <3>1. Terminal(t)
      BY <1>3, <2>3 DEF BarrierPending
    <3>2. PICK u \in Group : Heard(u)
      BY <1>1, <1>3, <2>3, <3>1 DEF ToldInv, ToldRow, Said
    <3> QED
      BY <2>1, <2>2, <3>2
  <2>4. CASE BarrierPending
    <3>1. PICK u \in Group : ~Terminal(u)
      BY <2>4 DEF BarrierPending
    <3> QED
      BY <2>1, <2>2, <3>1
  <2> QED
    BY <2>1, <2>3, <2>4, SaidKept
<1> QED
  BY <1>2, <1>3

(* OutcomeTold: whatever ends a task, and in whichever turn, once that turn is *)
(* over the outcome is in the event table, in the merged event of its panel or *)
(* with its loop.  A crash between the two statements is the exception.        *)
THEOREM OutcomesTold ==
    ASSUME "crash" \notin Faults
    PROVE  Spec => []OutcomeTold
<1>1. Init => ToldInv
  BY DEF Init, ToldInv, ToldRow, Terminal, TERMINAL_TASK_STATUS
<1>2. ~Crash
  BY DEF Crash
<1>3. TypeOK /\ TurnInv /\ ToldInv /\ [Next]_vars => ToldInv'
  BY <1>2, ToldStep
<1>4. ToldInv => OutcomeTold
  <2> SUFFICES ASSUME ToldInv, todo = <<>>, NEW t \in Tasks, Terminal(t) PROVE Said(t)
    BY DEF OutcomeTold, Said, Quiet, Joined
  <2>1. \A u : ~Heard(u)
    BY DueFew DEF Heard
  <2> QED
    BY <2>1 DEF ToldInv, ToldRow
<1> QED
  BY <1>1, <1>3, <1>4, TypeCorrect, TurnCorrect, PTL DEF Spec

-----------------------------------------------------------------------------
(* No worker is left over.  A live worker of a spawn task is the one the row   *)
(* records, the one the awaited call is about, or one the turn is about to     *)
(* tear down; and what the call and the items know of it is still true.        *)
Crew(s) == born[s] # NoTask /\ Kind[born[s]] = "spawn" /\ Alive(s)
Needed(s) ==
    /\ ~Terminal(born[s])
    /\ worker[born[s]] = s \/ (exec.task = born[s] /\ exec.sess = s)
Ending(s) ==
    \E i \in Due(todo) : \/ i.op = "destroy" /\ i.sess = s
                         \/ i.op = "reclaimed" /\ i.task = born[s] /\ worker[born[s]] = s

ItemCrew(i) ==
    i.op \in {"throw", "finish"} /\ Kind[i.task] = "spawn" =>
        /\ i.op = "throw" => \A s \in Sessions : Alive(s) /\ born[s] = i.task => i.sess = s /\ worker[i.task] = s
        /\ i.op = "finish" /\ Fence(i.task, i.generation) => status[i.task] = "running" /\ worker[i.task] = i.sess
CallCrew ==
    exec.step # "none" /\ Kind[exec.task] = "spawn" =>
        /\ status[exec.task] = "claimed"
        /\ exec.step \in {"continue", "continued"} => exec.sess = worker[exec.task]
        /\ exec.step \in {"spawn", "landed"} =>
              \A s \in Sessions : Alive(s) /\ born[s] = exec.task => s = exec.sess /\ exec.step = "landed"

OrphanInv ==
    /\ \A s \in Sessions : Crew(s) => Needed(s) \/ Ending(s)
    /\ \A s \in Sessions : session[s] = "none" => born[s] = NoTask
    /\ CallCrew
    /\ \A i \in Due(todo) : ItemCrew(i)

LEMMA NoCall ==
    ASSUME TypeOK, exec.step = "none"
    PROVE  exec.task = NoTask
  BY DEF TypeOK, Execs, ExecsOf, NoExec

\* A call that is still the same, or none of a spawn task.
SameCall ==
    \/ exec' = exec
    \/ /\ exec.step = "none" \/ Kind[exec.task] # "spawn"
       /\ exec'.step = "none" \/ Kind[exec'.task] # "spawn"

\* An item that has done its part for the worker.
LetGo(i) ==
    \/ i.op = "destroy" /\ ~Alive(i.sess)'
    \/ /\ i.op = "reclaimed"
       /\ \/ ~Terminal(i.task)' \/ Kind[i.task] # "spawn" \/ worker[i.task] = NoSession
          \/ Destroy(worker[i.task]) \in Due(todo')

LEMMA CrewKept ==
    ASSUME TypeOK, OrphanInv, SameCall, born' = born,
           \A t \in Tasks : Kind[t] = "spawn" => worker'[t] = worker[t],
           \A s \in Sessions : (Alive(s)' => Alive(s)) /\ (session'[s] = "none" => session[s] = "none"),
           \A s \in Sessions : Crew(s) /\ Needed(s) /\ Terminal(born[s])' => Ending(s)',
           \A i \in Due(todo) : i.op \in {"destroy", "reclaimed"} => i \in Due(todo') \/ LetGo(i),
           exec.step # "none" /\ Kind[exec.task] = "spawn" => status'[exec.task] = status[exec.task],
           \A i \in Due(todo') : ItemCrew(i)'
    PROVE  OrphanInv'
<1>0. \A s \in Sessions : born[s] \in Tasks \cup {NoTask}
  BY DEF TypeOK
<1>1. ASSUME NEW s \in Sessions, Crew(s)' PROVE Needed(s)' \/ Ending(s)'
  <2>1. Crew(s) /\ born'[s] = born[s]
    BY <1>1 DEF Crew
  <2>2. PICK t \in Tasks : t = born[s] /\ Kind[t] = "spawn" /\ worker'[t] = worker[t]
    BY <1>0, <2>1 DEF Crew
  <2>3. CASE Needed(s) /\ ~Terminal(t)'
    <3>1. CASE worker[t] = s
      BY <2>1, <2>2, <2>3, <3>1 DEF Needed
    <3>2. CASE exec.task = t /\ exec.sess = s
      <4>1. exec' = exec
        BY <2>2, <3>2, NoCall, NamesAssumption DEF SameCall
      <4> QED
        BY <2>1, <2>2, <2>3, <3>2, <4>1 DEF Needed
    <3> QED
      BY <2>2, <2>3, <3>1, <3>2 DEF Needed
  <2>4. CASE Needed(s) /\ Terminal(t)'
    BY <2>1, <2>2, <2>4 DEF Terminal
  <2>5. ASSUME NEW i \in Due(todo), i.op = "destroy", i.sess = s PROVE Ending(s)'
    <3>1. Alive(s)'
      BY <1>1 DEF Crew
    <3>2. i \in Due(todo')
      BY <2>5, <3>1 DEF LetGo
    <3> QED
      BY <2>5, <3>2 DEF Ending
  <2>6. ASSUME NEW i \in Due(todo), i.op = "reclaimed", i.task = t, worker[t] = s PROVE Needed(s)' \/ Ending(s)'
    <3>1. CASE i \in Due(todo')
      BY <2>1, <2>2, <2>6, <3>1 DEF Ending
    <3>2. CASE ~Terminal(t)'
      BY <2>1, <2>2, <2>6, <3>2 DEF Needed
    <3>3. CASE Destroy(s) \in Due(todo')
      <4>1. PICK d : d = Destroy(s)
        OBVIOUS
      <4>2. d.op = "destroy" /\ d.sess = s
        BY <4>1 DEF Destroy, Item
      <4> QED
        BY <3>3, <4>1, <4>2 DEF Ending
    <3> QED
      BY <2>2, <2>6, <3>1, <3>2, <3>3, NamesAssumption DEF LetGo
  <2>7. Needed(s) \/ Ending(s)
    BY <2>1 DEF OrphanInv
  <2> QED
    BY <2>2, <2>3, <2>4, <2>5, <2>6, <2>7 DEF Ending
<1>2. CallCrew'
  <2> SUFFICES ASSUME exec'.step # "none", Kind[exec'.task] = "spawn" PROVE CallCrew'
    BY DEF CallCrew
  <2>1. exec' = exec
    BY DEF SameCall
  <2>2. PICK t \in Tasks : t = exec.task
    BY <2>1, ExecTypes
  <2> QED
    BY <2>1, <2>2 DEF CallCrew, OrphanInv
<1>3. \A s \in Sessions : session'[s] = "none" => born'[s] = NoTask
  BY DEF OrphanInv
<1> QED
  BY <1>1, <1>2, <1>3 DEF OrphanInv

\* What an item knows of a row it keeps knowing while the row stays.
LEMMA ItemCrewKept ==
    ASSUME NEW i, ItemCrew(i), born' = born, \A s \in Sessions : Alive(s)' => Alive(s),
           Kind[i.task] = "spawn" => /\ worker'[i.task] = worker[i.task]
                                     /\ \/ /\ status'[i.task] = status[i.task]
                                           /\ generation'[i.task] = generation[i.task]
                                        \/ status'[i.task] \notin Live
    PROVE  ItemCrew(i)'
  BY DEF ItemCrew, Fence, Live

\* Only a throw and a finish know of a worker.
LEMMA ItemCrewOther == \A i : i.op \notin {"throw", "finish"} => ItemCrew(i)'
  BY DEF ItemCrew

\* A statement that leaves sessions as they are and is about no teardown.
LEMMA CrewTurn ==
    ASSUME TypeOK, OrphanInv, todo # <<>>, NEW items \in Seq(Items), Goes(items), SameCall,
           UNCHANGED <<born, session>>, Head1.op \notin {"destroy", "reclaimed"},
           \A t \in Tasks : Kind[t] = "spawn" => worker'[t] = worker[t],
           \A s \in Sessions : Crew(s) /\ Needed(s) /\ Terminal(born[s])' => Ending(s)',
           exec.step # "none" /\ Kind[exec.task] = "spawn" => status'[exec.task] = status[exec.task],
           \A i \in Due(items) : ItemCrew(i)',
           \A i \in Due(Tail(todo)) : ItemCrew(i) => ItemCrew(i)'
    PROVE  OrphanInv'
<1>1. Due(todo) = {Head1} \cup Due(Tail(todo)) /\ Due(todo') = Due(items) \cup Due(Tail(todo))
  BY DueHead, DueGoes
<1>2. \A i \in Due(todo) : i.op \in {"destroy", "reclaimed"} => i \in Due(todo')
  BY <1>1
<1>3. \A i \in Due(todo') : ItemCrew(i)'
  BY <1>1 DEF OrphanInv
<1>4. \A s \in Sessions : (Alive(s)' => Alive(s)) /\ (session'[s] = "none" => session[s] = "none")
  BY DEF Alive
<1> QED
  BY <1>2, <1>3, <1>4, CrewKept

LEMMA CrewReclaimed ==
    ASSUME TypeOK, OrphanInv, RunReclaimed
    PROVE  OrphanInv'
<1>1. PICK t \in Tasks, s \in AnySession : t = Head1.task /\ s = worker[t]
  BY TaskItem, WorkerType DEF RunReclaimed
<1>2. /\ todo # <<>> /\ Head1.op = "reclaimed" /\ Goes(After(t, status[t], s))
      /\ UNCHANGED <<status, generation, worker, exec, born, session>>
  BY <1>1 DEF RunReclaimed, Doing, table, task, world
<1>3. PICK items \in Seq(Items) : items = After(t, status[t], s)
  BY AfterType
<1>4. Due(todo) = {Head1} \cup Due(Tail(todo)) /\ Due(todo') = Due(items) \cup Due(Tail(todo))
  BY <1>2, <1>3, DueHead, DueGoes
<1>5. ~Terminal(t)' \/ Kind[t] # "spawn" \/ s = NoSession \/ Destroy(s) \in Due(items)
  BY <1>2, <1>3, AfterDue DEF Terminal, TERMINAL_TASK_STATUS
<1>h. PICK h : h = Head1
  OBVIOUS
<1>6. LetGo(h)
  <2>1. h.op = "reclaimed" /\ h.task = t
    BY <1>1, <1>2, <1>h
  <2> QED
    BY <1>1, <1>4, <1>5, <2>1 DEF LetGo
<1>7. \A i \in Due(todo) : i.op \in {"destroy", "reclaimed"} => i \in Due(todo') \/ LetGo(i)
  BY <1>4, <1>6, <1>h
<1>8. \A s1 \in Sessions : (Alive(s1)' => Alive(s1)) /\ (session'[s1] = "none" => session[s1] = "none")
  BY <1>2 DEF Alive
<1>9. \A i \in Due(Tail(todo)) : ItemCrew(i)'
  <2> SUFFICES ASSUME NEW i \in Due(Tail(todo)) PROVE ItemCrew(i)'
    OBVIOUS
  <2>1. ItemCrew(i)
    BY <1>4 DEF OrphanInv
  <2>2. \A s1 \in Sessions : Alive(s1)' => Alive(s1)
    BY <1>8
  <2> QED
    BY <1>2, <2>1, <2>2, ItemCrewKept
<1>10. \A i \in Due(items) : ItemCrew(i)'
  <2>1. \A i \in Due(items) : i.op \notin {"throw", "finish"}
    BY <1>3, FewMeans DEF Meaning
  <2> QED
    BY <2>1, ItemCrewOther
<1>11. \A s1 \in Sessions : Crew(s1) /\ Needed(s1) /\ Terminal(born[s1])' => Ending(s1)'
  BY <1>2 DEF Needed, Terminal
<1>12. \A i \in Due(todo') : ItemCrew(i)'
  BY <1>4, <1>9, <1>10
<1>13. SameCall
  BY <1>2 DEF SameCall
<1> QED
  BY <1>2, <1>7, <1>8, <1>11, <1>12, <1>13, CrewKept

LEMMA CrewDestroy ==
    ASSUME TypeOK, OrphanInv, RunDestroy
    PROVE  OrphanInv'
<1>1. PICK s \in Sessions : s = Head1.sess
  BY SessionItem DEF RunDestroy
<1>2. /\ todo # <<>> /\ Head1.op = "destroy" /\ Goes(<<>>)
      /\ UNCHANGED <<status, generation, worker, exec, born>>
      /\ session' = IF born[s] # NoTask THEN [session EXCEPT ![s] = "gone"] ELSE session
  BY <1>1 DEF RunDestroy, Doing, table, task, memory
<1>3. Due(todo) = {Head1} \cup Due(Tail(todo)) /\ Due(todo') = Due(Tail(todo))
  <2>1. Due(todo) = {Head1} \cup Due(Tail(todo))
    BY <1>2, DueHead
  <2>2. Due(todo') = Due(<<>>) \cup Due(Tail(todo))
    BY <1>2, DueGoes, <<>> \in Seq(Items)
  <2> QED
    BY <2>1, <2>2, DueFew
<1>4. \A s1 \in Sessions : (Alive(s1)' => Alive(s1)) /\ (session'[s1] = "none" => session[s1] = "none")
  BY <1>2 DEF Alive, TypeOK
<1>5. born[s] # NoTask => ~Alive(s)'
  BY <1>2 DEF Alive, TypeOK
<1>6. \A i \in Due(todo') : ItemCrew(i)'
  BY <1>2, <1>3, <1>4, ItemCrewKept DEF OrphanInv
<1>7. CASE born[s] # NoTask
  <2>h. PICK h : h = Head1
    OBVIOUS
  <2>1. LetGo(h)
    <3>1. h.op = "destroy" /\ h.sess = s
      BY <1>1, <1>2, <2>h
    <3> QED
      BY <1>5, <1>7, <3>1 DEF LetGo
  <2>2. \A i \in Due(todo) : i.op \in {"destroy", "reclaimed"} => i \in Due(todo') \/ LetGo(i)
    BY <1>3, <2>1, <2>h
  <2>3. \A s1 \in Sessions : Crew(s1) /\ Needed(s1) /\ Terminal(born[s1])' => Ending(s1)'
    BY <1>2 DEF Needed, Terminal
  <2>4. SameCall
    BY <1>2 DEF SameCall
  <2> QED
    BY <1>2, <1>4, <1>6, <2>2, <2>3, <2>4, CrewKept
<1>8. CASE born[s] = NoTask
  <2>1. UNCHANGED <<status, generation, worker, exec, born, session>>
    BY <1>2, <1>8
  <2>2. \A s1 \in Sessions : Crew(s1)' => Needed(s1)' \/ Ending(s1)'
    <3> SUFFICES ASSUME NEW s1 \in Sessions, Crew(s1) PROVE Needed(s1)' \/ Ending(s1)'
      BY <2>1 DEF Crew, Alive
    <3>1. s1 # s
      BY <1>8 DEF Crew
    <3>2. CASE Needed(s1)
      BY <2>1, <3>2 DEF Needed, Terminal
    <3>3. ASSUME NEW i \in Due(todo), \/ i.op = "destroy" /\ i.sess = s1
                                      \/ i.op = "reclaimed" /\ i.task = born[s1] /\ worker[born[s1]] = s1
          PROVE  Ending(s1)'
      <4>1. i \in Due(todo')
        BY <1>1, <1>2, <1>3, <3>1, <3>3
      <4> QED
        BY <2>1, <3>3, <4>1 DEF Ending
    <3> QED
      BY <3>2, <3>3 DEF OrphanInv, Ending
  <2>3. CallCrew' /\ \A s1 \in Sessions : session'[s1] = "none" => born'[s1] = NoTask
    BY <2>1 DEF CallCrew, OrphanInv, Alive
  <2> QED
    BY <1>6, <2>2, <2>3 DEF OrphanInv
<1> QED
  BY <1>7, <1>8

LEMMA CrewIdle ==
    ASSUME TypeOK, OrphanInv, todo # <<>>, NEW items \in Seq(Items), Goes(items),
           UNCHANGED <<status, generation, worker, exec, born, session>>, Head1.op \notin {"destroy", "reclaimed"},
           \A i \in Due(items) : i.op \notin {"throw", "finish"}
    PROVE  OrphanInv'
<1>1. SameCall /\ \A s \in Sessions : Crew(s) /\ Needed(s) /\ Terminal(born[s])' => Ending(s)'
  BY DEF SameCall, Needed, Terminal
<1>2. \A i \in Due(items) : ItemCrew(i)'
  BY ItemCrewOther
<1>3. \A i \in Due(Tail(todo)) : ItemCrew(i) => ItemCrew(i)'
  <2>1. \A s \in Sessions : Alive(s)' => Alive(s)
    BY DEF Alive
  <2> QED
    BY <2>1, ItemCrewKept
<1> QED
  BY <1>1, <1>2, <1>3, CrewTurn

LEMMA CrewIdleTurns ==
    ASSUME TypeOK, OrphanInv, RunRenew \/ RunNothingReady \/ RunEmit \/ RunSettle \/ RunWedge \/ RunDeliver
    PROVE  OrphanInv'
<1> USE DEF memory, world, history, table, task
<1>1. /\ UNCHANGED <<status, generation, worker, exec, born, session>>
      /\ todo # <<>> /\ Head1.op \notin {"destroy", "reclaimed"}
  BY DEF RunRenew, RunNothingReady, RunEmit, RunSettle, RunWedge, RunDeliver, dispatchTouch, Doing
<1>2. \/ Goes(<<>>) \/ \E op \in {"pump", "deliver"} : Goes(<<Step(op)>>)
      \/ Head1.task \in Tasks /\ Goes(<<Notice(Head1.task)>>)
  BY TaskItem DEF RunRenew, RunNothingReady, RunEmit, RunSettle, RunWedge, RunDeliver
<1>4. ASSUME NEW i \in Items, i.op \notin {"throw", "finish"}, Goes(<<i>>) PROVE OrphanInv'
  <2>1. <<i>> \in Seq(Items) /\ Due(<<i>>) = {i}
    BY DueFew
  <2> QED
    BY <1>1, <1>4, <2>1, CrewIdle
<1>5. CASE Goes(<<>>)
  BY <1>1, <1>5, <<>> \in Seq(Items), DueFew, CrewIdle
<1>6. ASSUME NEW op \in {"pump", "deliver"}, Goes(<<Step(op)>>) PROVE OrphanInv'
  <2>1. Step(op) \in Items /\ Step(op).op = op
    BY StepType, FewMeans DEF Meaning
  <2> QED
    BY <1>4, <1>6, <2>1
<1>7. ASSUME NEW t \in Tasks, Goes(<<Notice(t)>>) PROVE OrphanInv'
  <2>1. Notice(t) \in Items /\ Notice(t).op = "notice"
    BY ItemTypes, 0 \in Nat, NoSession \in AnySession DEF AnySession, Notice, Item
  <2> QED
    BY <1>4, <1>7, <2>1
<1> QED
  BY <1>2, <1>5, <1>6, <1>7

\* A statement on the row of one task.
LEMMA CrewRow ==
    ASSUME TypeOK, OrphanInv, todo # <<>>, NEW items \in Seq(Items), Goes(items), SameCall,
           UNCHANGED <<born, session>>, Head1.op \notin {"destroy", "reclaimed"}, NEW t \in Tasks, RowOnly(t),
           exec.step # "none" /\ Kind[exec.task] = "spawn" => exec.task # t,
           Kind[t] = "spawn" =>
              /\ worker'[t] = worker[t]
              /\ \A s \in Sessions : Crew(s) /\ Needed(s) /\ born[s] = t /\ Terminal(t)' => Ending(s)'
              /\ \A i \in Due(Tail(todo)) : i.task = t /\ ItemCrew(i) => ItemCrew(i)',
           \A i \in Due(items) : ItemCrew(i)'
    PROVE  OrphanInv'
<1>1. \A u \in Tasks : Kind[u] = "spawn" => worker'[u] = worker[u]
  BY DEF RowOnly
<1>2. ASSUME NEW s \in Sessions, Crew(s), Needed(s), Terminal(born[s])' PROVE Ending(s)'
  <2>1. PICK u \in Tasks : u = born[s] /\ Kind[u] = "spawn"
    BY <1>2 DEF Crew, TypeOK
  <2>2. ~Terminal(u) /\ Terminal(u)'
    BY <1>2, <2>1 DEF Needed, Terminal
  <2>3. u = t
    BY <2>2 DEF RowOnly, Terminal
  <2> QED
    BY <1>2, <2>1, <2>2, <2>3
<1>3. exec.step # "none" /\ Kind[exec.task] = "spawn" => status'[exec.task] = status[exec.task]
  BY ExecTypes DEF RowOnly
<1>4. ASSUME NEW i \in Due(Tail(todo)), ItemCrew(i) PROVE ItemCrew(i)'
  <2>1. CASE i.task = t /\ Kind[t] = "spawn"
    BY <1>4, <2>1
  <2>2. CASE i.task \in Tasks /\ i.task # t
    <3>1. \A s \in Sessions : Alive(s)' => Alive(s)
      BY DEF Alive
    <3> QED
      BY <1>4, <2>2, <3>1, ItemCrewKept DEF RowOnly
  <2>3. CASE i.op \notin {"throw", "finish"} \/ Kind[i.task] # "spawn"
    BY <2>3 DEF ItemCrew
  <2>4. i.op \in {"throw", "finish"} => i.task \in Tasks
    <3>1. i \in Items
      BY HeadIsItem DEF Due
    <3> QED
      BY <3>1, MeaningTasks DEF Meaning
  <2> QED
    BY <2>1, <2>2, <2>3, <2>4
<1> QED
  BY <1>1, <1>2, <1>3, <1>4, CrewTurn

\* What a pass does it does while no call is awaited.
LEMMA NoCallInPass ==
    ASSUME TypeOK, PassInv, todo # <<>>, Head1.op \in PassOps
    PROVE  exec.step = "none"
  BY DueHead DEF PassInv

LEMMA CrewClaim ==
    ASSUME TypeOK, LastInv, PassInv, OrphanInv, RunClaim \/ RunDefer
    PROVE  OrphanInv'
<1>1. todo # <<>> /\ Head1.op \in {"claim", "admit"} /\ UNCHANGED <<exec, born, session>>
  BY DEF RunClaim, RunDefer, Doing, memory, world
<1>2. exec.step = "none"
  BY <1>1, NoCallInPass DEF PassOps
<1>3. PICK t \in Tasks, i \in Items :
          /\ Goes(<<i>>) /\ i.op \in {"admit", "claim"}
          /\ dispatchClaimNext(t) \/ (dispatchRelease(t) /\ Head1.op = "admit" /\ t = Head1.task)
  <2>1. CASE RunClaim
    <3>1. PICK t \in Tasks : dispatchClaimNext(t) /\ Goes(<<Admit(t)>>)
      BY <2>1 DEF RunClaim
    <3>2. Admit(t) \in Items /\ Admit(t).op = "admit"
      BY ItemTypes, 0 \in Nat, NoSession \in AnySession DEF AnySession, Admit, Item
    <3> QED
      BY <3>1, <3>2
  <2>2. CASE RunDefer
    <3>1. PICK t \in Tasks : t = Head1.task
      BY <2>2, TaskItem DEF RunDefer
    <3>2. dispatchRelease(t) /\ Goes(<<Step("claim")>>) /\ Head1.op = "admit"
      BY <2>2, <3>1 DEF RunDefer, Doing
    <3>3. Step("claim") \in Items /\ Step("claim").op = "claim"
      BY StepType, FewMeans DEF Meaning
    <3> QED
      BY <3>1, <3>2, <3>3
  <2> QED
    BY <2>1, <2>2
<1>4. RowOnly(t) /\ worker' = worker /\ status'[t] \in {"claimed", "queued"}
  <2>1. RowOnly(t)
    BY <1>3, OneRow
  <2> QED
    BY <1>3, <2>1 DEF dispatchClaimNext, dispatchRelease, TypeOK
<1>5. <<i>> \in Seq(Items) /\ Due(<<i>>) = {i}
  BY DueFew
<1>6. ItemCrew(i)' /\ ~Terminal(t)'
  BY <1>3, <1>4 DEF ItemCrew, Terminal, TERMINAL_TASK_STATUS
<1>7. Due(Tail(todo)) = {}
  BY <1>1, AloneAtEnd, DueFew DEF LastOps, PassOps
<1> QED
  BY <1>1, <1>2, <1>3, <1>4, <1>5, <1>6, <1>7, CrewRow DEF SameCall

LEMMA CrewGrouped ==
    ASSUME TypeOK, TurnInv, LastInv, PassInv, OrphanInv, RunGroupedSend \/ RunGroupedRewatch
    PROVE  OrphanInv'
<1>1. PICK t \in Tasks, s \in AnySession, g \in Nat : t = Head1.task /\ s = Target[t] /\ g = generation[t]
  BY TaskItem, WorkerType, TargetAssumption DEF RunGroupedSend, RunGroupedRewatch, AnySession
<1>2. todo # <<>> /\ Head1.op = "admit" /\ Kind[t] = "send" /\ UNCHANGED <<born, session>>
  BY <1>1 DEF RunGroupedSend, RunGroupedRewatch, Doing, world
<1>3. exec.step = "none" /\ Due(Tail(todo)) = {}
  BY <1>2, NoCallInPass, AloneAtEnd, DueFew DEF LastOps, PassOps
<1>4. exec' = exec \/ exec'.task = t
  BY <1>1 DEF RunGroupedSend, RunGroupedRewatch, Start
<1>5. SameCall
  BY <1>2, <1>3, <1>4 DEF SameCall
<1>6. RowOnly(t)
  <2>1. UNCHANGED task \/ dispatchMarkRunning(t, s)
    BY <1>1 DEF RunGroupedSend, RunGroupedRewatch
  <2> QED
    BY <2>1, OneRow DEF task, RowOnly
<1>c. PICK c \in Items : c = Step("claim") /\ c.op = "claim"
  BY StepType, FewMeans DEF Meaning
<1>7. ASSUME NEW items \in Seq(Items), Goes(items), \A i \in Due(items) : i = c \/ i.task = t
      PROVE  OrphanInv'
  <2>1. \A i \in Due(items) : ItemCrew(i)'
    BY <1>2, <1>7, <1>c DEF ItemCrew
  <2> QED
    BY <1>2, <1>3, <1>5, <1>6, <1>7, <2>1, CrewRow
<1>8. CASE Goes(<<>>)
  BY <1>7, <1>8, <<>> \in Seq(Items), DueFew
<1>9. CASE Goes(<<c>>)
  BY <1>7, <1>9, <<c>> \in Seq(Items), DueFew
<1>10. CASE Goes(<<Throw(s, t, g, "final")>>)
  <2>1. PICK h \in Items : h = Throw(s, t, g, "final")
    BY ItemTypes
  <2>2. h.task = t
    BY <2>1 DEF Throw, Item
  <2>3. <<h>> \in Seq(Items) /\ Due(<<h>>) = {h} /\ Goes(<<h>>)
    BY <1>10, <2>1, DueFew
  <2> QED
    BY <1>7, <2>2, <2>3
<1>11. ASSUME NEW end \in {"idle", "error"}, Goes(<<Finish(s, t, g, end), c>>) PROVE OrphanInv'
  <2>1. PICK h \in Items : h = Finish(s, t, g, end)
    BY ItemTypes
  <2>2. h.task = t
    BY <2>1 DEF Finish, Item
  <2>3. <<h, c>> \in Seq(Items) /\ Due(<<h, c>>) = {h, c} /\ Goes(<<h, c>>)
    BY <1>11, <2>1, DueFew
  <2> QED
    BY <1>7, <2>2, <2>3
<1>12. \/ Goes(<<>>) \/ Goes(<<c>>) \/ Goes(<<Throw(s, t, g, "final")>>)
       \/ \E end \in {"idle", "error"} : Goes(<<Finish(s, t, g, end), c>>)
  BY <1>1, <1>c DEF RunGroupedSend, RunGroupedRewatch
<1> QED
  BY <1>8, <1>9, <1>10, <1>11, <1>12

LEMMA CrewResume ==
    ASSUME TypeOK, TurnInv, LastInv, OrphanInv, RunResume
    PROVE  OrphanInv'
<1>1. PICK t \in Tasks, s \in AnySession, g \in Nat : t = Head1.task /\ s = worker[t] /\ g = Head1.generation
  BY TaskItem, WorkerType DEF RunResume
<1>2. todo # <<>> /\ Head1.op = "resume" /\ Kind[t] = "attempt" /\ UNCHANGED <<born, session, exec>>
  BY <1>1 DEF RunResume, Doing, world, TurnInv
<1>3. Due(Tail(todo)) = {}
  BY <1>2, AloneAtEnd, DueFew DEF LastOps, PassOps
<1>4. SameCall
  BY <1>2 DEF SameCall
<1>5. RowOnly(t)
  <2>1. UNCHANGED task \/ dispatchFail(t, FALSE)
    BY <1>1 DEF RunResume
  <2>2. dispatchFail(t, FALSE) => RowOnly(t)
    BY OneRow
  <2>3. UNCHANGED task => RowOnly(t)
    BY DEF task, RowOnly
  <2> QED
    BY <2>1, <2>2, <2>3
<1>6. ASSUME NEW items \in Seq(Items), Goes(items), \A i \in Due(items) : i.task = t
      PROVE  OrphanInv'
  <2>1. \A i \in Due(items) : ItemCrew(i)'
    BY <1>2, <1>6 DEF ItemCrew
  <2>2. Head1.op \notin {"destroy", "reclaimed"} /\ Kind[t] # "spawn"
    BY <1>2
  <2>3. exec.step # "none" /\ Kind[exec.task] = "spawn" => exec.task # t
    BY <1>2
  <2> QED
    BY <1>2, <1>3, <1>4, <1>5, <1>6, <2>1, <2>2, <2>3, CrewRow
<1>7. CASE Goes(<<>>)
  BY <1>6, <1>7, <<>> \in Seq(Items), DueFew
<1>8. CASE Goes(<<Settle(t)>>)
  <2>1. PICK h \in Items : h = Settle(t)
    BY ItemTypes, 0 \in Nat, NoSession \in AnySession DEF AnySession
  <2>2. h.task = t
    BY <2>1 DEF Settle, Item
  <2>3. <<h>> \in Seq(Items) /\ Due(<<h>>) = {h} /\ Goes(<<h>>)
    BY <1>8, <2>1, DueFew
  <2> QED
    BY <1>6, <2>2, <2>3
<1>9. ASSUME NEW end \in {"idle", "error"}, Goes(<<Finish(s, t, g, end)>>) PROVE OrphanInv'
  <2>1. PICK h \in Items : h = Finish(s, t, g, end)
    BY ItemTypes
  <2>2. h.task = t
    BY <2>1 DEF Finish, Item
  <2>3. <<h>> \in Seq(Items) /\ Due(<<h>>) = {h} /\ Goes(<<h>>)
    BY <1>9, <2>1, DueFew
  <2> QED
    BY <1>6, <2>2, <2>3
<1>10. Goes(<<>>) \/ Goes(<<Settle(t)>>) \/ \E end \in {"idle", "error"} : Goes(<<Finish(s, t, g, end)>>)
  BY <1>1 DEF RunResume
<1> QED
  BY <1>7, <1>8, <1>9, <1>10

\* The worker of an ended task is torn down.
LEMMA CrewTornDown ==
    ASSUME TypeOK, NEW t \in Tasks, Kind[t] = "spawn", NEW next, next # "queued", NEW s \in Sessions,
           Due(After(t, next, s)) \subseteq Due(todo')
    PROVE  Ending(s)'
<1>1. PICK d : d = Destroy(s)
  OBVIOUS
<1>2. d.op = "destroy" /\ d.sess = s
  BY <1>1 DEF Destroy, Item
<1>3. d \in Due(todo')
  <2>1. s \in AnySession /\ s # NoSession
    BY NamesAssumption DEF AnySession
  <2> QED
    BY <1>1, <2>1, AfterDue
<1> QED
  BY <1>2, <1>3 DEF Ending

LEMMA CrewThrow ==
    ASSUME TypeOK, LastInv, PassInv, OrphanInv, RunThrow
    PROVE  OrphanInv'
<1>1. PICK t \in Tasks, g \in Nat, s \in AnySession : t = Head1.task /\ g = Head1.generation /\ s = Head1.sess
  BY TaskItem DEF RunThrow
<1>2. todo # <<>> /\ Head1.op = "throw" /\ UNCHANGED <<born, session, exec>>
  BY <1>1 DEF RunThrow, Doing, world
<1>3. exec.step = "none" /\ Due(Tail(todo)) = {} /\ Due(todo) = {Head1}
  BY <1>2, NoCallInPass, AloneAtEnd, DueFew, DueHead DEF LastOps, PassOps
<1>4. Kind[t] = "spawn" => \A s1 \in Sessions : Alive(s1) /\ born[s1] = t => s1 = s /\ worker[t] = s1
  <2>1. PICK h : h = Head1
    OBVIOUS
  <2>2. ItemCrew(h) /\ h.op = "throw" /\ h.task = t /\ h.sess = s
    BY <1>1, <1>2, <1>3, <2>1 DEF OrphanInv
  <2> QED
    BY <2>2 DEF ItemCrew
<1>5. SameCall
  BY <1>2 DEF SameCall
<1>c. PICK c \in Items : c = Step("claim") /\ c.op = "claim"
  BY StepType, FewMeans DEF Meaning
<1>e. <<c>> \in Seq(Items) /\ Due(<<c>>) = {c}
  BY <1>c, DueFew
<1>6. CASE UNCHANGED task /\ Goes(<<c>>)
  <2>1. UNCHANGED <<status, generation, worker, exec, born, session>> /\ Head1.op \notin {"destroy", "reclaimed"}
    BY <1>2, <1>6 DEF task
  <2>2. \A i \in Due(<<c>>) : i.op \notin {"throw", "finish"}
    BY <1>c, <1>e
  <2> QED
    BY <1>2, <1>6, <1>e, <2>1, <2>2, CrewIdle
<1>7. ASSUME NEW r \in BOOLEAN, NEW next, next = Failed(t, r), dispatchFail(t, r), Goes(After(t, next, s) \o <<c>>)
      PROVE  OrphanInv'
  <2>1. RowOnly(t) /\ worker' = worker /\ status'[t] = next
    BY <1>7, OneRow DEF dispatchFail, TypeOK
  <2>2. PICK q \in Seq(Items) : q = After(t, next, s)
    BY AfterType
  <2>3. PICK more \in Seq(Items) : more = <<c>>
    BY <1>e
  <2>d. Due(q \o more) = Due(q) \cup Due(more) /\ q \o more \in Seq(Items)
    BY DueJoin
  <2>4. Due(q \o more) = Due(q) \cup {c} /\ q \o more \in Seq(Items) /\ Goes(q \o more)
    BY <1>7, <1>e, <2>2, <2>3, <2>d
  <2>5. \A i \in Due(q \o more) : i.op \notin {"throw", "finish"}
    BY <1>c, <2>2, <2>4, FewMeans DEF Meaning
  <2>6. \A i \in Due(q \o more) : ItemCrew(i)'
    BY <2>5, ItemCrewOther
  <2>7. Due(q) \subseteq Due(todo')
    BY <1>2, <2>4, DueGoes
  <2>8. ASSUME Kind[t] = "spawn", NEW s1 \in Sessions, Crew(s1), born[s1] = t, Terminal(t)' PROVE Ending(s1)'
    <3>1. s1 = s /\ next # "queued"
      BY <1>4, <2>1, <2>8 DEF Crew, Terminal, TERMINAL_TASK_STATUS
    <3>2. Due(After(t, next, s1)) \subseteq Due(todo')
      BY <2>2, <2>7, <3>1
    <3> QED
      BY <2>8, <3>1, <3>2, CrewTornDown
  <2> QED
    BY <1>2, <1>3, <1>5, <2>1, <2>4, <2>6, <2>8, CrewRow
<1>8. \/ UNCHANGED task /\ Goes(<<c>>)
      \/ \E r \in BOOLEAN : dispatchFail(t, r) /\ Goes(After(t, Failed(t, r), s) \o <<c>>)
  BY <1>1, <1>c DEF RunThrow
<1> QED
  BY <1>6, <1>7, <1>8

LEMMA CrewFinish ==
    ASSUME TypeOK, OrphanInv, RunFinish
    PROVE  OrphanInv'
<1>1. PICK t \in Tasks, g \in Nat, s \in AnySession : t = Head1.task /\ g = Head1.generation /\ s = Head1.sess
  BY TaskItem DEF RunFinish
<1>2. todo # <<>> /\ Head1.op = "finish" /\ UNCHANGED <<born, session, exec>>
  BY <1>1 DEF RunFinish, Doing, world, memory
<1>3. Due(todo) = {Head1} \cup Due(Tail(todo))
  BY <1>2, DueHead
<1>4. Kind[t] = "spawn" /\ Fence(t, g) => status[t] = "running" /\ worker[t] = s
  <2>1. PICK h : h = Head1
    OBVIOUS
  <2>2. ItemCrew(h) /\ h.op = "finish" /\ h.task = t /\ h.sess = s /\ h.generation = g
    BY <1>1, <1>2, <1>3, <2>1 DEF OrphanInv
  <2> QED
    BY <2>2 DEF ItemCrew
<1>5. SameCall
  BY <1>2 DEF SameCall
<1>6. CASE UNCHANGED task /\ Goes(<<>>)
  BY <1>2, <1>6, <<>> \in Seq(Items), DueFew, CrewIdle DEF task
<1>7. ASSUME NEW next, next \notin Live, status'[t] = next, RowOnly(t), worker' = worker, Fence(t, g),
             Goes(After(t, next, s))
      PROVE  OrphanInv'
  <2>1. exec.step # "none" /\ Kind[exec.task] = "spawn" => exec.task # t
    BY <1>4, <1>7 DEF OrphanInv, CallCrew
  <2>2. PICK items \in Seq(Items) : items = After(t, next, s)
    BY AfterType
  <2>3. \A i \in Due(items) : i.op \notin {"throw", "finish"}
    BY <2>2, FewMeans DEF Meaning
  <2>4. \A i \in Due(items) : ItemCrew(i)'
    BY <2>3, ItemCrewOther
  <2>5. Goes(items) /\ Due(items) \subseteq Due(todo')
    BY <1>2, <1>7, <2>2, DueGoes
  <2>6. ASSUME Kind[t] = "spawn", NEW s1 \in Sessions, Crew(s1), Needed(s1), born[s1] = t, Terminal(t)'
        PROVE  Ending(s1)'
    <3>1. exec.task # t
      BY <2>1, <2>6, NoCall, NamesAssumption
    <3>2. s1 = s /\ next # "queued"
      BY <1>4, <1>7, <2>6, <3>1 DEF Needed, Terminal, TERMINAL_TASK_STATUS
    <3>3. Due(After(t, next, s1)) \subseteq Due(todo')
      BY <2>2, <2>5, <3>2
    <3> QED
      BY <2>6, <3>2, <3>3, CrewTornDown
  <2>7. ASSUME NEW i, i.task = t, ItemCrew(i) PROVE ItemCrew(i)'
    <3>1. \A s1 \in Sessions : Alive(s1)' => Alive(s1)
      BY <1>2 DEF Alive
    <3> QED
      BY <1>2, <1>7, <2>7, <3>1, ItemCrewKept
  <2> QED
    BY <1>2, <1>5, <1>7, <2>1, <2>2, <2>4, <2>5, <2>6, <2>7, CrewRow
<1>8. dispatchComplete(t) => RowOnly(t) /\ worker' = worker /\ status'[t] = "done"
  BY OneRow DEF dispatchComplete, TypeOK
<1>9. dispatchFail(t, TRUE) => RowOnly(t) /\ worker' = worker /\ status'[t] = AfterFailure(t) /\ AfterFailure(t) \notin Live
  BY OneRow DEF dispatchFail, Failed, AfterFailure, TypeOK, Live
<1>10. \/ UNCHANGED task /\ Goes(<<>>)
       \/ Fence(t, g) /\ dispatchComplete(t) /\ Goes(After(t, "done", s))
       \/ Fence(t, g) /\ dispatchFail(t, TRUE) /\ Goes(After(t, AfterFailure(t), s))
  BY <1>1 DEF RunFinish
<1> QED
  BY <1>6, <1>7, <1>8, <1>9, <1>10 DEF Live

\* With nothing left to do every worker is needed.
LEMMA CrewAtRest ==
    ASSUME OrphanInv, \A i \in Due(todo) : i.op \notin {"destroy", "reclaimed"}, NEW s \in Sessions, Crew(s)
    PROVE  Needed(s)
  BY DEF OrphanInv, Ending

LEMMA CrewExecute ==
    ASSUME TypeOK, TurnInv, LastInv, PassInv, OrphanInv, RunExecute
    PROVE  OrphanInv'
<1>1. PICK t \in Tasks : t = Head1.task
  BY TaskItem DEF RunExecute
<1>2. /\ todo # <<>> /\ Head1.op = "admit" /\ status[t] = "claimed" /\ Goes(<<>>)
      /\ UNCHANGED <<status, generation, worker, born, session>>
  BY <1>1 DEF RunExecute, Doing, TurnInv, table, task, world
<1>3. exec.step = "none" /\ exec.task = NoTask
  BY <1>2, NoCallInPass, NoCall DEF PassOps
<1>4. Due(todo) = {Head1} /\ Due(todo') = {}
  <2>1. Due(Tail(todo)) = {} /\ todo' = <<>>
    BY <1>2, AloneAtEnd, DueFew, <<>> \in Seq(Items) DEF LastOps, PassOps
  <2> QED
    BY <1>2, <2>1, DueHead, DueFew
<1>5. ASSUME NEW s \in Sessions, Crew(s) PROVE ~Terminal(born[s]) /\ worker[born[s]] = s
  <2>1. Needed(s)
    BY <1>2, <1>4, <1>5, CrewAtRest
  <2> QED
    BY <1>3, <1>5, <2>1 DEF Needed, Crew
<1>6. \A s \in Sessions : Crew(s)' => Needed(s)'
  BY <1>2, <1>5 DEF Crew, Alive, Needed, Terminal
<1>7. CallCrew'
  <2>1. /\ exec'.task = t /\ exec'.sess = worker[t]
        /\ Kind[t] = "spawn" => exec'.step = IF worker[t] # NoSession THEN "continue" ELSE "spawn"
    BY <1>1 DEF RunExecute, Start
  <2>2. ASSUME NEW s \in Sessions, Alive(s), born[s] = t, Kind[t] = "spawn" PROVE worker[t] = s
    <3>1. Crew(s)
      BY <2>2, NamesAssumption DEF Crew
    <3> QED
      BY <1>5, <2>2, <3>1
  <2>3. Kind[t] = "spawn" /\ worker[t] = NoSession => \A s \in Sessions : ~(Alive(s)' /\ born'[s] = t)
    BY <1>2, <2>2, NamesAssumption DEF Alive
  <2> QED
    BY <1>2, <2>1, <2>3 DEF CallCrew
<1>8. \A s \in Sessions : session'[s] = "none" => born'[s] = NoTask
  BY <1>2 DEF OrphanInv
<1> QED
  BY <1>4, <1>6, <1>7, <1>8 DEF OrphanInv

LEMMA CrewTurns ==
    ASSUME TypeOK, TurnInv, LastInv, PassInv, OrphanInv, RunTurn
    PROVE  OrphanInv'
  BY CrewReclaimed, CrewDestroy, CrewIdleTurns, CrewClaim, CrewGrouped, CrewResume, CrewThrow, CrewFinish, CrewExecute
     DEF RunTurn

\* What leaves the rows of the spawn tasks and their sessions as they are.
LEMMA CrewQuiet ==
    ASSUME TypeOK, OrphanInv, todo' = todo, SameCall, born' = born, UNCHANGED <<status, generation, worker>>,
           \A s \in Sessions : (Alive(s)' => Alive(s)) /\ (session'[s] = "none" => session[s] = "none")
    PROVE  OrphanInv'
<1>1. \A i \in Due(todo') : ItemCrew(i)'
  BY ItemCrewKept DEF OrphanInv
<1>2. \A s \in Sessions : Crew(s) /\ Needed(s) /\ Terminal(born[s])' => Ending(s)'
  BY DEF Needed, Terminal
<1> QED
  BY <1>1, <1>2, CrewKept

LEMMA CrewQuietSteps ==
    ASSUME TypeOK, OrphanInv,
           \/ Deliveries \/ ConductorTurns \/ Time \/ UNCHANGED vars
           \/ \E s \in Sessions : SessionApproved(s) \/ SessionPrompted(s) \/ SessionVanishes(s)
    PROVE  OrphanInv'
<1>1. UNCHANGED <<todo, exec, born, status, generation, worker>>
  BY DEF Deliveries, DeliveryLands, MarkDelivered, DeliveryFails, ConductorTurns, Time, LeaseExpires, HoldLapses,
         CoolsDown, vars, SessionApproved, SessionPrompted, SessionVanishes, memory, table, task, world, history
<1>2. \A s \in Sessions : (Alive(s)' => Alive(s)) /\ (session'[s] = "none" => session[s] = "none")
  <2>1. CASE UNCHANGED session
    BY <2>1 DEF Alive
  <2>2. ASSUME NEW s \in Sessions, SessionApproved(s) \/ SessionPrompted(s) \/ SessionVanishes(s)
        PROVE  \A u \in Sessions : (Alive(u)' => Alive(u)) /\ (session'[u] = "none" => session[u] = "none")
    BY <2>2 DEF SessionApproved, SessionPrompted, SessionVanishes, Alive, TypeOK
  <2> QED
    BY <2>1, <2>2 DEF Deliveries, DeliveryLands, MarkDelivered, DeliveryFails, ConductorTurns, Time, LeaseExpires,
       HoldLapses, CoolsDown, vars, world
<1> QED
  BY <1>1, <1>2, CrewQuiet DEF SameCall

LEMMA CrewEnqueue ==
    ASSUME TypeOK, TurnInv, OrphanInv, enqueue \/ enqueueGroup
    PROVE  OrphanInv'
<1>1. /\ todo = <<>> /\ todo' = todo /\ UNCHANGED <<generation, worker, exec, born, session>>
      /\ \A t \in Tasks : status'[t] = status[t] \/ (status[t] = "absent" /\ status'[t] = "queued")
  BY GroupAssumption DEF enqueue, enqueueGroup, Quiet, memory, world, TurnInv, Submit
<1>2. Due(todo) = {} /\ Due(todo') = {}
  BY <1>1, DueFew
<1>3. exec.step # "none" /\ Kind[exec.task] = "spawn" => status'[exec.task] = status[exec.task]
  BY <1>1, ExecTypes DEF OrphanInv, CallCrew
<1>4. ASSUME NEW s \in Sessions, Crew(s), Needed(s) PROVE ~Terminal(born[s])'
  <2>1. PICK t \in Tasks : t = born[s]
    BY <1>4 DEF Crew, TypeOK
  <2> QED
    BY <1>1, <1>4, <2>1 DEF Needed, Terminal, TERMINAL_TASK_STATUS
<1>5. \A s \in Sessions : (Alive(s)' => Alive(s)) /\ (session'[s] = "none" => session[s] = "none")
  BY <1>1 DEF Alive
<1> QED
  BY <1>1, <1>2, <1>3, <1>4, <1>5, CrewKept DEF SameCall

LEMMA CrewTick ==
    ASSUME TypeOK, PassInv, OrphanInv, StartTick
    PROVE  OrphanInv'
<1>1. /\ todo = <<>> /\ UNCHANGED <<worker, exec, born, session>> /\ dispatchReclaimStale /\ tick = "off"
  BY DEF StartTick, Quiet, dispatchReclaimStale, world
<1>2. PICK order \in Orders({t \in Tasks : Stale(t)}) :
          todo' = [i \in DOMAIN order |-> Reclaimed(order[i])] \o <<Step("renew"), Step("claim")>>
  BY DEF StartTick
<1>3. PICK rows : rows = [i \in DOMAIN order |-> Reclaimed(order[i])]
  OBVIOUS
<1>4. PICK ends : ends = <<Step("renew"), Step("claim")>>
  OBVIOUS
<1>5. /\ ends \in Seq(Items) /\ Due(ends) = {Step("renew"), Step("claim")}
      /\ rows \in Seq(Items) /\ Due(rows) = {Reclaimed(t) : t \in {u \in Tasks : Stale(u)}}
  BY <1>3, <1>4, StepType, StaleList, DueFew
<1>6. Due(todo') = Due(rows) \cup Due(ends) /\ Due(todo) = {}
  BY <1>1, <1>2, <1>3, <1>4, <1>5, DueJoin, DueFew
<1>7. exec.step = "none" /\ exec.task = NoTask
  BY <1>1, NoCall DEF PassInv
<1>8. ASSUME NEW s \in Sessions, Crew(s), Needed(s), Terminal(born[s])' PROVE Ending(s)'
  <2>1. PICK t \in Tasks : t = born[s]
    BY <1>8 DEF Crew, TypeOK
  <2>2. Stale(t)
    BY <1>1, <1>8, <2>1 DEF dispatchReclaimStale, Needed, Terminal
  <2>3. worker[t] = s
    BY <1>7, <1>8, <2>1, NamesAssumption DEF Needed
  <2>4. PICK i : i = Reclaimed(t)
    OBVIOUS
  <2>5. i.op = "reclaimed" /\ i.task = t
    BY <2>4 DEF Reclaimed, Item
  <2>6. i \in Due(todo')
    BY <1>5, <1>6, <2>2, <2>4
  <2> QED
    BY <1>1, <2>1, <2>3, <2>5, <2>6 DEF Ending
<1>9. \A i \in Due(todo') : i.op \notin {"throw", "finish"}
  <2>1. \A t : Reclaimed(t).op = "reclaimed"
    BY DEF Reclaimed, Item
  <2>2. Step("renew").op = "renew" /\ Step("claim").op = "claim"
    BY DEF Step, Item
  <2> QED
    BY <1>5, <1>6, <2>1, <2>2
<1>10. \A s \in Sessions : (Alive(s)' => Alive(s)) /\ (session'[s] = "none" => session[s] = "none")
  BY <1>1 DEF Alive
<1>11. \A i \in Due(todo') : ItemCrew(i)'
  BY <1>9, ItemCrewOther
<1> QED
  BY <1>1, <1>6, <1>7, <1>8, <1>10, <1>11, CrewKept DEF SameCall

LEMMA CrewLoop ==
    ASSUME TypeOK, TurnInv, OrphanInv, NEW t \in Tasks, hold(t) \/ unhold(t) \/ cancel(t)
    PROVE  OrphanInv'
<1>1. /\ todo = <<>> /\ UNCHANGED <<exec, born, session>> /\ Kind[t] = "attempt"
      /\ \/ todo' = <<>> \/ todo' = <<Settle(t)>> \/ todo' = <<Resume(t, generation[t])>>
  BY DEF hold, unhold, cancel, Quiet, TurnInv, world
<1>2. RowOnly(t)
  <2>1. UNCHANGED task \/ dispatchHold(t) \/ dispatchUnhold(t) \/ EndAttempt(t, 0) \/ EndAttempt(t, 1)
    BY DEF hold, unhold, cancel
  <2>2. UNCHANGED task => RowOnly(t)
    BY DEF task, RowOnly
  <2>3. EndAttempt(t, 0) \/ EndAttempt(t, 1) => RowOnly(t)
    BY OneRow
  <2> QED
    BY <2>1, <2>2, <2>3, OneRow
<1>3. Due(todo) = {} /\ \A i \in Due(todo') : i.op \notin {"throw", "finish"}
  <2>1. PICK a, b : a = Settle(t) /\ b = Resume(t, generation[t])
    OBVIOUS
  <2>2. a.op = "settle" /\ b.op = "resume"
    BY <2>1 DEF Settle, Resume, Item
  <2> QED
    BY <1>1, <2>1, <2>2, DueFew
<1>4. \A i \in Due(todo') : ItemCrew(i)'
  BY <1>3, ItemCrewOther
<1>5. \A u \in Tasks : Kind[u] = "spawn" => status'[u] = status[u] /\ worker'[u] = worker[u]
  BY <1>1, <1>2 DEF RowOnly
<1>6. ASSUME NEW s \in Sessions, Crew(s), Needed(s) PROVE ~Terminal(born[s])'
  <2>1. PICK u \in Tasks : u = born[s] /\ Kind[u] = "spawn"
    BY <1>6 DEF Crew, TypeOK
  <2> QED
    BY <1>1, <1>5, <1>6, <2>1 DEF Needed, Terminal
<1>7. \A s \in Sessions : (Alive(s)' => Alive(s)) /\ (session'[s] = "none" => session[s] = "none")
  BY <1>1 DEF Alive
<1>8. exec.step # "none" /\ Kind[exec.task] = "spawn" => status'[exec.task] = status[exec.task]
  BY <1>5, ExecTypes
<1> QED
  BY <1>1, <1>3, <1>4, <1>5, <1>6, <1>7, <1>8, CrewKept DEF SameCall

LEMMA CrewSettles ==
    ASSUME TypeOK, DutyInv, OrphanInv, NEW s \in Sessions,
           SessionWaits(s) \/ \E end \in {"idle", "error"} : SessionSettles(s, end)
    PROVE  OrphanInv'
<1>1. todo = <<>> /\ UNCHANGED <<status, generation, worker, exec, born>>
  BY DEF SessionWaits, SessionSettles, Quiet, table, task, memory
<1>2. \A u \in Sessions : (Alive(u)' => Alive(u)) /\ (session'[u] = "none" => session[u] = "none")
  BY DEF SessionWaits, SessionSettles, Alive, TypeOK
<1>3. \A i \in Due(todo') : ItemCrew(i)'
  <2>1. CASE SessionWaits(s)
    <3>1. PICK order \in Orders(Watchers(s)) : todo' = [i \in DOMAIN order |-> Wedge(s, order[i][2], order[i][3])]
      BY <2>1 DEF SessionWaits
    <3>2. Due(todo') = {Wedge(s, w[2], w[3]) : w \in Watchers(s)}
      BY <3>1, WatcherList
    <3>3. \A i \in Due(todo') : i.op = "wedge"
      BY <3>2 DEF Wedge, Item
    <3> QED
      BY <3>3, ItemCrewOther
  <2>2. ASSUME NEW end \in {"idle", "error"}, SessionSettles(s, end) PROVE \A i \in Due(todo') : ItemCrew(i)'
    <3>2. Due(todo') = {Finish(s, w[2], w[3], end) : w \in Watchers(s)}
      BY <2>2, FinishList
    <3>3. ASSUME NEW w \in Watchers(s), NEW i, i = Finish(s, w[2], w[3], end) PROVE ItemCrew(i)'
      <4>1. i.op = "finish" /\ i.task = w[2] /\ i.sess = s
        BY <3>3 DEF Finish, Item
      <4>2. PICK t \in Tasks : t = w[2] /\ status[t] = "running" /\ worker[t] = s
        BY <1>1, WatcherRow DEF DutyInv, Mine
      <4>3. status'[t] = "running" /\ worker'[t] = s
        BY <1>1, <4>2
      <4> QED
        BY <4>1, <4>2, <4>3 DEF ItemCrew
    <3> QED
      BY <3>2, <3>3
  <2> QED
    BY <2>1, <2>2
<1>4. \A u \in Sessions : Crew(u) /\ Needed(u) /\ Terminal(born[u])' => Ending(u)'
  BY <1>1 DEF Needed, Terminal
<1>5. Due(todo) = {}
  BY <1>1, DueFew
<1> QED
  BY <1>1, <1>2, <1>3, <1>4, <1>5, CrewKept DEF SameCall

\* A step that ends or moves a call which is none of a spawn task.
LEMMA CrewOtherCall ==
    ASSUME TypeOK, OrphanInv, todo = <<>>, exec.step # "none", Kind[exec.task] # "spawn",
           exec' = NoExec \/ exec'.task = exec.task, born' = born, RowOnly(exec.task),
           \A s \in Sessions : (Alive(s)' => Alive(s)) /\ (session'[s] = "none" => session[s] = "none"),
           \A i \in Due(todo') : ItemCrew(i)'
    PROVE  OrphanInv'
<1>1. SameCall
  BY DEF SameCall, NoExec
<1>2. PICK t \in Tasks : t = exec.task
  BY ExecTypes
<1>3. \A u \in Tasks : Kind[u] = "spawn" => status'[u] = status[u] /\ worker'[u] = worker[u]
  BY <1>2 DEF RowOnly
<1>4. ASSUME NEW s \in Sessions, Crew(s), Needed(s) PROVE ~Terminal(born[s])'
  <2>1. PICK u \in Tasks : u = born[s] /\ Kind[u] = "spawn"
    BY <1>4 DEF Crew, TypeOK
  <2> QED
    BY <1>3, <1>4, <2>1 DEF Needed, Terminal
<1>5. Due(todo) = {}
  BY DueFew
<1> QED
  BY <1>1, <1>3, <1>4, <1>5, CrewKept

LEMMA PromptedAlive ==
    ASSUME TypeOK, NEW s, session' = Prompted(s)
    PROVE  \A u \in Sessions : (Alive(u)' <=> Alive(u)) /\ (session'[u] = "none" => session[u] = "none")
  BY DEF Prompted, Alive, TypeOK

LEMMA CrewSend ==
    ASSUME TypeOK, OrphanInv, sendToSession
    PROVE  OrphanInv'
<1>1. /\ todo = <<>> /\ todo' = <<>> /\ exec.step \in {"send", "gsend"} /\ exec' = [exec EXCEPT !.step = "landed"]
      /\ UNCHANGED <<status, generation, worker, claim_owner, born>>
  BY DEF sendToSession, Quiet, table, task
<1>2. Kind[exec.task] = "send" /\ exec'.task = exec.task
  <2>1. exec # NoExec
    BY <1>1 DEF NoExec
  <2> QED
    BY <1>1, <2>1 DEF TypeOK, Execs, ExecsOf, Sends
<1>3. PICK s : session' = Prompted(s)
  BY DEF sendToSession
<1>4. \A u \in Sessions : (Alive(u)' => Alive(u)) /\ (session'[u] = "none" => session[u] = "none")
  BY <1>3, PromptedAlive
<1>5. RowOnly(exec.task) /\ Due(todo') = {}
  BY <1>1, DueFew DEF RowOnly
<1> QED
  BY <1>1, <1>2, <1>4, <1>5, CrewOtherCall

\* The call of a spawn task, and the workers there may be meanwhile.
LEMMA SpawnCall ==
    ASSUME TypeOK, OrphanInv, todo = <<>>, exec.step # "none", Kind[exec.task] = "spawn"
    PROVE  /\ status[exec.task] = "claimed"
           /\ exec.step \in {"continue", "continued", "spawn", "landed"}
           /\ exec.step \in {"continue", "continued"} => exec.sess = worker[exec.task]
           /\ \A s \in Sessions : Alive(s) /\ born[s] = exec.task => s = exec.sess /\ exec.step # "spawn"
<1>1. exec.step \in {"continue", "continued", "spawn", "landed"}
  <2>1. exec # NoExec
    BY DEF NoExec
  <2> QED
    BY <2>1 DEF TypeOK, Execs, ExecsOf, Sends
<1>2. PICK t \in Tasks : t = exec.task
  BY ExecTypes
<1>3. CallCrew
  BY DEF OrphanInv
<1>4. ASSUME NEW s \in Sessions, Alive(s), born[s] = t PROVE s = exec.sess /\ exec.step # "spawn"
  <2>1. Crew(s)
    BY <1>2, <1>4, NamesAssumption DEF Crew
  <2>2. Needed(s)
    BY <2>1, CrewAtRest, DueFew
  <2> QED
    BY <1>1, <1>2, <1>3, <1>4, <2>2 DEF CallCrew, Needed
<1> QED
  BY <1>1, <1>2, <1>3, <1>4 DEF CallCrew

LEMMA CrewContinue ==
    ASSUME TypeOK, OrphanInv, continueWorker
    PROVE  OrphanInv'
<1>1. /\ todo = <<>> /\ todo' = <<>> /\ exec.step = "continue"
      /\ UNCHANGED <<status, generation, worker, claim_owner, born>>
  BY DEF continueWorker, Quiet, table, task
<1>2. PICK t \in Tasks, s \in Sessions : t = exec.task /\ s = exec.sess
  BY <1>1, ExecTypes
<1>3. exec # NoExec
  BY <1>1 DEF NoExec
<1>4. /\ exec'.task = t /\ exec'.sess = s
      /\ \/ Alive(s) /\ exec'.step = "continued" /\ session' = Prompted(s)
         \/ ~Alive(s) /\ exec'.step = "spawn" /\ session' = session
  BY <1>2, <1>3 DEF continueWorker, TypeOK, Execs, ExecsOf
<1>5. \A u \in Sessions : (Alive(u)' <=> Alive(u)) /\ (session'[u] = "none" => session[u] = "none")
  <2>1. CASE session' = session
    BY <2>1 DEF Alive
  <2>2. CASE session' = Prompted(s)
    BY <2>2, PromptedAlive
  <2> QED
    BY <1>4, <2>1, <2>2
<1>6. RowOnly(t) /\ Due(todo') = {} /\ Due(todo) = {}
  BY <1>1, DueFew DEF RowOnly
<1>7. CASE Kind[t] # "spawn"
  BY <1>1, <1>2, <1>4, <1>5, <1>6, <1>7, CrewOtherCall
<1>8. CASE Kind[t] = "spawn"
  <2>1. /\ status[t] = "claimed" /\ s = worker[t]
        /\ \A u \in Sessions : Alive(u) /\ born[u] = t => u = s
    BY <1>1, <1>2, <1>8, SpawnCall
  <2>2. CallCrew'
    BY <1>1, <1>4, <1>5, <2>1 DEF CallCrew
  <2>3. ASSUME NEW u \in Sessions, Crew(u)' PROVE Needed(u)'
    <3>1. Crew(u) /\ Needed(u)
      BY <1>1, <1>5, <1>6, <2>3, CrewAtRest DEF Crew
    <3> QED
      BY <1>1, <1>2, <1>4, <3>1 DEF Needed, Terminal
  <2> QED
    BY <1>1, <1>5, <1>6, <2>2, <2>3 DEF OrphanInv
<1> QED
  BY <1>7, <1>8

LEMMA CrewSpawn ==
    ASSUME TypeOK, OrphanInv, spawnWorker
    PROVE  OrphanInv'
<1>1. /\ todo = <<>> /\ todo' = <<>> /\ exec.step = "spawn" /\ UNCHANGED <<status, generation, worker>>
  BY DEF spawnWorker, Quiet, table, task
<1>2. PICK t \in Tasks : t = exec.task
  BY <1>1, ExecTypes
<1>3. exec # NoExec
  BY <1>1 DEF NoExec
<1>4. PICK s \in Sessions :
          /\ session' = [session EXCEPT ![s] = "active"] /\ born' = [born EXCEPT ![s] = t]
          /\ exec' = [exec EXCEPT !.step = "landed", !.sess = s]
  BY <1>2 DEF spawnWorker
<1>5. exec'.task = t /\ exec'.sess = s /\ exec'.step = "landed"
  BY <1>2, <1>3, <1>4 DEF TypeOK, Execs, ExecsOf
<1>6. \A u \in Sessions : u # s => /\ born'[u] = born[u] /\ session'[u] = session[u]
                                   /\ (Alive(u)' <=> Alive(u))
  BY <1>4 DEF TypeOK, Alive
<1>7. born'[s] = t /\ session'[s] = "active"
  BY <1>4 DEF TypeOK
<1>8. Kind[t] = "spawn" => status[t] = "claimed" /\ \A u \in Sessions : ~(Alive(u) /\ born[u] = t)
  BY <1>1, <1>2, SpawnCall
<1>9. Due(todo') = {} /\ Due(todo) = {}
  BY <1>1, DueFew
<1>10. ASSUME NEW u \in Sessions, Crew(u)' PROVE Needed(u)'
  <2>1. CASE u = s
    BY <1>1, <1>5, <1>7, <1>8, <1>10, <2>1 DEF Crew, Needed, Terminal, TERMINAL_TASK_STATUS
  <2>2. CASE u # s
    <3>1. Crew(u) /\ Needed(u) /\ born'[u] = born[u]
      BY <1>6, <1>9, <1>10, <2>2, CrewAtRest DEF Crew
    <3>2. born[u] # t
      BY <1>8, <3>1 DEF Crew
    <3> QED
      BY <1>1, <1>2, <3>1, <3>2 DEF Needed, Terminal
  <2> QED
    BY <2>1, <2>2
<1>11. CallCrew'
  BY <1>1, <1>5, <1>6, <1>8 DEF CallCrew
<1>12. \A u \in Sessions : session'[u] = "none" => born'[u] = NoTask
  BY <1>6, <1>7 DEF OrphanInv
<1> QED
  BY <1>9, <1>10, <1>11, <1>12 DEF OrphanInv

LEMMA CrewThrows ==
    ASSUME TypeOK, OrphanInv, HostThrows
    PROVE  OrphanInv'
<1>1. /\ todo = <<>> /\ exec' = NoExec /\ exec.step \in {"send", "gsend", "continue", "spawn"}
      /\ UNCHANGED <<status, generation, worker, claim_owner, born, session>>
  BY DEF HostThrows, Quiet, Refusals, table, task, world
<1>2. PICK t \in Tasks, g \in Nat, s \in AnySession : t = exec.task /\ g = exec.generation /\ s = exec.sess
  BY <1>1, ExecTypes
<1>3. PICK how : todo' = <<Throw(s, t, g, how)>>
  BY <1>2 DEF HostThrows
<1>4. PICK h : h = Throw(s, t, g, how)
  OBVIOUS
<1>5. h.op = "throw" /\ h.task = t /\ h.sess = s
  BY <1>4 DEF Throw, Item
<1>6. Due(todo') = {h} /\ Due(todo) = {}
  BY <1>1, <1>3, <1>4, DueFew
<1>7. CASE Kind[t] # "spawn"
  <2>1. RowOnly(t) /\ ItemCrew(h)'
    BY <1>1, <1>5, <1>7 DEF RowOnly, ItemCrew
  <2>2. \A u \in Sessions : (Alive(u)' => Alive(u)) /\ (session'[u] = "none" => session[u] = "none")
    BY <1>1 DEF Alive
  <2> QED
    BY <1>1, <1>2, <1>6, <1>7, <2>1, <2>2, CrewOtherCall
<1>8. CASE Kind[t] = "spawn"
  <2>1. \A u \in Sessions : Alive(u) /\ born[u] = t => u = s /\ worker[t] = u
    BY <1>1, <1>2, <1>8, SpawnCall
  <2>2. \A u \in Sessions : Alive(u)' /\ born'[u] = t => u = s /\ worker'[t] = u
    BY <1>1, <2>1 DEF Alive
  <2>3. ItemCrew(h)'
    BY <1>5, <2>2 DEF ItemCrew
  <2>4. ASSUME NEW u \in Sessions, Crew(u)' PROVE Needed(u)'
    <3>1. Crew(u) /\ Needed(u) /\ Alive(u)
      BY <1>1, <1>6, <2>4, CrewAtRest DEF Crew, Alive
    <3>2. born[u] = t => worker[t] = u
      BY <2>1, <3>1
    <3> QED
      BY <1>1, <1>2, <3>1, <3>2 DEF Needed, Terminal
  <2>5. CallCrew' /\ \A u \in Sessions : session'[u] = "none" => born'[u] = NoTask
    BY <1>1 DEF CallCrew, NoExec, OrphanInv
  <2> QED
    BY <1>6, <2>3, <2>4, <2>5 DEF OrphanInv
<1> QED
  BY <1>7, <1>8

LEMMA CrewExecuted ==
    ASSUME TypeOK, DutyInv, OrphanInv, Executed
    PROVE  OrphanInv'
<1>1. todo = <<>> /\ exec' = NoExec /\ exec.step \in {"landed", "continued"} /\ UNCHANGED <<born, session>>
  BY DEF Executed, Quiet, world
<1>2. PICK t \in Tasks, g \in Nat, s \in AnySession : t = exec.task /\ g = exec.generation /\ s = exec.sess
  BY <1>1, ExecTypes
<1>3. \A u \in Sessions : (Alive(u)' <=> Alive(u)) /\ (session'[u] = "none" => session[u] = "none")
  BY <1>1 DEF Alive
<1>c. PICK c \in Items : c = Step("claim") /\ c.op = "claim"
  BY StepType, FewMeans DEF Meaning
<1>4. <<>> \o <<c>> = <<c>>
  BY <1>c
<1>5. Kind[t] # "spawn" \/ Fence(t, g) => todo' = <<c>>
  BY <1>2, <1>c, <1>4 DEF Executed
<1>6. CASE Kind[t] # "spawn"
  <2>1. Due(todo') = {c}
    BY <1>5, <1>6, DueFew
  <2>2. \A i \in Due(todo') : ItemCrew(i)'
    BY <1>c, <2>1, ItemCrewOther
  <2>3. UNCHANGED task \/ dispatchComplete(t) \/ dispatchMarkRunning(t, s)
    BY <1>2 DEF Executed
  <2>4. UNCHANGED task => RowOnly(t)
    BY DEF task, RowOnly
  <2>5. RowOnly(t)
    BY <2>3, <2>4, OneRow
  <2> QED
    BY <1>1, <1>2, <1>3, <1>6, <2>2, <2>5, CrewOtherCall
<1>7. CASE Kind[t] = "spawn"
  <2>1. \A u \in Sessions : Alive(u) /\ born[u] = t => u = s
    BY <1>1, <1>2, <1>7, SpawnCall
  <2>2. Fence(t, g)
    <3>1. status[t] = "claimed"
      BY <1>1, <1>2, <1>7, SpawnCall
    <3>2. generation[t] = g
      BY <1>1, <1>2, <3>1 DEF DutyInv, CallInv, Live
    <3> QED
      BY <3>1, <3>2 DEF Fence
  <2>3. dispatchMarkRunning(t, s) /\ todo' = <<c>>
    BY <1>2, <1>5, <1>7, <2>2 DEF Executed
  <2>4. RowOnly(t) /\ status'[t] = "running" /\ worker'[t] = s
    BY <2>3, OneRow DEF dispatchMarkRunning, TypeOK
  <2>5. Due(todo') = {c} /\ Due(todo) = {}
    BY <1>1, <2>3, DueFew
  <2>6. \A i \in Due(todo') : ItemCrew(i)'
    BY <1>c, <2>5, ItemCrewOther
  <2>7. ASSUME NEW u \in Sessions, Crew(u)' PROVE Needed(u)'
    <3>1. Crew(u) /\ Needed(u) /\ Alive(u)
      BY <1>1, <1>3, <2>5, <2>7, CrewAtRest DEF Crew
    <3>2. PICK v \in Tasks : v = born[u] /\ born'[u] = v
      BY <1>1, <3>1 DEF Crew, TypeOK
    <3>3. CASE v = t
      <4>1. u = s
        BY <2>1, <3>1, <3>2, <3>3
      <4> QED
        BY <2>4, <3>2, <3>3, <4>1 DEF Needed, Terminal, TERMINAL_TASK_STATUS
    <3>4. CASE v # t
      BY <1>2, <2>4, <3>1, <3>2, <3>4 DEF Needed, Terminal, RowOnly
    <3> QED
      BY <3>3, <3>4
  <2>8. CallCrew' /\ \A u \in Sessions : session'[u] = "none" => born'[u] = NoTask
    BY <1>1 DEF CallCrew, NoExec, OrphanInv
  <2> QED
    BY <2>6, <2>7, <2>8 DEF OrphanInv
<1> QED
  BY <1>6, <1>7

LEMMA CrewStep ==
    ASSUME TypeOK, TurnInv, LastInv, PassInv, DutyInv, OrphanInv, [Next]_vars, ~Crash
    PROVE  OrphanInv'
  BY CrewTurns, CrewQuietSteps, CrewEnqueue, CrewTick, CrewLoop, CrewSettles, CrewSend, CrewContinue, CrewSpawn,
     CrewThrows, CrewExecuted DEF Next, Handlers, Loop, Execution, SessionSteps

(* NoOrphanWorker: between two turns every live worker session belongs to a    *)
(* task that has not ended, as the worker its row records or as the one the    *)
(* awaited call is about; whichever of a reclaim, a refused start, a late end  *)
(* or a vanished session came first.  A crash between the start of a session   *)
(* and the record of it is the exception.                                      *)
THEOREM WorkersOwned ==
    ASSUME "crash" \notin Faults
    PROVE  Spec => []NoOrphanWorker
<1>1. Init => OrphanInv
  <2> SUFFICES ASSUME Init PROVE OrphanInv
    OBVIOUS
  <2>1. Due(todo) = {} /\ exec.step = "none" /\ \A s \in Sessions : born[s] = NoTask
    BY DueFew DEF Init, NoExec
  <2> QED
    BY <2>1 DEF OrphanInv, Crew, CallCrew
<1>2. ~Crash
  BY DEF Crash
<1>3. TypeOK /\ TurnInv /\ LastInv /\ PassInv /\ DutyInv /\ OrphanInv /\ [Next]_vars => OrphanInv'
  BY <1>2, CrewStep
<1>4. OrphanInv => NoOrphanWorker
  <2> SUFFICES ASSUME OrphanInv, todo = <<>>, NEW s \in Sessions, Crew(s) PROVE Needed(s)
    BY DEF NoOrphanWorker, Quiet, Crew, Needed
  <2> QED
    BY DueFew, CrewAtRest
<1> QED
  BY <1>1, <1>3, <1>4, TypeCorrect, TurnCorrect, DutyCorrect, PTL DEF Spec

=============================================================================
