--------------------------- MODULE DispatchProofs ---------------------------
(* What Dispatch does for any tasks, sessions, kinds, groups and bounds.       *)
(*   TypeOK        is inductive (TypeCorrect).                                 *)
(*   TurnInv       says what the statements still to come in a turn rely on    *)
(*                 (TurnCorrect); with it every step is a StoreMove, one       *)
(*                 statement of the store or none.                             *)
(*   From that     an ended task stays ended (Finality), a panel joins once    *)
(*                 all have ended (BarrierJoins), and the queue is a           *)
(*                 TaskLifecycle (Implements).                                 *)
(*   BatchInv      is about the events alone (HandedBeforeMarked and           *)
(*                 HandedAtMostOnce).                                          *)
(*   PanelInv      ties a member's worker to its brief (PanelBriefed).         *)
(*   BriefInv      counts the briefs of a task against its tries (BriefsPaid). *)
EXTENDS DispatchProps, FiniteSetTheorems, SequenceTheorems, TLAPS

LEMMA HeadIsItem ==
    ASSUME TypeOK, todo # <<>>
    PROVE  /\ Head1 \in Items
           /\ Tail(todo) \in Seq(Items)
  BY DEF TypeOK, Head1

LEMMA TaskItem ==
    ASSUME TypeOK, NEW op \in {"reclaimed", "admit", "settle", "wedge", "resume", "throw", "finish",
                               "emit", "notice"}, Doing(op)
    PROVE  /\ Head1.task \in Tasks /\ Head1.generation \in Nat /\ Head1.sess \in AnySession
           /\ op = "finish" => Head1.how \in {"idle", "error"}
           /\ op = "throw" => Head1.how \in {"retry", "final"}
           /\ op \in {"emit", "notice"} => Head1.how \in TaskEvents
  BY HeadIsItem DEF Doing, Items, ItemsOf

LEMMA SessionItem ==
    ASSUME TypeOK, Doing("destroy")
    PROVE  Head1.sess \in Sessions
  BY HeadIsItem DEF Doing, Items, ItemsOf

LEMMA ItemTypes ==
    ASSUME NEW t \in Tasks, NEW g \in Nat, NEW s \in AnySession
    PROVE  /\ \A end \in {"idle", "error"} : Finish(s, t, g, end) \in Items
           /\ \A how \in {"retry", "final"} : Throw(s, t, g, how) \in Items
           /\ \A type \in TaskEvents : Emit(t, type) \in Items
           /\ Notice(t) \in Items /\ Settle(t) \in Items /\ Reclaimed(t) \in Items
           /\ Wedge(s, t, g) \in Items /\ Resume(t, g) \in Items /\ Admit(t) \in Items
           /\ s # NoSession => Destroy(s) \in Items
  BY DEF Items, ItemsOf, AnySession, TaskEvents, Item, Finish, Throw, Emit, Notice, Settle, Reclaimed, Wedge,
         Resume, Admit, Destroy

LEMMA StepType == \A op \in {"renew", "claim", "deliver", "pump"} : Step(op) \in Items
  BY DEF Items, ItemsOf, Step, Item

LEMMA GoesOn ==
    ASSUME TypeOK, todo # <<>>, NEW items \in Seq(Items), Goes(items)
    PROVE  todo' \in Seq(Items)
  BY HeadIsItem DEF Goes

LEMMA GoesTypes ==
    ASSUME TypeOK, todo # <<>>
    PROVE  /\ Goes(<<>>) => todo' \in Seq(Items)
           /\ \A i \in Items : Goes(<<i>>) => todo' \in Seq(Items)
           /\ \A items \in Seq(Items) : Goes(items) => todo' \in Seq(Items)
<1>1. \A items \in Seq(Items) : Goes(items) => todo' \in Seq(Items)
  BY GoesOn
<1>2. <<>> \in Seq(Items) /\ \A i \in Items : <<i>> \in Seq(Items)
  OBVIOUS
<1> QED
  BY <1>1, <1>2

LEMMA AfterType ==
    ASSUME NEW t \in Tasks, NEW st, NEW s \in AnySession
    PROVE  After(t, st, s) \in Seq(Items)
<1>1. Teardown(t, s) \in Seq(Items)
  BY ItemTypes, s # NoSession => <<Destroy(s)>> \in Seq(Items) DEF Teardown
<1>2. EventOf(st) \in TaskEvents
  BY DEF EventOf, TaskEvents
<1>3. Emit(t, EventOf(st)) \in Items /\ Settle(t) \in Items
  BY <1>2, ItemTypes, 0 \in Nat
<1> QED
  BY <1>1, <1>3 DEF After

LEMMA WorkerType ==
    ASSUME TypeOK, NEW t \in Tasks
    PROVE  /\ status[t] \in Statuses /\ worker[t] \in AnySession
           /\ generation[t] \in Nat /\ attempts[t] \in Nat
  BY DEF TypeOK

\* The columns of the task table.
TableOK ==
    /\ status \in [Tasks -> Statuses]
    /\ attempts \in [Tasks -> Nat] /\ generation \in [Tasks -> Nat] /\ claim_owner \in [Tasks -> Nat]
    /\ leased \in [Tasks -> BOOLEAN] /\ cooling \in [Tasks -> BOOLEAN] /\ lapsed \in [Tasks -> BOOLEAN]
    /\ worker \in [Tasks -> AnySession]

LEMMA FailureStatus == \A t : AfterFailure(t) \in {"failed", "blocked", "queued"}
  BY DEF AfterFailure

(* Every statement of the store keeps the columns typed.                       *)
LEMMA TableSteps ==
    ASSUME TypeOK
    PROVE  /\ \A t \in Tasks, s \in AnySession : dispatchMarkRunning(t, s) => TableOK'
           /\ \A t \in Tasks : dispatchClaimNext(t) \/ dispatchComplete(t) \/ dispatchHold(t)
                                \/ dispatchUnhold(t) \/ dispatchRelease(t) => TableOK'
           /\ \A t \in Tasks, r \in BOOLEAN : dispatchFail(t, r) => TableOK'
           /\ \A t \in Tasks, cost \in {0, 1} : EndAttempt(t, cost) => TableOK'
           /\ \A entries : dispatchTouch(entries) => TableOK'
           /\ \A S : Submit(S) => TableOK'
           /\ dispatchReclaimStale => TableOK'
           /\ UNCHANGED task => TableOK'
<1> USE DEF TypeOK, TableOK, Statuses
<1>1. boot \in Nat
  BY BoundsAssumption
<1>2. \A t \in Tasks, s \in AnySession : dispatchMarkRunning(t, s) => TableOK'
  BY DEF dispatchMarkRunning
<1>3. \A t \in Tasks : dispatchClaimNext(t) => TableOK'
  BY <1>1 DEF dispatchClaimNext
<1>4. \A t \in Tasks : dispatchComplete(t) \/ dispatchHold(t) \/ dispatchUnhold(t) => TableOK'
  BY DEF dispatchComplete, dispatchHold, dispatchUnhold
<1>5. \A t \in Tasks : dispatchRelease(t) => TableOK'
  BY DEF dispatchRelease, Unclaimed
<1>6. \A t \in Tasks, r \in BOOLEAN : dispatchFail(t, r) => TableOK'
  BY FailureStatus DEF dispatchFail, Failed, Unclaimed
<1>7. \A t \in Tasks, cost \in {0, 1} : EndAttempt(t, cost) => TableOK'
  BY DEF EndAttempt, Unclaimed
<1>8. \A entries : dispatchTouch(entries) => TableOK'
  BY DEF dispatchTouch
<1>9. \A S : Submit(S) => TableOK'
  BY DEF Submit
<1>10. dispatchReclaimStale => TableOK'
  BY FailureStatus DEF dispatchReclaimStale
<1>11. UNCHANGED task => TableOK'
  BY DEF task
<1> QED
  BY <1>2, <1>3, <1>4, <1>5, <1>6, <1>7, <1>8, <1>9, <1>10, <1>11

LEMMA WatchTypes ==
    ASSUME TypeOK, NEW t \in Tasks, NEW s \in Sessions, NEW g \in Nat
    PROVE  watch(s, t, g) \subseteq Sessions \X Tasks \X Nat /\ IsFiniteSet(watch(s, t, g))
<1>1. IsFiniteSet(unwatch(s, t))
  BY FS_Subset, unwatch(s, t) \subseteq watched DEF unwatch, TypeOK
<1>2. IsFiniteSet(watch(s, t, g))
  BY <1>1, FS_AddElement DEF watch
<1>3. watch(s, t, g) \subseteq Sessions \X Tasks \X Nat
  BY DEF watch, unwatch, TypeOK
<1> QED
  BY <1>2, <1>3

LEMMA OrderType ==
    ASSUME NEW S, IsFiniteSet(S), NEW order \in Orders(S)
    PROVE  order \in Seq(S) /\ DOMAIN order = 1..Cardinality(S) /\ Cardinality(S) \in Nat
  BY FS_CardinalityType DEF Orders

LEMMA SeqOf ==
    ASSUME NEW S, NEW n \in Nat, NEW q \in [1..n -> S]
    PROVE  q \in Seq(S)
  OBVIOUS

LEMMA InitType == Init => TypeOK
<1> SUFFICES ASSUME Init PROVE TypeOK
  OBVIOUS
<1>1. TableOK
  BY DEF Init, TableOK, Statuses, AnySession
<1>2. events \in Seq(Event) /\ todo \in Seq(Items)
  BY DEF Init
<1>3. boot \in 1..MaxBoots /\ waits \in 0..MaxWaits
  BY BoundsAssumption DEF Init
<1>4. watched \subseteq Sessions \X Tasks \X Nat /\ IsFiniteSet(watched)
  BY FS_EmptySet DEF Init
<1>5. exec \in Execs /\ delivery \in [step : {"none", "sending", "handed"}, ids : SUBSET Nat]
  BY DEF Init, Execs, NoDelivery
<1>6. session \in [Sessions -> SessionStatuses] /\ born \in [Sessions -> Tasks \cup {NoTask}]
  BY DEF Init, SessionStatuses
<1>7. /\ tick \in {"off", "run", "deliver"} /\ touched \subseteq Tasks
      /\ conductor \in {"idle", "busy"} /\ inbox \subseteq Tasks \X {"waiting", "answered"}
      /\ briefed \in [Tasks -> Nat] /\ settled \in [Tasks -> Nat]
  BY DEF Init
<1> QED
  BY <1>1, <1>2, <1>3, <1>4, <1>5, <1>6, <1>7 DEF TypeOK, TableOK

(* Type correctness, one lemma per part of Next.                               *)
LEMMA TurnTypes ==
    ASSUME TypeOK, RunTurn
    PROVE  TypeOK'
<1> USE DEF memory, world, history, table
<1>1. CASE RunReclaimed
  <2>1. unwatch(worker[Head1.task], Head1.task) \subseteq watched
    BY DEF unwatch
  <2>2. IsFiniteSet(watched') /\ watched' \subseteq Sessions \X Tasks \X Nat
    BY <1>1, <2>1, FS_Subset DEF RunReclaimed, TypeOK
  <2>3. todo' \in Seq(Items)
    BY <1>1, TaskItem, WorkerType, AfterType, GoesTypes DEF RunReclaimed, Doing
  <2> QED
    BY TableSteps, <1>1, <2>2, <2>3 DEF RunReclaimed, TypeOK, TableOK
<1>2. CASE RunRenew
  <2>1. todo' \in Seq(Items)
    BY <1>2, GoesTypes DEF RunRenew, Doing
  <2> QED
    BY TableSteps, <1>2, <2>1 DEF RunRenew, TypeOK, TableOK
<1>3. CASE RunClaim
  <2>1. todo' \in Seq(Items)
    BY <1>3, GoesTypes, ItemTypes DEF RunClaim, Doing, AnySession
  <2> QED
    BY TableSteps, <1>3, <2>1 DEF RunClaim, TypeOK, TableOK
<1>4. CASE RunNothingReady
  <2>1. todo' \in Seq(Items)
    BY <1>4, GoesTypes, StepType DEF RunNothingReady, Doing
  <2> QED
    BY TableSteps, <1>4, <2>1 DEF RunNothingReady, TypeOK, TableOK
<1>5. CASE RunDefer
  <2>1. todo' \in Seq(Items)
    BY <1>5, GoesTypes, StepType DEF RunDefer, Doing
  <2> QED
    BY TableSteps, <1>5, <2>1, TaskItem DEF RunDefer, TypeOK, TableOK
<1>6. CASE RunExecute
  <2>1. todo' \in Seq(Items)
    BY <1>6, GoesTypes DEF RunExecute, Doing
  <2>2. exec' \in Execs
    BY <1>6, TaskItem, WorkerType DEF RunExecute, Start, Execs, ExecsOf, Sends, AnySession
  <2> QED
    BY TableSteps, <1>6, <2>1, <2>2 DEF RunExecute, TypeOK, TableOK
<1>7. CASE RunGroupedSend
  <2>1. todo' \in Seq(Items)
    BY <1>7, GoesTypes DEF RunGroupedSend, Doing
  <2>2. exec' \in Execs
    BY <1>7, TaskItem, WorkerType DEF RunGroupedSend, Start, Execs, ExecsOf, Sends, AnySession
  <2>3. Head1.task \in Tasks /\ Target[Head1.task] \in Sessions /\ generation[Head1.task] \in Nat
    BY <1>7, TaskItem, TargetAssumption, WorkerType DEF RunGroupedSend
  <2>4. watched' \subseteq Sessions \X Tasks \X Nat /\ IsFiniteSet(watched')
    BY <1>7, <2>3, WatchTypes DEF RunGroupedSend
  <2> QED
    BY TableSteps, <1>7, <2>1, <2>2, <2>3, <2>4 DEF RunGroupedSend, TypeOK, TableOK, AnySession
<1>8. CASE RunGroupedRewatch
  <2> DEFINE t == Head1.task
             s == Target[t]
             g == generation[t]
  <2>1. t \in Tasks /\ s \in Sessions /\ s \in AnySession /\ g \in Nat
    BY <1>8, TaskItem, TargetAssumption, WorkerType DEF RunGroupedRewatch, AnySession
  <2>2. todo' \in Seq(Items)
    <3>1. \A how \in {"retry", "final"} : <<Throw(s, t, g, how)>> \in Seq(Items)
      BY <2>1, ItemTypes
    <3>2. \A end \in {"idle", "error"} : <<Finish(s, t, g, end), Step("claim")>> \in Seq(Items)
      BY <2>1, ItemTypes, StepType
    <3>3. <<Step("claim")>> \in Seq(Items)
      BY StepType
    <3> QED
      BY <1>8, <3>1, <3>2, <3>3, GoesTypes DEF RunGroupedRewatch, Doing
  <2>3. watched' \subseteq Sessions \X Tasks \X Nat /\ IsFiniteSet(watched')
    <3>1. watch(s, t, g) \subseteq Sessions \X Tasks \X Nat /\ IsFiniteSet(watch(s, t, g))
      BY <2>1, WatchTypes
    <3>2. watched' = watch(s, t, g) \/ watched' = watched
      BY <1>8 DEF RunGroupedRewatch
    <3> QED
      BY <3>1, <3>2 DEF TypeOK
  <2> QED
    BY TableSteps, <1>8, <2>1, <2>2, <2>3 DEF RunGroupedRewatch, TypeOK, TableOK
<1>9. CASE RunThrow
  <2>1. Head1.task \in Tasks /\ Head1.sess \in AnySession
    BY <1>9, TaskItem DEF RunThrow
  <2>2. unwatchTask(Head1.task) \subseteq watched
    BY DEF unwatchTask
  <2>3. IsFiniteSet(watched') /\ watched' \subseteq Sessions \X Tasks \X Nat
    BY <1>9, <2>2, FS_Subset DEF RunThrow, TypeOK
  <2>4. todo' \in Seq(Items)
    <3>1. \A next : After(Head1.task, next, Head1.sess) \o <<Step("claim")>> \in Seq(Items)
      BY <2>1, AfterType, StepType
    <3>2. <<Step("claim")>> \in Seq(Items)
      BY StepType
    <3> QED
      BY <1>9, <3>1, <3>2, GoesTypes DEF RunThrow, Doing
  <2> QED
    BY TableSteps, <1>9, <2>1, <2>3, <2>4 DEF RunThrow, TypeOK, TableOK
<1>10. CASE RunFinish
  <2>1. Head1.task \in Tasks /\ Head1.sess \in AnySession
    BY <1>10, TaskItem DEF RunFinish
  <2>2. todo' \in Seq(Items)
    <3>1. \A next : After(Head1.task, next, Head1.sess) \in Seq(Items)
      BY <2>1, AfterType
    <3> QED
      BY <1>10, <3>1, GoesTypes DEF RunFinish, Doing
  <2> QED
    BY TableSteps, <1>10, <2>1, <2>2 DEF RunFinish, TypeOK, TableOK
<1>11. CASE RunEmit
  <2>1. Head1.task \in Tasks /\ Head1.how \in EventTypes
    BY <1>11, TaskItem DEF RunEmit, EventTypes
  <2>2. events' \in Seq(Event)
    <3>1. \A type \in EventTypes : dispatchEventAdd(Head1.task, type) \in Seq(Event)
      BY <2>1 DEF dispatchEventAdd, Event, TypeOK
    <3>2. "group_done" \in EventTypes
      BY DEF EventTypes
    <3> QED
      BY <1>11, <2>1, <3>1, <3>2 DEF RunEmit, TypeOK
  <2>3. todo' \in Seq(Items)
    BY <1>11, GoesTypes, StepType DEF RunEmit, Doing
  <2> QED
    BY TableSteps, <1>11, <2>2, <2>3 DEF RunEmit, TypeOK, TableOK
<1>12. CASE RunSettle
  <2>1. todo' \in Seq(Items)
    BY <1>12, GoesTypes DEF RunSettle, Doing
  <2>2. settled' \in [Tasks -> Nat]
    <3>1. Head1.task \in Tasks
      BY <1>12, TaskItem DEF RunSettle
    <3> QED
      BY <1>12, <3>1 DEF RunSettle, TypeOK
  <2> QED
    BY TableSteps, <1>12, <2>1, <2>2 DEF RunSettle, TypeOK, TableOK
<1>13. CASE RunWedge
  <2>1. Head1.task \in Tasks
    BY <1>13, TaskItem DEF RunWedge
  <2>2. todo' \in Seq(Items)
    BY <1>13, <2>1, GoesTypes, ItemTypes DEF RunWedge, Doing, AnySession
  <2>3. inbox' \subseteq Tasks \X {"waiting", "answered"}
    <3>1. inbox' \subseteq inbox \cup {<<Head1.task, "waiting">>}
      BY <1>13 DEF RunWedge
    <3> QED
      BY <2>1, <3>1 DEF TypeOK
  <2> QED
    BY TableSteps, <1>13, <2>1, <2>2, <2>3 DEF RunWedge, TypeOK, TableOK
<1>14. CASE RunResume
  <2> DEFINE t == Head1.task
             g == Head1.generation
             s == worker[t]
  <2>1. t \in Tasks /\ g \in Nat /\ s \in AnySession
    BY <1>14, TaskItem, WorkerType DEF RunResume
  <2>2. <<Settle(t)>> \in Seq(Items) /\ \A end \in {"idle", "error"} : <<Finish(s, t, g, end)>> \in Seq(Items)
    BY <2>1, ItemTypes
  <2>3. todo' \in Seq(Items)
    BY <1>14, <2>2, GoesTypes DEF RunResume, Doing
  <2>4. watched' \subseteq Sessions \X Tasks \X Nat /\ IsFiniteSet(watched')
    <3>1. s # NoSession => /\ watch(s, t, g) \subseteq Sessions \X Tasks \X Nat
                           /\ IsFiniteSet(watch(s, t, g))
      BY <2>1, WatchTypes DEF AnySession
    <3>2. (s # NoSession /\ watched' = watch(s, t, g)) \/ watched' = watched
      BY <1>14 DEF RunResume
    <3> QED
      BY <3>1, <3>2 DEF TypeOK
  <2>5. TableOK'
    BY <1>14, <2>1, TableSteps DEF RunResume
  <2>6. inbox' \subseteq Tasks \X {"waiting", "answered"}
    <3>1. inbox' \subseteq inbox \cup {<<t, "waiting">>}
      BY <1>14 DEF RunResume
    <3> QED
      BY <2>1, <3>1 DEF TypeOK
  <2> QED
    BY TableSteps, <1>14, <2>3, <2>4, <2>5, <2>6 DEF RunResume, TypeOK, TableOK
<1>15. CASE RunDestroy
  <2>1. todo' \in Seq(Items)
    BY <1>15, GoesTypes DEF RunDestroy, Doing
  <2> QED
    BY TableSteps, <1>15, <2>1, SessionItem DEF RunDestroy, TypeOK, TableOK, SessionStatuses
<1>16. CASE RunDeliver
  <2>1. todo' \in Seq(Items)
    BY <1>16, GoesTypes DEF RunDeliver, Doing
  <2>2. delivery' \in [step : {"none", "sending", "handed"}, ids : SUBSET Nat]
    BY <1>16 DEF RunDeliver, TypeOK, dispatchEventsPending
  <2> QED
    BY TableSteps, <1>16, <2>1, <2>2 DEF RunDeliver, TypeOK, TableOK
<1> QED
  BY <1>1, <1>2, <1>3, <1>4, <1>5, <1>6, <1>7, <1>8, <1>9, <1>10, <1>11, <1>12, <1>13, <1>14, <1>15, <1>16
     DEF RunTurn

LEMMA HandlerTypes ==
    ASSUME TypeOK, Handlers \/ Loop
    PROVE  TypeOK'
<1> USE DEF memory, world, history, table
<1>1. CASE enqueue \/ enqueueGroup
  BY <1>1, TableSteps DEF enqueue, enqueueGroup, TypeOK, TableOK
<1>2. CASE StartTick
  <2> DEFINE stale == {t \in Tasks : Stale(t)}
  <2>1. IsFiniteSet(stale)
    BY FS_Subset, GroupAssumption
  <2>2. todo' \in Seq(Items)
    <3>1. PICK order \in Orders(stale) :
            todo' = [i \in DOMAIN order |-> Reclaimed(order[i])] \o <<Step("renew"), Step("claim")>>
      BY <1>2 DEF StartTick
    <3>2. order \in Seq(stale) /\ DOMAIN order = 1..Cardinality(stale) /\ Cardinality(stale) \in Nat
      BY <2>1, OrderType
    <3>3. \A i \in DOMAIN order : Reclaimed(order[i]) \in Items
      BY <3>1, ItemTypes, 0 \in Nat, NoSession \in AnySession DEF Orders, AnySession
    <3>4. [i \in DOMAIN order |-> Reclaimed(order[i])] \in Seq(Items)
      <4>1. [i \in DOMAIN order |-> Reclaimed(order[i])] \in [1..Cardinality(stale) -> Items]
        BY <3>2, <3>3
      <4> QED
        BY <4>1, <3>2, SeqOf
    <3>5. <<Step("renew"), Step("claim")>> \in Seq(Items)
      BY StepType
    <3> QED
      BY <3>1, <3>4, <3>5
  <2>3. TableOK'
    BY <1>2, TableSteps DEF StartTick
  <2> QED
    BY <1>2, <2>2, <2>3 DEF StartTick, TypeOK, TableOK
<1>3. ASSUME NEW t \in Tasks, hold(t) PROVE TypeOK'
  <2>1. unwatch(worker[t], t) \subseteq watched
    BY DEF unwatch
  <2>2. IsFiniteSet(watched') /\ watched' \subseteq Sessions \X Tasks \X Nat
    BY <1>3, <2>1, FS_Subset DEF hold, TypeOK
  <2>3. inbox' \subseteq Tasks \X {"waiting", "answered"}
    BY <1>3 DEF hold, TypeOK
  <2> QED
    BY <1>3, <2>2, <2>3, TableSteps DEF hold, TypeOK, TableOK
<1>4. ASSUME NEW t \in Tasks, unhold(t) PROVE TypeOK'
  <2>1. todo' \in Seq(Items)
    <3>1. Settle(t) \in Items /\ Resume(t, generation[t]) \in Items
      BY ItemTypes, WorkerType DEF AnySession
    <3> QED
      BY <1>4, <3>1 DEF unhold
  <2>2. inbox' \subseteq Tasks \X {"waiting", "answered"}
    BY <1>4 DEF unhold, TypeOK
  <2>3. TableOK'
    BY <1>4, TableSteps DEF unhold
  <2> QED
    BY <1>4, <2>1, <2>2, <2>3 DEF unhold, TypeOK, TableOK
<1>5. ASSUME NEW t \in Tasks, cancel(t) PROVE TypeOK'
  <2>1. unwatchTask(t) \subseteq watched
    BY DEF unwatchTask
  <2>2. IsFiniteSet(watched') /\ watched' \subseteq Sessions \X Tasks \X Nat
    BY <1>5, <2>1, FS_Subset DEF cancel, TypeOK
  <2>3. Settle(t) \in Items
    BY ItemTypes, 0 \in Nat DEF AnySession
  <2>4. todo' \in Seq(Items)
    BY <1>5, <2>3 DEF cancel
  <2>5. TableOK'
    BY <1>5, TableSteps DEF cancel
  <2> QED
    BY <1>5, <2>2, <2>4, <2>5 DEF cancel, TypeOK, TableOK
<1> QED
  BY <1>1, <1>2, <1>3, <1>4, <1>5 DEF Handlers, Loop

LEMMA ExecTypes ==
    ASSUME TypeOK, exec.step # "none"
    PROVE  /\ exec.task \in Tasks /\ exec.generation \in Nat /\ exec.sess \in AnySession
           /\ exec.step \in {"send", "gsend"} => Kind[exec.task] = "send"
           /\ exec.step \in {"spawn", "continue", "continued"} => Kind[exec.task] # "send"
           /\ exec.step = "landed" /\ Kind[exec.task] # "send" => exec.sess \in Sessions
           /\ exec.step \in {"continue", "continued"} => exec.sess \in Sessions
<1>1. exec # NoExec
  BY DEF NoExec
<1> QED
  BY <1>1 DEF TypeOK, Execs, ExecsOf, Sends, AnySession

LEMMA ExecutionTypes ==
    ASSUME TypeOK, Execution
    PROVE  TypeOK'
<1> USE DEF memory, world, history, table
<1>1. CASE sendToSession
  <2>1. exec.task \in Tasks /\ Target[exec.task] \in Sessions
    BY <1>1, ExecTypes, TargetAssumption DEF sendToSession
  <2>2. exec' \in Execs
    <3>1. exec \in ExecsOf(Sends, {"send", "gsend", "landed"}, AnySession)
      BY <1>1 DEF sendToSession, TypeOK, Execs, ExecsOf, NoExec
    <3>2. exec' \in ExecsOf(Sends, {"send", "gsend", "landed"}, AnySession)
      BY <1>1, <3>1 DEF sendToSession, ExecsOf
    <3> QED
      BY <3>2 DEF Execs
  <2>3. session' \in [Sessions -> SessionStatuses] /\ briefed' \in [Tasks -> Nat]
    BY <1>1, <2>1 DEF sendToSession, Prompted, Brief, TypeOK, SessionStatuses
  <2> QED
    BY <1>1, <2>2, <2>3, TableSteps DEF sendToSession, TypeOK, TableOK
<1>2. CASE continueWorker
  <2>1. exec.task \in Tasks /\ exec.sess \in Sessions
    BY <1>2, ExecTypes DEF continueWorker
  <2>2. exec' \in Execs
    <3>1. exec \in ExecsOf(Tasks \ Sends, {"continue", "landed", "continued"}, Sessions)
      BY <1>2 DEF continueWorker, TypeOK, Execs, ExecsOf, NoExec
    <3>2. CASE exec' = [exec EXCEPT !.step = "continued"]
      BY <3>1, <3>2 DEF ExecsOf, Execs
    <3>3. CASE exec' = [exec EXCEPT !.step = "spawn"]
      BY <3>1, <3>3 DEF ExecsOf, Execs, AnySession
    <3> QED
      BY <1>2, <3>2, <3>3 DEF continueWorker
  <2>3. session' \in [Sessions -> SessionStatuses] /\ briefed' \in [Tasks -> Nat]
    <3>1. CASE UNCHANGED <<session, briefed>>
      BY <3>1 DEF TypeOK
    <3>2. CASE session' = Prompted(exec.sess) /\ Brief(exec.task)
      BY <2>1, <3>2 DEF Prompted, Brief, TypeOK, SessionStatuses
    <3> QED
      BY <1>2, <3>1, <3>2 DEF continueWorker
  <2> QED
    BY <1>2, <2>2, <2>3, TableSteps DEF continueWorker, TypeOK, TableOK
<1>3. CASE spawnWorker
  <2>1. exec.task \in Tasks
    BY <1>3, ExecTypes DEF spawnWorker
  <2>2. exec' \in Execs
    <3>1. exec \in ExecsOf(Tasks \ Sends, {"spawn"}, AnySession)
      BY <1>3 DEF spawnWorker, TypeOK, Execs, ExecsOf, NoExec
    <3>2. PICK s \in Sessions : exec' = [exec EXCEPT !.step = "landed", !.sess = s]
      BY <1>3 DEF spawnWorker
    <3>3. exec' = [task |-> exec.task, generation |-> exec.generation, step |-> "landed", sess |-> s]
      BY <3>1, <3>2 DEF ExecsOf
    <3>4. exec' \in ExecsOf(Tasks \ Sends, {"continue", "landed", "continued"}, Sessions)
      BY <3>1, <3>3 DEF ExecsOf
    <3> QED
      BY <3>4 DEF Execs
  <2>3. /\ session' \in [Sessions -> SessionStatuses] /\ briefed' \in [Tasks -> Nat]
        /\ born' \in [Sessions -> Tasks \cup {NoTask}]
    BY <1>3, <2>1 DEF spawnWorker, Brief, TypeOK, SessionStatuses
  <2> QED
    BY <1>3, <2>2, <2>3, TableSteps DEF spawnWorker, TypeOK, TableOK
<1>4. CASE HostThrows
  <2>1. exec.task \in Tasks /\ exec.generation \in Nat /\ exec.sess \in AnySession
    BY <1>4, ExecTypes DEF HostThrows, Refusals
  <2>2. PICK how \in {"retry", "final"} : todo' = <<Throw(exec.sess, exec.task, exec.generation, how)>>
    BY <1>4 DEF HostThrows, Refusals
  <2>3. todo' \in Seq(Items)
    BY <2>1, <2>2, ItemTypes
  <2> QED
    BY <1>4, <2>3, TableSteps DEF HostThrows, TypeOK, TableOK, Execs
<1>5. CASE Executed
  <2> DEFINE t == exec.task
             g == exec.generation
             s == exec.sess
  <2>1. t \in Tasks /\ g \in Nat /\ s \in AnySession /\ (Kind[t] # "send" => s \in Sessions)
    BY <1>5, ExecTypes DEF Executed
  <2>2. todo' \in Seq(Items)
    <3>1. Step("claim") \in Items /\ (Kind[t] # "send" => Destroy(s) \in Items)
      BY <2>1, StepType, ItemTypes, NamesAssumption
    <3>2. <<Step("claim")>> \in Seq(Items) /\ (Kind[t] # "send" => <<Destroy(s)>> \in Seq(Items))
      BY <3>1
    <3>3. Kind[t] # "send" => <<Destroy(s)>> \o <<Step("claim")>> \in Seq(Items)
      BY <3>2
    <3>4. <<>> \o <<Step("claim")>> \in Seq(Items)
      BY <3>2
    <3> QED
      BY <1>5, <3>2, <3>3, <3>4 DEF Executed
  <2>3. watched' \subseteq Sessions \X Tasks \X Nat /\ IsFiniteSet(watched')
    <3>1. Kind[t] # "send" => /\ watch(s, t, g) \subseteq Sessions \X Tasks \X Nat
                              /\ IsFiniteSet(watch(s, t, g))
      BY <2>1, WatchTypes
    <3>2. (Kind[t] # "send" /\ watched' = watch(s, t, g)) \/ watched' = watched
      BY <1>5 DEF Executed
    <3> QED
      BY <3>1, <3>2 DEF TypeOK
  <2>4. TableOK'
    BY <1>5, <2>1, TableSteps DEF Executed
  <2> QED
    BY <1>5, <2>2, <2>3, <2>4 DEF Executed, TypeOK, TableOK, Execs
<1> QED
  BY <1>1, <1>2, <1>3, <1>4, <1>5 DEF Execution

LEMMA EventUpdates ==
    ASSUME NEW e \in Event
    PROVE  /\ [e EXCEPT !.handed = @ + 1] \in Event
           /\ [e EXCEPT !.delivered = TRUE] \in Event
<1>1. [e EXCEPT !.handed = @ + 1] \in Event
  BY DEF Event
<1>2. [e EXCEPT !.delivered = TRUE] \in Event
  BY DEF Event
<1> QED
  BY <1>1, <1>2

LEMMA DeliveryTypes ==
    ASSUME TypeOK, Deliveries
    PROVE  TypeOK'
<1> USE DEF memory, world, history, table
<1>1. ASSUME NEW touchedEvents, events' = [i \in DOMAIN events |-> touchedEvents[i]],
             \A i \in DOMAIN events : touchedEvents[i] \in Event
      PROVE  events' \in Seq(Event)
  <2>1. DOMAIN events = 1..Len(events) /\ Len(events) \in Nat
    BY DEF TypeOK
  <2>2. events' \in [1..Len(events) -> Event]
    BY <1>1, <2>1
  <2> QED
    BY <2>1, <2>2, SeqOf
<1>2. \A i \in DOMAIN events : /\ [events[i] EXCEPT !.handed = @ + 1] \in Event
                               /\ [events[i] EXCEPT !.delivered = TRUE] \in Event
                               /\ events[i] \in Event
  <2>1. \A i \in DOMAIN events : events[i] \in Event
    BY DEF TypeOK
  <2> QED
    BY <2>1, EventUpdates
<1>3. delivery.step # "none" => delivery = [step |-> delivery.step, ids |-> delivery.ids] /\ delivery.ids \subseteq Nat
  BY DEF TypeOK
<1>4. CASE DeliveryLands
  <2>1. events' \in Seq(Event)
    <3> DEFINE e == [i \in DOMAIN events |-> IF i \in delivery.ids
                                              THEN [events[i] EXCEPT !.handed = @ + 1] ELSE events[i]]
    <3>1. events' = e /\ e = [i \in DOMAIN events |-> e[i]]
      BY <1>4 DEF DeliveryLands
    <3>2. \A i \in DOMAIN events : e[i] \in Event
      BY <1>2
    <3> QED
      BY <1>1, <3>1, <3>2
  <2>2. delivery' \in [step : {"none", "sending", "handed"}, ids : SUBSET Nat]
    BY <1>4 DEF DeliveryLands, TypeOK
  <2> QED
    BY <1>4, <2>1, <2>2, TableSteps DEF DeliveryLands, TypeOK, TableOK
<1>5. CASE MarkDelivered
  <2>1. events' \in Seq(Event)
    <3> DEFINE e == [i \in DOMAIN events |-> IF i \in delivery.ids
                                              THEN [events[i] EXCEPT !.delivered = TRUE] ELSE events[i]]
    <3>1. events' = e /\ e = [i \in DOMAIN events |-> e[i]]
      BY <1>5 DEF MarkDelivered
    <3>2. \A i \in DOMAIN events : e[i] \in Event
      BY <1>2
    <3> QED
      BY <1>1, <3>1, <3>2
  <2> QED
    BY <1>5, <2>1, TableSteps DEF MarkDelivered, AfterDelivery, NoDelivery, TypeOK, TableOK
<1>6. CASE DeliveryFails
  BY <1>6, TableSteps DEF DeliveryFails, AfterDelivery, NoDelivery, TypeOK, TableOK
<1> QED
  BY <1>4, <1>5, <1>6 DEF Deliveries

LEMMA AnsweredType == ASSUME NEW s PROVE Answered(s) \subseteq Tasks \X {"waiting", "answered"}
<1>1. \A x \in Answered(s) : \E t \in Tasks : x = <<t, "answered">>
  BY DEF Answered
<1> QED
  BY <1>1

\* The loop over the watchers of a session, in any order.
LEMMA WatcherLoop ==
    ASSUME TypeOK, NEW s \in Sessions, NEW order \in Orders(Watchers(s))
    PROVE  /\ \A end \in {"idle", "error"} :
                [i \in DOMAIN order |-> Finish(s, order[i][2], order[i][3], end)] \in Seq(Items)
           /\ [i \in DOMAIN order |-> Wedge(s, order[i][2], order[i][3])] \in Seq(Items)
<1>1. IsFiniteSet(Watchers(s))
  BY FS_Subset, Watchers(s) \subseteq watched DEF TypeOK, Watchers
<1>2. DOMAIN order = 1..Cardinality(Watchers(s)) /\ Cardinality(Watchers(s)) \in Nat
  BY <1>1, OrderType
<1>3. \A i \in DOMAIN order : order[i][2] \in Tasks /\ order[i][3] \in Nat
  <2>1. \A i \in DOMAIN order : order[i] \in Sessions \X Tasks \X Nat
    BY DEF Orders, Watchers, TypeOK
  <2> QED
    BY <2>1
<1>4. ASSUME NEW end \in {"idle", "error"}
      PROVE  [i \in DOMAIN order |-> Finish(s, order[i][2], order[i][3], end)] \in Seq(Items)
  <2>1. \A i \in DOMAIN order : Finish(s, order[i][2], order[i][3], end) \in Items
    BY <1>3, ItemTypes DEF AnySession
  <2>2. [i \in DOMAIN order |-> Finish(s, order[i][2], order[i][3], end)]
            \in [1..Cardinality(Watchers(s)) -> Items]
    BY <1>2, <2>1
  <2> QED
    BY <1>2, <2>2, SeqOf
<1>5. [i \in DOMAIN order |-> Wedge(s, order[i][2], order[i][3])] \in Seq(Items)
  <2>1. \A i \in DOMAIN order : Wedge(s, order[i][2], order[i][3]) \in Items
    BY <1>3, ItemTypes DEF AnySession
  <2>2. [i \in DOMAIN order |-> Wedge(s, order[i][2], order[i][3])] \in [1..Cardinality(Watchers(s)) -> Items]
    BY <1>2, <2>1
  <2> QED
    BY <1>2, <2>2, SeqOf
<1> QED
  BY <1>4, <1>5

LEMMA SessionTypes ==
    ASSUME TypeOK, SessionSteps \/ ConductorTurns
    PROVE  TypeOK'
<1> USE DEF memory, world, history, table
<1>1. ASSUME NEW s \in Sessions, NEW end \in {"idle", "error"}, SessionSettles(s, end) PROVE TypeOK'
  <2>1. todo' \in Seq(Items)
    BY <1>1, WatcherLoop DEF SessionSettles
  <2>2. watched' \subseteq watched
    BY <1>1 DEF SessionSettles
  <2>3. watched' \subseteq Sessions \X Tasks \X Nat /\ IsFiniteSet(watched')
    BY <2>2, FS_Subset DEF TypeOK
  <2>4. inbox' \subseteq Tasks \X {"waiting", "answered"}
    BY <1>1, AnsweredType DEF SessionSettles, TypeOK
  <2>5. session' \in [Sessions -> SessionStatuses]
    BY <1>1 DEF SessionSettles, TypeOK, SessionStatuses
  <2> QED
    BY <1>1, <2>1, <2>3, <2>4, <2>5, TableSteps DEF SessionSettles, TypeOK, TableOK
<1>2. ASSUME NEW s \in Sessions, SessionWaits(s) PROVE TypeOK'
  <2>1. todo' \in Seq(Items)
    BY <1>2, WatcherLoop DEF SessionWaits
  <2>2. session' \in [Sessions -> SessionStatuses]
    BY <1>2 DEF SessionWaits, TypeOK, SessionStatuses
  <2>3. waits' \in 0..MaxWaits
    BY <1>2, BoundsAssumption DEF SessionWaits, TypeOK
  <2> QED
    BY <1>2, <2>1, <2>2, <2>3, TableSteps DEF SessionWaits, TypeOK, TableOK
<1>3. ASSUME NEW s \in Sessions, SessionApproved(s) PROVE TypeOK'
  <2>1. inbox' \subseteq Tasks \X {"waiting", "answered"}
    BY <1>3, AnsweredType DEF SessionApproved, TypeOK
  <2>2. session' \in [Sessions -> SessionStatuses]
    BY <1>3 DEF SessionApproved, TypeOK, SessionStatuses
  <2> QED
    BY <1>3, <2>1, <2>2, TableSteps DEF SessionApproved, TypeOK, TableOK
<1>4. ASSUME NEW s \in Sessions, SessionPrompted(s) \/ SessionVanishes(s) PROVE TypeOK'
  BY <1>4, TableSteps DEF SessionPrompted, SessionVanishes, TypeOK, TableOK, SessionStatuses
<1>5. CASE ConductorTurns
  BY <1>5, TableSteps DEF ConductorTurns, TypeOK, TableOK
<1> QED
  BY <1>1, <1>2, <1>3, <1>4, <1>5 DEF SessionSteps

LEMMA TimeTypes ==
    ASSUME TypeOK, Time \/ Crash
    PROVE  TypeOK'
<1> USE DEF memory, world, history, table
<1>1. ASSUME NEW t \in Tasks, LeaseExpires(t) \/ HoldLapses(t) \/ CoolsDown(t) PROVE TypeOK'
  BY <1>1 DEF LeaseExpires, HoldLapses, CoolsDown, TypeOK
<1>2. CASE Crash
  <2>1. session' \in [Sessions -> SessionStatuses]
    BY <1>2 DEF Crash, TypeOK, SessionStatuses
  <2>2. boot' \in 1..MaxBoots
    BY <1>2, BoundsAssumption DEF Crash, TypeOK
  <2>3. IsFiniteSet(watched') /\ watched' = {}
    BY <1>2, FS_EmptySet DEF Crash
  <2>4. /\ exec' \in Execs /\ todo' \in Seq(Items)
        /\ delivery' \in [step : {"none", "sending", "handed"}, ids : SUBSET Nat]
    BY <1>2 DEF Crash, Execs, NoDelivery
  <2> QED
    BY <1>2, <2>1, <2>2, <2>3, <2>4, TableSteps DEF Crash, TypeOK, TableOK
<1> QED
  BY <1>1, <1>2 DEF Time

(* Every step keeps every variable in its type.                                *)
LEMMA TypeStep == TypeOK /\ [Next]_vars => TypeOK'
<1> SUFFICES ASSUME TypeOK, [Next]_vars PROVE TypeOK'
  OBVIOUS
<1>1. CASE Next
  BY <1>1, TurnTypes, HandlerTypes, ExecutionTypes, DeliveryTypes, SessionTypes, TimeTypes DEF Next
<1>2. CASE UNCHANGED vars
  BY <1>2 DEF vars, TypeOK
<1> QED
  BY <1>1, <1>2

(* Type correctness: the dispatcher never reads a row, a watch or an event     *)
(* that is not one.                                                            *)
THEOREM TypeCorrect == Spec => []TypeOK
<1>1. Init => TypeOK
  BY InitType
<1>2. TypeOK /\ [Next]_vars => TypeOK'
  BY TypeStep
<1> QED
  BY <1>1, <1>2, PTL DEF Spec

-----------------------------------------------------------------------------
(* What a turn may still do.  Only a claim and a release put the two items     *)
(* that trust the row without asking its generation at the head of the turn,   *)
(* and nothing runs before them: the row is still as they expect it.           *)
Trusting == {"admit", "resume"}
CalmItems == {i \in Items : i.op \notin Trusting}
Calm(q) == q \in Seq(CalmItems)

TurnInv ==
    /\ todo # <<>> => Calm(Tail(todo))
    /\ Doing("admit") => status[Head1.task] = "claimed"
    /\ Doing("resume") => status[Head1.task] = "running" /\ Kind[Head1.task] = "attempt"
    /\ \A t \in Tasks : status[t] = "held" \/ <<t, "waiting">> \in inbox => Kind[t] = "attempt"
    /\ \A t, u \in Group : status[t] = "absent" => status[u] = "absent"

Live == {"claimed", "running"}

(* All the table ever sees of a step.                                          *)
StoreMove ==
    \/ UNCHANGED <<status, attempts, generation>>
    \/ \E t \in Tasks : status[t] = "queued" /\ dispatchClaimNext(t)
    \/ \E t \in Tasks, s \in AnySession : status[t] \in Live /\ dispatchMarkRunning(t, s)
    \/ \E t \in Tasks : status[t] \in Live /\ dispatchComplete(t)
    \/ \E t \in Tasks, r \in BOOLEAN : status[t] \in Live /\ dispatchFail(t, r)
    \/ \E t \in Tasks : status[t] \in Live /\ Kind[t] = "attempt" /\ dispatchHold(t)
    \/ \E t \in Tasks : status[t] = "held" /\ Kind[t] = "attempt" /\ dispatchUnhold(t)
    \/ \E t \in Tasks : status[t] = "held" /\ Kind[t] = "attempt" /\ EndAttempt(t, 1)
    \/ \E t \in Tasks : /\ status[t] \in {"queued", "claimed", "running", "held"}
                        /\ Kind[t] = "attempt" /\ EndAttempt(t, 0)
    \/ \E t \in Tasks : /\ Doing("admit") /\ t = Head1.task
                        /\ status[t] \in Live /\ dispatchRelease(t)
    \/ \E S \in SUBSET Tasks : /\ \A t \in S : status[t] = "absent"
                               /\ S = Group \/ S \cap Group = {}
                               /\ Submit(S)
    \/ dispatchReclaimStale

LEMMA TurnMoves ==
    ASSUME TypeOK, TurnInv, RunTurn
    PROVE  StoreMove
<1> USE DEF memory, world, history, table, task
<1>1. CASE RunReclaimed \/ RunNothingReady \/ RunExecute \/ RunEmit \/ RunSettle \/ RunWedge \/ RunDestroy \/ RunDeliver
  BY <1>1 DEF RunReclaimed, RunNothingReady, RunExecute, RunEmit, RunSettle, RunWedge, RunDestroy, RunDeliver,
              StoreMove
<1>2. CASE RunRenew
  BY <1>2 DEF RunRenew, dispatchTouch, StoreMove
<1>3. CASE RunClaim
  BY <1>3 DEF RunClaim, Ready, StoreMove
<1>4. CASE RunDefer
  BY <1>4, TaskItem DEF RunDefer, TurnInv, Live, StoreMove
<1>5. CASE RunGroupedSend
  <2>1. Head1.task \in Tasks /\ Target[Head1.task] \in AnySession /\ status[Head1.task] \in Live
    BY <1>5, TaskItem, TargetAssumption DEF RunGroupedSend, AnySession, TurnInv, Live
  <2> QED
    BY <1>5, <2>1 DEF RunGroupedSend, StoreMove
<1>6. CASE RunGroupedRewatch
  <2>1. Head1.task \in Tasks /\ Target[Head1.task] \in AnySession /\ status[Head1.task] \in Live
    BY <1>6, TaskItem, TargetAssumption DEF RunGroupedRewatch, AnySession, TurnInv, Live
  <2>2. UNCHANGED task \/ dispatchMarkRunning(Head1.task, Target[Head1.task])
    BY <1>6 DEF RunGroupedRewatch
  <2> QED
    BY <2>1, <2>2 DEF StoreMove
<1>7. CASE RunThrow
  <2>1. Head1.task \in Tasks
    BY <1>7, TaskItem DEF RunThrow
  <2>2. \/ UNCHANGED task
        \/ \E r \in BOOLEAN : status[Head1.task] \in Live /\ dispatchFail(Head1.task, r)
    BY <1>7 DEF RunThrow, Fence, Live
  <2> QED
    BY <2>1, <2>2 DEF StoreMove
<1>8. CASE RunFinish
  <2>1. Head1.task \in Tasks
    BY <1>8, TaskItem DEF RunFinish
  <2>2. \/ UNCHANGED task
        \/ status[Head1.task] \in Live /\ dispatchComplete(Head1.task)
        \/ status[Head1.task] \in Live /\ dispatchFail(Head1.task, TRUE)
    BY <1>8 DEF RunFinish, Fence, Live
  <2> QED
    BY <2>1, <2>2 DEF StoreMove
<1>9. CASE RunResume
  <2>1. Head1.task \in Tasks /\ status[Head1.task] \in Live
    BY <1>9, TaskItem DEF RunResume, TurnInv, Live
  <2>2. UNCHANGED task \/ dispatchFail(Head1.task, FALSE)
    BY <1>9 DEF RunResume
  <2> QED
    BY <2>1, <2>2 DEF StoreMove
<1> QED
  BY <1>1, <1>2, <1>3, <1>4, <1>5, <1>6, <1>7, <1>8, <1>9 DEF RunTurn

LEMMA StepMoves ==
    ASSUME TypeOK, TurnInv, [Next]_vars
    PROVE  StoreMove
<1> USE DEF memory, world, history, table, task
<1>1. CASE RunTurn
  BY <1>1, TurnMoves
<1>2. CASE enqueue
  <2>1. PICK t \in Tasks \ Group : status[t] = "absent" /\ Submit({t})
    BY <1>2 DEF enqueue
  <2> QED
    BY <2>1 DEF StoreMove
<1>3. CASE enqueueGroup
  <2>1. \A t \in Group : status[t] = "absent"
    BY <1>3, GroupAssumption DEF enqueueGroup, TurnInv
  <2> QED
    BY <1>3, <2>1, GroupAssumption DEF enqueueGroup, StoreMove
<1>4. CASE StartTick
  BY <1>4 DEF StartTick, StoreMove
<1>5. ASSUME NEW t \in Tasks, hold(t) \/ unhold(t) \/ cancel(t) PROVE StoreMove
  <2>1. CASE hold(t)
    BY <2>1 DEF hold, TurnInv, Live, StoreMove
  <2>2. CASE unhold(t)
    BY <2>2 DEF unhold, TurnInv, StoreMove
  <2>3. CASE cancel(t)
    BY <2>3 DEF cancel, StoreMove
  <2> QED
    BY <1>5, <2>1, <2>2, <2>3
<1>6. CASE Execution
  <2>1. CASE sendToSession \/ continueWorker \/ spawnWorker \/ HostThrows
    BY <2>1 DEF sendToSession, continueWorker, spawnWorker, HostThrows, StoreMove
  <2>2. CASE Executed
    <3>1. exec.task \in Tasks /\ exec.sess \in AnySession
      BY <2>2, ExecTypes DEF Executed
    <3>2. \/ UNCHANGED task
          \/ status[exec.task] \in Live /\ dispatchComplete(exec.task)
          \/ status[exec.task] \in Live /\ dispatchMarkRunning(exec.task, exec.sess)
      BY <2>2 DEF Executed, Fence, Live
    <3> QED
      BY <3>1, <3>2 DEF StoreMove
  <2> QED
    BY <1>6, <2>1, <2>2 DEF Execution
<1>7. CASE Deliveries \/ ConductorTurns \/ Crash
  BY <1>7 DEF Deliveries, DeliveryLands, MarkDelivered, DeliveryFails, ConductorTurns, Crash, StoreMove
<1>8. CASE SessionSteps
  BY <1>8 DEF SessionSteps, SessionSettles, SessionWaits, SessionApproved, SessionPrompted, SessionVanishes,
              StoreMove
<1>9. CASE Time
  BY <1>9 DEF Time, LeaseExpires, HoldLapses, CoolsDown, StoreMove
<1>10. CASE UNCHANGED vars
  BY <1>10 DEF vars, StoreMove
<1> QED
  BY <1>1, <1>2, <1>3, <1>4, <1>5, <1>6, <1>7, <1>8, <1>9, <1>10 DEF Next, Handlers, Loop

\* The rows reclaimed are live or held.
LEMMA StaleRows == \A t \in Tasks : Stale(t) => status[t] \in {"claimed", "running", "held"}
  BY DEF Stale

(* An ended row keeps its status, its tries and its generation.                *)
LEMMA TerminalKept ==
    ASSUME TypeOK, StoreMove, NEW t \in Tasks, Terminal(t)
    PROVE  status'[t] = status[t] /\ attempts'[t] = attempts[t] /\ generation'[t] = generation[t]
<1> USE DEF TypeOK, Terminal, TERMINAL_TASK_STATUS, Live
<1>1. CASE UNCHANGED <<status, attempts, generation>>
  BY <1>1
<1>2. CASE \E u \in Tasks : status[u] = "queued" /\ dispatchClaimNext(u)
  BY <1>2 DEF dispatchClaimNext
<1>3. CASE \E u \in Tasks, s \in AnySession : status[u] \in Live /\ dispatchMarkRunning(u, s)
  BY <1>3 DEF dispatchMarkRunning
<1>4. CASE \E u \in Tasks : status[u] \in Live /\ dispatchComplete(u)
  BY <1>4 DEF dispatchComplete
<1>5. CASE \E u \in Tasks, r \in BOOLEAN : status[u] \in Live /\ dispatchFail(u, r)
  BY <1>5 DEF dispatchFail
<1>6. CASE \E u \in Tasks : status[u] \in Live /\ Kind[u] = "attempt" /\ dispatchHold(u)
  BY <1>6 DEF dispatchHold
<1>7. CASE \E u \in Tasks : status[u] = "held" /\ Kind[u] = "attempt" /\ dispatchUnhold(u)
  BY <1>7 DEF dispatchUnhold
<1>8. CASE \E u \in Tasks : status[u] = "held" /\ Kind[u] = "attempt" /\ EndAttempt(u, 1)
  BY <1>8 DEF EndAttempt
<1>9. CASE \E u \in Tasks : /\ status[u] \in {"queued", "claimed", "running", "held"}
                            /\ Kind[u] = "attempt" /\ EndAttempt(u, 0)
  BY <1>9 DEF EndAttempt
<1>10. CASE \E u \in Tasks : status[u] \in Live /\ dispatchRelease(u)
  BY <1>10 DEF dispatchRelease
<1>11. CASE \E S \in SUBSET Tasks : /\ \A u \in S : status[u] = "absent"
                                    /\ S = Group \/ S \cap Group = {}
                                    /\ Submit(S)
  BY <1>11 DEF Submit
<1>12. CASE dispatchReclaimStale
  BY <1>12, StaleRows DEF dispatchReclaimStale
<1> QED
  BY <1>1, <1>2, <1>3, <1>4, <1>5, <1>6, <1>7, <1>8, <1>9, <1>10, <1>11, <1>12 DEF StoreMove

-----------------------------------------------------------------------------
(* TurnInv is inductive.                                                       *)

LEMMA CalmGoes ==
    ASSUME TypeOK, TurnInv, todo # <<>>
    PROVE  \A items \in Seq(CalmItems) : Goes(items) => Calm(todo')
<1>1. Tail(todo) \in Seq(CalmItems)
  BY DEF TurnInv, Calm
<1> QED
  BY <1>1 DEF Goes, Calm

LEMMA CalmMakers ==
    ASSUME NEW t \in Tasks, NEW g \in Nat, NEW s \in AnySession
    PROVE  /\ \A end \in {"idle", "error"} : Finish(s, t, g, end) \in CalmItems
           /\ \A how \in {"retry", "final"} : Throw(s, t, g, how) \in CalmItems
           /\ \A type \in TaskEvents : Emit(t, type) \in CalmItems
           /\ Notice(t) \in CalmItems /\ Settle(t) \in CalmItems /\ Reclaimed(t) \in CalmItems
           /\ Wedge(s, t, g) \in CalmItems
           /\ s # NoSession => Destroy(s) \in CalmItems
  BY ItemTypes DEF CalmItems, Trusting, Item, Finish, Throw, Emit, Notice, Settle, Reclaimed, Wedge, Destroy

LEMMA CalmStep == \A op \in {"renew", "claim", "deliver", "pump"} : Step(op) \in CalmItems
  BY StepType DEF CalmItems, Trusting, Step, Item

LEMMA CalmAfter ==
    ASSUME NEW t \in Tasks, NEW next, NEW s \in AnySession
    PROVE  After(t, next, s) \in Seq(CalmItems)
<1>1. Teardown(t, s) \in Seq(CalmItems)
  BY CalmMakers, 0 \in Nat, s # NoSession => <<Destroy(s)>> \in Seq(CalmItems) DEF Teardown
<1>2. EventOf(next) \in TaskEvents
  BY DEF EventOf, TaskEvents
<1>3. Emit(t, EventOf(next)) \in CalmItems /\ Settle(t) \in CalmItems
  BY <1>2, CalmMakers, 0 \in Nat
<1> QED
  BY <1>1, <1>3 DEF After

LEMMA CalmFew ==
    /\ <<>> \in Seq(CalmItems)
    /\ \A i \in CalmItems : <<i>> \in Seq(CalmItems)
    /\ \A i, j \in CalmItems : <<i, j>> \in Seq(CalmItems)
    /\ \A p \in Seq(CalmItems), i \in CalmItems : p \o <<i>> \in Seq(CalmItems)
  OBVIOUS

\* A statement of a turn leaves a calm one behind, but for a claim.
LEMMA TurnCalm ==
    ASSUME TypeOK, TurnInv, RunTurn
    PROVE  Calm(todo') \/ RunClaim
<1>1. CASE RunReclaimed
  <2>1. After(Head1.task, status[Head1.task], worker[Head1.task]) \in Seq(CalmItems)
    BY <1>1, TaskItem, WorkerType, CalmAfter DEF RunReclaimed
  <2> QED
    BY <1>1, <2>1, CalmGoes DEF RunReclaimed, Doing
<1>2. CASE RunRenew \/ RunExecute \/ RunSettle \/ RunDestroy \/ RunDeliver \/ RunGroupedSend
  <2>1. Goes(<<>>) /\ todo # <<>>
    BY <1>2 DEF RunRenew, RunExecute, RunSettle, RunDestroy, RunDeliver, RunGroupedSend, Doing
  <2> QED
    BY <2>1, CalmGoes, CalmFew
<1>3. CASE RunNothingReady \/ RunDefer
  <2>1. todo # <<>> /\ \E op \in {"pump", "claim"} : Goes(<<Step(op)>>)
    BY <1>3 DEF RunNothingReady, RunDefer, Doing
  <2> QED
    BY <2>1, CalmGoes, CalmFew, CalmStep
<1>4. CASE RunGroupedRewatch
  <2> DEFINE f(end) == Finish(Target[Head1.task], Head1.task, generation[Head1.task], end)
             h == Throw(Target[Head1.task], Head1.task, generation[Head1.task], "final")
  <2>1. /\ todo # <<>>
        /\ \/ Goes(<<h>>) \/ Goes(<<Step("claim")>>)
           \/ \E end \in {"idle", "error"} : Goes(<<f(end), Step("claim")>>)
    BY <1>4 DEF RunGroupedRewatch, Doing
  <2>2. Head1.task \in Tasks /\ Target[Head1.task] \in AnySession /\ generation[Head1.task] \in Nat
    BY <1>4, TaskItem, TargetAssumption, WorkerType DEF RunGroupedRewatch, AnySession
  <2>3. h \in CalmItems /\ \A end \in {"idle", "error"} : f(end) \in CalmItems
    BY <2>2, CalmMakers
  <2> HIDE DEF f, h
  <2> QED
    BY <2>1, <2>3, CalmGoes, CalmFew, CalmStep
<1>5. CASE RunThrow
  <2>1. Head1.task \in Tasks /\ Head1.sess \in AnySession /\ todo # <<>>
    BY <1>5, TaskItem DEF RunThrow, Doing
  <2>2. \/ Goes(<<Step("claim")>>)
        \/ \E next \in Statuses : Goes(After(Head1.task, next, Head1.sess) \o <<Step("claim")>>)
    BY <1>5, FailureStatus DEF RunThrow, Failed, Statuses
  <2> QED
    BY <2>1, <2>2, CalmGoes, CalmFew, CalmStep, CalmAfter
<1>6. CASE RunFinish
  <2>1. Head1.task \in Tasks /\ Head1.sess \in AnySession /\ todo # <<>>
    BY <1>6, TaskItem DEF RunFinish, Doing
  <2>2. \/ Goes(<<>>)
        \/ \E next \in Statuses : Goes(After(Head1.task, next, Head1.sess))
    BY <1>6, FailureStatus DEF RunFinish, Statuses
  <2> QED
    BY <2>1, <2>2, CalmGoes, CalmFew, CalmAfter
<1>7. CASE RunEmit
  BY <1>7, CalmGoes, CalmFew, CalmStep DEF RunEmit, Doing
<1>8. CASE RunWedge
  <2>1. Head1.task \in Tasks /\ todo # <<>>
    BY <1>8, TaskItem DEF RunWedge, Doing
  <2>2. Goes(<<>>) \/ Goes(<<Notice(Head1.task)>>)
    BY <1>8 DEF RunWedge
  <2>3. Notice(Head1.task) \in CalmItems
    BY <2>1, CalmMakers, 0 \in Nat, NoSession \in AnySession DEF AnySession
  <2> QED
    BY <2>1, <2>2, <2>3, CalmGoes, CalmFew
<1>9. CASE RunResume
  <2> DEFINE t == Head1.task
             f(end) == Finish(worker[t], t, Head1.generation, end)
  <2>1. t \in Tasks /\ worker[t] \in AnySession /\ Head1.generation \in Nat /\ todo # <<>>
    BY <1>9, TaskItem, WorkerType DEF RunResume, Doing
  <2>2. Goes(<<>>) \/ Goes(<<Settle(t)>>) \/ \E end \in {"idle", "error"} : Goes(<<f(end)>>)
    BY <1>9 DEF RunResume
  <2>3. Settle(t) \in CalmItems /\ \A end \in {"idle", "error"} : f(end) \in CalmItems
    BY <2>1, CalmMakers
  <2> HIDE DEF f, t
  <2> QED
    BY <2>1, <2>2, <2>3, CalmGoes, CalmFew
<1> QED
  BY <1>1, <1>2, <1>3, <1>4, <1>5, <1>6, <1>7, <1>8, <1>9 DEF RunTurn

LEMMA CalmIf ==
    ASSUME NEW q \in Seq(Items), \A i \in DOMAIN q : q[i].op \notin Trusting
    PROVE  Calm(q)
<1>1. DOMAIN q = 1..Len(q) /\ Len(q) \in Nat /\ \A i \in 1..Len(q) : q[i] \in CalmItems
  BY DEF CalmItems
<1>2. q \in [1..Len(q) -> CalmItems]
  BY <1>1
<1> QED
  BY <1>1, <1>2, SeqOf DEF Calm

\* Every other step starts a calm turn, but for a release, or goes on with none.
LEMMA FreshCalm ==
    ASSUME TypeOK, TurnInv, [Next]_vars, ~RunTurn
    PROVE  \/ todo' = todo /\ (todo = <<>> \/ UNCHANGED <<status, inbox>>)
           \/ Calm(todo')
           \/ \E t \in Tasks : /\ status[t] = "held" /\ dispatchUnhold(t)
                               /\ todo' = <<Resume(t, generation[t])>>
<1> USE DEF memory, world, history, table, task
<1>1. CASE enqueue \/ enqueueGroup
  BY <1>1 DEF enqueue, enqueueGroup, Quiet
<1>2. CASE StartTick
  <2> DEFINE stale == {t \in Tasks : Stale(t)}
             rows(order) == [i \in DOMAIN order |-> Reclaimed(order[i])]
  <2>1. PICK order \in Orders(stale) : todo' = rows(order) \o <<Step("renew"), Step("claim")>>
    BY <1>2 DEF StartTick
  <2>2. order \in [1..Cardinality(stale) -> stale] /\ Cardinality(stale) \in Nat
    BY FS_Subset, GroupAssumption, OrderType DEF Orders
  <2>3. \A i \in 1..Cardinality(stale) : Reclaimed(order[i]) \in CalmItems
    BY <2>2, CalmMakers, 0 \in Nat, NoSession \in AnySession DEF AnySession
  <2>4. rows(order) \in [1..Cardinality(stale) -> CalmItems]
    BY <2>2, <2>3
  <2>5. rows(order) \in Seq(CalmItems)
    BY <2>2, <2>4, SeqOf
  <2> HIDE DEF rows
  <2> QED
    BY <2>1, <2>5, CalmFew, CalmStep DEF Calm
<1>3. ASSUME NEW t \in Tasks, hold(t) PROVE todo' = todo /\ todo = <<>>
  BY <1>3 DEF hold, Quiet
<1>4. ASSUME NEW t \in Tasks, unhold(t)
      PROVE  Calm(todo') \/ (/\ status[t] = "held" /\ dispatchUnhold(t)
                             /\ todo' = <<Resume(t, generation[t])>>)
  <2>1. <<Settle(t)>> \in Seq(CalmItems)
    BY CalmMakers, CalmFew, 0 \in Nat, NoSession \in AnySession DEF AnySession
  <2> QED
    BY <1>4, <2>1 DEF unhold, Calm
<1>5. ASSUME NEW t \in Tasks, cancel(t) PROVE Calm(todo')
  <2>1. <<Settle(t)>> \in Seq(CalmItems)
    BY CalmMakers, CalmFew, 0 \in Nat, NoSession \in AnySession DEF AnySession
  <2> QED
    BY <1>5, <2>1 DEF cancel, Calm
<1>6. CASE sendToSession \/ continueWorker \/ spawnWorker
  BY <1>6 DEF sendToSession, continueWorker, spawnWorker, Quiet
<1>7. CASE HostThrows
  <2>1. exec.step # "none"
    BY <1>7 DEF HostThrows, Refusals
  <2>2. exec.task \in Tasks /\ exec.generation \in Nat /\ exec.sess \in AnySession
    BY <2>1, ExecTypes
  <2>3. \A how \in {"retry", "final"} :
            <<Throw(exec.sess, exec.task, exec.generation, how)>> \in Seq(CalmItems)
    BY <2>2, CalmMakers, CalmFew
  <2> QED
    BY <1>7, <2>3 DEF HostThrows, Refusals, Calm
<1>8. CASE Executed
  <2> DEFINE t == exec.task
             d == Destroy(exec.sess)
  <2>1. exec.task \in Tasks /\ exec.generation \in Nat /\ exec.sess \in AnySession
    BY <1>8, ExecTypes DEF Executed
  <2>2. Kind[t] = "spawn" /\ exec.step = "landed" => d \in CalmItems
    BY <2>1, ExecTypes, CalmMakers, 0 \in Nat, NamesAssumption
  <2>3. \/ todo' = <<Step("claim")>>
        \/ todo' = <<>> \o <<Step("claim")>>
        \/ Kind[t] = "spawn" /\ exec.step = "landed" /\ todo' = <<d>> \o <<Step("claim")>>
    BY <1>8 DEF Executed
  <2> HIDE DEF d, t
  <2> QED
    BY <2>2, <2>3, CalmFew, CalmStep DEF Calm
<1>9. CASE Deliveries
  BY <1>9 DEF Deliveries, DeliveryLands, MarkDelivered, DeliveryFails, Quiet
<1>10. ASSUME NEW s \in Sessions, NEW end \in {"idle", "error"}, SessionSettles(s, end) PROVE Calm(todo')
  <2>1. PICK order \in Orders(Watchers(s)) :
            todo' = [i \in DOMAIN order |-> Finish(s, order[i][2], order[i][3], end)]
    BY <1>10 DEF SessionSettles
  <2>2. todo' \in Seq(Items)
    BY <2>1, WatcherLoop
  <2>3. \A i \in DOMAIN todo' : todo'[i].op \notin Trusting
    BY <2>1 DEF Finish, Item, Trusting
  <2> QED
    BY <2>2, <2>3, CalmIf
<1>11. ASSUME NEW s \in Sessions, SessionWaits(s) PROVE Calm(todo')
  <2>1. PICK order \in Orders(Watchers(s)) :
            todo' = [i \in DOMAIN order |-> Wedge(s, order[i][2], order[i][3])]
    BY <1>11 DEF SessionWaits
  <2>2. todo' \in Seq(Items)
    BY <2>1, WatcherLoop
  <2>3. \A i \in DOMAIN todo' : todo'[i].op \notin Trusting
    BY <2>1 DEF Wedge, Item, Trusting
  <2> QED
    BY <2>2, <2>3, CalmIf
<1>12. ASSUME NEW s \in Sessions, SessionApproved(s) \/ SessionPrompted(s) \/ SessionVanishes(s)
       PROVE  todo' = todo /\ todo = <<>>
  BY <1>12 DEF SessionApproved, SessionPrompted, SessionVanishes, Quiet
<1>13. CASE ConductorTurns
  BY <1>13 DEF ConductorTurns
<1>14. CASE Time
  BY <1>14 DEF Time, LeaseExpires, HoldLapses, CoolsDown
<1>15. CASE Crash
  BY <1>15, CalmFew DEF Crash, Calm
<1>16. CASE UNCHANGED vars
  BY <1>16 DEF vars
<1> QED
  BY <1>1, <1>2, <1>3, <1>4, <1>5, <1>6, <1>7, <1>8, <1>9, <1>10, <1>11, <1>12, <1>13, <1>14, <1>15, <1>16
     DEF Next, Handlers, Loop, Execution, SessionSteps

\* Only an attempt is ever held, or reported to wait.
LEMMA WaitingStep ==
    ASSUME TypeOK, TurnInv, [Next]_vars, NEW t \in Tasks, <<t, "waiting">> \in inbox'
    PROVE  Kind[t] = "attempt"
<1> USE DEF memory, world, history, table, task
<1>1. CASE inbox' \subseteq inbox
  BY <1>1 DEF TurnInv
<1>2. CASE RunWedge
  <2>1. \/ inbox' = inbox
        \/ Kind[Head1.task] = "attempt" /\ inbox' = inbox \cup {<<Head1.task, "waiting">>}
    BY <1>2 DEF RunWedge
  <2> QED
    BY <2>1 DEF TurnInv
<1>3. CASE RunResume
  <2>1. inbox' \subseteq inbox \cup {<<Head1.task, "waiting">>} /\ Kind[Head1.task] = "attempt"
    BY <1>3 DEF RunResume, TurnInv
  <2> QED
    BY <2>1 DEF TurnInv
<1>4. ASSUME NEW s \in Sessions,
             SessionApproved(s) \/ \E end \in {"idle", "error"} : SessionSettles(s, end)
      PROVE  Kind[t] = "attempt"
  <2>1. inbox' = inbox \cup Answered(s)
    BY <1>4 DEF SessionApproved, SessionSettles
  <2>2. <<t, "waiting">> \in inbox
    BY <2>1 DEF Answered
  <2> QED
    BY <2>2 DEF TurnInv
<1>5. CASE RunTurn
  <2>1. RunWedge \/ RunResume \/ UNCHANGED inbox
    BY <1>5 DEF RunTurn, RunReclaimed, RunRenew, RunClaim, RunNothingReady, RunDefer, RunExecute,
                RunGroupedSend, RunGroupedRewatch, RunThrow, RunFinish, RunEmit, RunSettle, RunDestroy, RunDeliver
  <2> QED
    BY <2>1, <1>1, <1>2, <1>3
<1>6. CASE Handlers \/ Execution \/ Deliveries \/ ConductorTurns \/ Time \/ Crash \/ UNCHANGED vars
  <2>1. inbox' \subseteq inbox
    BY <1>6 DEF Handlers, enqueue, enqueueGroup, StartTick, Execution, sendToSession, continueWorker,
                spawnWorker, HostThrows, Executed, Deliveries, DeliveryLands, MarkDelivered, DeliveryFails,
                ConductorTurns, Time, LeaseExpires, HoldLapses, CoolsDown, Crash, vars
  <2> QED
    BY <2>1, <1>1
<1>7. CASE Loop
  <2>1. inbox' \subseteq inbox
    BY <1>7 DEF Loop, hold, unhold, cancel
  <2> QED
    BY <2>1, <1>1
<1>8. CASE SessionSteps
  <2>1. \/ inbox' = inbox
        \/ \E s \in Sessions : SessionApproved(s) \/ \E end \in {"idle", "error"} : SessionSettles(s, end)
    BY <1>8 DEF SessionSteps, SessionWaits, SessionPrompted, SessionVanishes
  <2> QED
    BY <2>1, <1>1, <1>4
<1> QED
  BY <1>5, <1>6, <1>7, <1>8 DEF Next

LEMMA HeldStep ==
    ASSUME TypeOK, TurnInv, StoreMove, NEW t \in Tasks, status'[t] = "held"
    PROVE  Kind[t] = "attempt"
<1> USE DEF TypeOK, TurnInv, Live
<1>1. CASE UNCHANGED <<status, attempts, generation>>
  BY <1>1
<1>2. CASE \E u \in Tasks : status[u] = "queued" /\ dispatchClaimNext(u)
  BY <1>2 DEF dispatchClaimNext
<1>3. CASE \E u \in Tasks, s \in AnySession : status[u] \in Live /\ dispatchMarkRunning(u, s)
  BY <1>3 DEF dispatchMarkRunning
<1>4. CASE \E u \in Tasks : status[u] \in Live /\ dispatchComplete(u)
  BY <1>4 DEF dispatchComplete
<1>5. CASE \E u \in Tasks, r \in BOOLEAN : status[u] \in Live /\ dispatchFail(u, r)
  BY <1>5, FailureStatus DEF dispatchFail, Failed
<1>6. CASE \E u \in Tasks : status[u] \in Live /\ Kind[u] = "attempt" /\ dispatchHold(u)
  BY <1>6 DEF dispatchHold
<1>7. CASE \E u \in Tasks : status[u] = "held" /\ Kind[u] = "attempt" /\ dispatchUnhold(u)
  BY <1>7 DEF dispatchUnhold
<1>8. CASE \E u \in Tasks, cost \in {0, 1} : EndAttempt(u, cost)
  BY <1>8 DEF EndAttempt
<1>9. CASE \E u \in Tasks : status[u] \in Live /\ dispatchRelease(u)
  BY <1>9 DEF dispatchRelease
<1>10. CASE \E S \in SUBSET Tasks : Submit(S)
  BY <1>10 DEF Submit
<1>11. CASE dispatchReclaimStale
  BY <1>11, FailureStatus DEF dispatchReclaimStale
<1> QED
  BY <1>1, <1>2, <1>3, <1>4, <1>5, <1>6, <1>7, <1>8, <1>9, <1>10, <1>11 DEF StoreMove

LEMMA AbsentStep ==
    ASSUME TypeOK, TurnInv, StoreMove
    PROVE  \A t, u \in Group : status'[t] = "absent" => status'[u] = "absent"
<1>1. CASE \E S \in SUBSET Tasks : /\ \A t \in S : status[t] = "absent"
                                   /\ S = Group \/ S \cap Group = {}
                                   /\ Submit(S)
  BY <1>1, GroupAssumption DEF Submit, TypeOK, TurnInv
<1>2. CASE ~\E S \in SUBSET Tasks : /\ \A t \in S : status[t] = "absent"
                                    /\ S = Group \/ S \cap Group = {}
                                    /\ Submit(S)
  <2>1. \A t \in Tasks : (status[t] = "absent") <=> (status'[t] = "absent")
    <3> USE DEF TypeOK, Live
    <3>1. CASE UNCHANGED <<status, attempts, generation>>
      BY <3>1
    <3>2. CASE \E u \in Tasks : status[u] = "queued" /\ dispatchClaimNext(u)
      BY <3>2 DEF dispatchClaimNext
    <3>3. CASE \E u \in Tasks, s \in AnySession : status[u] \in Live /\ dispatchMarkRunning(u, s)
      BY <3>3 DEF dispatchMarkRunning
    <3>4. CASE \E u \in Tasks : status[u] \in Live /\ dispatchComplete(u)
      BY <3>4 DEF dispatchComplete
    <3>5. CASE \E u \in Tasks, r \in BOOLEAN : status[u] \in Live /\ dispatchFail(u, r)
      BY <3>5, FailureStatus DEF dispatchFail, Failed
    <3>6. CASE \E u \in Tasks : status[u] \in Live /\ Kind[u] = "attempt" /\ dispatchHold(u)
      BY <3>6 DEF dispatchHold
    <3>7. CASE \E u \in Tasks : status[u] = "held" /\ Kind[u] = "attempt" /\ dispatchUnhold(u)
      BY <3>7 DEF dispatchUnhold
    <3>8. CASE \E u \in Tasks, cost \in {0, 1} :
                 status[u] \in {"queued", "claimed", "running", "held"} /\ EndAttempt(u, cost)
      BY <3>8 DEF EndAttempt
    <3>9. CASE \E u \in Tasks : status[u] \in Live /\ dispatchRelease(u)
      BY <3>9 DEF dispatchRelease
    <3>10. CASE dispatchReclaimStale
      BY <3>10, FailureStatus, StaleRows DEF dispatchReclaimStale
    <3> QED
      BY <1>2, <3>1, <3>2, <3>3, <3>4, <3>5, <3>6, <3>7, <3>8, <3>9, <3>10 DEF StoreMove
  <2> QED
    BY <2>1, GroupAssumption DEF TurnInv
<1> QED
  BY <1>1, <1>2

\* What the head of the turn trusts is still so.
LEMMA HeadStep ==
    ASSUME TypeOK, TurnInv, [Next]_vars
    PROVE  /\ todo' # <<>> => Calm(Tail(todo'))
           /\ Doing("admit")' => status'[Head1'.task] = "claimed"
           /\ Doing("resume")' => status'[Head1'.task] = "running" /\ Kind[Head1'.task] = "attempt"
<1>1. CASE Calm(todo')
  <2>1. ASSUME todo' # <<>> PROVE Head(todo') \in CalmItems /\ Tail(todo') \in Seq(CalmItems)
    BY <1>1, <2>1 DEF Calm
  <2> QED
    BY <2>1 DEF CalmItems, Trusting, Doing, Head1, Calm
<1>2. CASE RunClaim
  <2>1. PICK t \in Tasks : dispatchClaimNext(t) /\ Goes(<<Admit(t)>>)
    BY <1>2 DEF RunClaim
  <2>2. Calm(Tail(todo)) /\ Tail(todo) \in Seq(CalmItems)
    BY <1>2 DEF RunClaim, Doing, TurnInv, Calm
  <2>3. Head(todo') = Admit(t) /\ Tail(todo') = Tail(todo)
    BY <2>1, <2>2 DEF Goes
  <2>4. Admit(t).op = "admit" /\ Admit(t).task = t
    BY DEF Admit, Item
  <2>5. status'[t] = "claimed"
    BY <2>1 DEF dispatchClaimNext, TypeOK
  <2> QED
    BY <2>2, <2>3, <2>4, <2>5 DEF Doing, Head1
<1>3. CASE todo' = todo /\ (todo = <<>> \/ UNCHANGED <<status, inbox>>)
  BY <1>3 DEF TurnInv, Doing, Head1
<1>4. ASSUME NEW t \in Tasks, status[t] = "held", dispatchUnhold(t), todo' = <<Resume(t, generation[t])>>
      PROVE  /\ Calm(Tail(todo'))
             /\ ~Doing("admit")'
             /\ status'[Head1'.task] = "running" /\ Kind[Head1'.task] = "attempt"
  <2>1. Head(todo') = Resume(t, generation[t]) /\ Tail(todo') = <<>>
    BY <1>4
  <2>2. Resume(t, generation[t]).op = "resume" /\ Resume(t, generation[t]).task = t
    BY DEF Resume, Item
  <2>3. status'[t] = "running" /\ Kind[t] = "attempt"
    BY <1>4 DEF dispatchUnhold, TypeOK, TurnInv
  <2> QED
    BY <2>1, <2>2, <2>3, CalmFew DEF Doing, Head1, Calm
<1> QED
  BY <1>1, <1>2, <1>3, <1>4, TurnCalm, FreshCalm

LEMMA TurnInvStep == TypeOK /\ TurnInv /\ [Next]_vars => TurnInv'
<1> SUFFICES ASSUME TypeOK, TurnInv, [Next]_vars PROVE TurnInv'
  OBVIOUS
<1>1. StoreMove
  BY StepMoves
<1>2. \A t \in Tasks : status'[t] = "held" \/ <<t, "waiting">> \in inbox' => Kind[t] = "attempt"
  BY <1>1, HeldStep, WaitingStep
<1>3. \A t, u \in Group : status'[t] = "absent" => status'[u] = "absent"
  BY <1>1, AbsentStep
<1> QED
  BY <1>2, <1>3, HeadStep DEF TurnInv

LEMMA TurnInvInit == Init => TurnInv
  BY GroupAssumption DEF Init, TurnInv, Doing

(* No statement of a turn works on a row that changed under it.                *)
THEOREM TurnCorrect == Spec => []TurnInv
<1>1. Init => TypeOK /\ TurnInv
  BY InitType, TurnInvInit
<1>2. TypeOK /\ TurnInv /\ [Next]_vars => TypeOK' /\ TurnInv'
  BY TypeStep, TurnInvStep
<1> QED
  BY <1>1, <1>2, PTL DEF Spec

-----------------------------------------------------------------------------
(* An ended task stays ended.                                                  *)

LEMMA FinalStep ==
    ASSUME TypeOK, TurnInv, [Next]_vars, NEW t \in Tasks, Terminal(t)
    PROVE  status'[t] = status[t] /\ attempts'[t] = attempts[t] /\ generation'[t] = generation[t]
  BY StepMoves, TerminalKept

(* TerminalIsFinal: whatever late report, retry or reclaim comes, the row of   *)
(* an ended task keeps its status, its count of tries and its generation (the  *)
(* fences of dispatchComplete, dispatchFail, dispatchReclaimStale and the      *)
(* rest).                                                                      *)
THEOREM Finality == Spec => TerminalIsFinal
<1>1. TypeOK /\ TurnInv /\ [Next]_vars =>
        [\A t \in Tasks : Terminal(t) => /\ status'[t] = status[t]
                                         /\ attempts'[t] = attempts[t]
                                         /\ generation'[t] = generation[t]]_vars
  BY FinalStep
<1> QED
  BY <1>1, TypeCorrect, TurnCorrect, PTL DEF Spec, TerminalIsFinal

-----------------------------------------------------------------------------
(* The events.                                                                 *)

\* Which steps touch the event table or the delivery in flight.
LEMMA EventSteps ==
    ASSUME TypeOK, [Next]_vars
    PROVE  \/ RunEmit \/ Deliveries \/ Crash
           \/ UNCHANGED <<events, delivery>>
           \/ RunDeliver
<1> USE DEF memory, world, history, table
<1>1. CASE RunTurn
  BY <1>1 DEF RunTurn, RunReclaimed, RunRenew, RunClaim, RunNothingReady, RunDefer, RunExecute,
              RunGroupedSend, RunGroupedRewatch, RunThrow, RunFinish, RunSettle, RunWedge, RunResume, RunDestroy
<1>2. CASE Handlers \/ Loop
  BY <1>2 DEF Handlers, Loop, enqueue, enqueueGroup, StartTick, hold, unhold, cancel
<1>3. CASE Execution
  BY <1>3 DEF Execution, sendToSession, continueWorker, spawnWorker, HostThrows, Executed
<1>4. CASE SessionSteps \/ ConductorTurns
  BY <1>4 DEF SessionSteps, SessionSettles, SessionWaits, SessionApproved, SessionPrompted,
              SessionVanishes, ConductorTurns
<1>5. CASE Time
  BY <1>5 DEF Time, LeaseExpires, HoldLapses, CoolsDown
<1>6. CASE UNCHANGED vars
  BY <1>6 DEF vars
<1> QED
  BY <1>1, <1>2, <1>3, <1>4, <1>5, <1>6 DEF Next

\* A delivery rewrites flags and counters of the rows, never which rows there are.
LEMMA DeliveryKeeps ==
    ASSUME TypeOK, Deliveries
    PROVE  /\ DOMAIN events' = DOMAIN events
           /\ \A i \in DOMAIN events : events'[i].type = events[i].type
<1>1. \A i \in DOMAIN events : events[i] \in Event
  BY DEF TypeOK
<1> QED
  BY <1>1 DEF Deliveries, DeliveryLands, MarkDelivered, DeliveryFails, table, Event

\* What an emission may append.
LEMMA EmitAdds ==
    ASSUME TypeOK, RunEmit, events' # events
    PROVE  \E e \in Event : /\ events' = Append(events, e)
                            /\ ~e.delivered /\ e.handed = 0
                            /\ e.type = "group_done" => ~BarrierPending
<1>1. Head1.task \in Tasks /\ Head1.how \in TaskEvents
  BY TaskItem DEF RunEmit
<1> DEFINE type == IF Absorbed(Head1.task) THEN "group_done" ELSE Head1.how
           e == [task |-> Head1.task, type |-> type, delivered |-> FALSE, handed |-> 0]
<1>2. events' = Append(events, e)
  BY DEF RunEmit, dispatchEventAdd
<1>3. e \in Event
  BY <1>1 DEF Event, EventTypes
<1>4. e.type = "group_done" => Absorbed(Head1.task)
  BY <1>1 DEF TaskEvents
<1>5. ~(Absorbed(Head1.task) /\ BarrierPending)
  BY DEF RunEmit
<1> QED
  BY <1>2, <1>3, <1>4, <1>5

LEMMA BarrierStep ==
    ASSUME TypeOK, TurnInv, BarrierJoinsAll, [Next]_vars
    PROVE  BarrierJoinsAll'
<1>1. \A m \in Group : Terminal(m) => Terminal(m)'
  BY FinalStep, GroupAssumption DEF Terminal
<1>2. CASE /\ DOMAIN events' = DOMAIN events
           /\ \A i \in DOMAIN events : events'[i].type = events[i].type
  BY <1>1, <1>2 DEF BarrierJoinsAll
<1>3. CASE RunEmit
  <2>1. CASE events' = events
    BY <2>1, <1>2
  <2>2. CASE events' # events
    <3>1. PICK e \in Event : events' = Append(events, e) /\ (e.type = "group_done" => ~BarrierPending)
      BY <1>3, <2>2, EmitAdds
    <3>2. ASSUME NEW i \in DOMAIN events', events'[i].type = "group_done"
          PROVE  \A m \in Group : Terminal(m)
      <4>1. CASE i \in DOMAIN events
        <5>1. events'[i] = events[i]
          BY <3>1, <4>1 DEF TypeOK
        <5> QED
          BY <3>2, <4>1, <5>1 DEF BarrierJoinsAll
      <4>2. CASE i \notin DOMAIN events
        <5>1. events'[i] = e
          BY <3>1, <4>2 DEF TypeOK
        <5> QED
          BY <3>1, <3>2, <5>1 DEF BarrierPending
      <4> QED
        BY <4>1, <4>2
    <3> QED
      BY <3>2, <1>1 DEF BarrierJoinsAll
  <2> QED
    BY <2>1, <2>2
<1>4. CASE RunDeliver \/ Crash
  BY <1>4, <1>2 DEF RunDeliver, Crash, table
<1> QED
  BY <1>2, <1>3, <1>4, EventSteps, DeliveryKeeps

(* BarrierJoinsAll: the merged event of a fan-out is in the table only when    *)
(* every member has ended, and then they stay ended (#barrierAbsorb).          *)
THEOREM BarrierJoins == Spec => []BarrierJoinsAll
<1>1. Init => BarrierJoinsAll
  BY DEF Init, BarrierJoinsAll
<1>2. TypeOK /\ TurnInv /\ BarrierJoinsAll /\ [Next]_vars => BarrierJoinsAll'
  BY BarrierStep
<1> QED
  BY <1>1, <1>2, TypeCorrect, TurnCorrect, PTL DEF Spec

(* The batch in flight holds rows of the table; what it has handed over was    *)
(* handed over; and while no daemon crashes, a row that was handed over and is *)
(* not marked yet is in the batch about to be marked.                          *)
BatchInv ==
    /\ delivery.ids \subseteq DOMAIN events
    /\ \A i \in DOMAIN events :
        /\ events[i].delivered => events[i].handed > 0
        /\ i \in delivery.ids /\ delivery.step = "handed" => events[i].handed > 0
        /\ "crash" \notin Faults =>
            /\ events[i].handed <= 1
            /\ ~events[i].delivered /\ events[i].handed > 0 => i \in delivery.ids /\ delivery.step = "handed"
            /\ i \in delivery.ids /\ delivery.step = "sending" => events[i].handed = 0

LEMMA BatchStep ==
    ASSUME TypeOK, BatchInv, [Next]_vars
    PROVE  BatchInv'
<1>1. \A i \in DOMAIN events : events[i] \in Event /\ events[i].handed \in Nat /\ events[i].delivered \in BOOLEAN
  <2>1. \A i \in DOMAIN events : events[i] \in Event
    BY DEF TypeOK
  <2> QED
    BY <2>1 DEF Event
<1>2. CASE UNCHANGED <<events, delivery>>
  BY <1>2 DEF BatchInv
<1>3. CASE RunEmit
  <2>1. delivery' = delivery
    BY <1>3 DEF RunEmit, memory
  <2>2. CASE events' # events
    <3>1. PICK e \in Event : events' = Append(events, e) /\ ~e.delivered /\ e.handed = 0
      BY <1>3, <2>2, EmitAdds
    <3>2. DOMAIN events \subseteq DOMAIN events' /\ \A i \in DOMAIN events : events'[i] = events[i]
      BY <3>1 DEF TypeOK
    <3>3. \A i \in DOMAIN events' \ DOMAIN events : events'[i] = e
      BY <3>1 DEF TypeOK
    <3> QED
      BY <2>1, <3>1, <3>2, <3>3 DEF BatchInv
  <2> QED
    BY <2>1, <2>2, <1>2
<1>4. CASE RunDeliver
  <2>1. events' = events
    BY <1>4 DEF RunDeliver, table
  <2>2. CASE delivery' = delivery
    BY <2>1, <2>2, <1>2
  <2>3. CASE delivery' # delivery
    <3>1. /\ delivery' = [step |-> "sending", ids |-> dispatchEventsPending]
          /\ delivery.step = "none"
      BY <1>4, <2>3 DEF RunDeliver, CanDeliver
    <3> QED
      BY <3>1, <2>1, <1>1 DEF BatchInv, dispatchEventsPending
  <2> QED
    BY <2>2, <2>3
<1>5. CASE DeliveryLands
  <2>1. /\ delivery.step = "sending" /\ delivery'.step = "handed" /\ delivery'.ids = delivery.ids
        /\ DOMAIN events' = DOMAIN events
    BY <1>5 DEF DeliveryLands, TypeOK
  <2>2. \A i \in DOMAIN events : /\ events'[i].delivered = events[i].delivered
                                 /\ events'[i].handed = IF i \in delivery.ids THEN events[i].handed + 1
                                                        ELSE events[i].handed
    BY <1>5, <1>1 DEF DeliveryLands, Event
  <2> QED
    BY <1>1, <2>1, <2>2 DEF BatchInv
<1>6. CASE MarkDelivered
  <2>1. /\ delivery.step = "handed" /\ delivery'.step = "none" /\ delivery'.ids = {}
        /\ DOMAIN events' = DOMAIN events
    BY <1>6 DEF MarkDelivered, NoDelivery
  <2>2. \A i \in DOMAIN events : /\ events'[i].handed = events[i].handed
                                 /\ i \in delivery.ids => events'[i].delivered
                                 /\ i \notin delivery.ids => events'[i].delivered = events[i].delivered
    BY <1>6, <1>1 DEF MarkDelivered, Event
  <2> QED
    BY <1>1, <2>1, <2>2 DEF BatchInv
<1>7. CASE DeliveryFails
  BY <1>7 DEF DeliveryFails, NoDelivery, BatchInv, table
<1>8. CASE Crash
  BY <1>8 DEF Crash, NoDelivery, BatchInv, table
<1> QED
  BY <1>2, <1>3, <1>4, <1>5, <1>6, <1>7, <1>8, EventSteps DEF Deliveries

LEMMA BatchCorrect == Spec => []BatchInv
<1>1. Init => BatchInv
  BY DEF Init, BatchInv, NoDelivery
<1>2. TypeOK /\ BatchInv /\ [Next]_vars => BatchInv'
  BY BatchStep
<1> QED
  BY <1>1, <1>2, TypeCorrect, PTL DEF Spec

(* DeliveredWasHanded: the mark is only put on events of a batch that reached  *)
(* its recipient (#deliverPendingEvents).                                      *)
THEOREM HandedBeforeMarked == Spec => []DeliveredWasHanded
<1>1. BatchInv => DeliveredWasHanded
  BY DEF BatchInv, DeliveredWasHanded
<1> QED
  BY <1>1, BatchCorrect, PTL

(* HandedOnce: if no daemon dies between handing a batch over and marking it,  *)
(* no event is handed over twice (the #deliveringEvents lock).                 *)
THEOREM HandedAtMostOnce ==
    ASSUME "crash" \notin Faults
    PROVE  Spec => []HandedOnce
<1>1. BatchInv => HandedOnce
  BY DEF BatchInv, HandedOnce
<1> QED
  BY <1>1, BatchCorrect, PTL

-----------------------------------------------------------------------------
(* The dispatcher implements TaskLifecycle.                                    *)

LEMMA PhaseSet ==
    ASSUME TypeOK, NEW t \in Tasks, NEW now, status' = [status EXCEPT ![t] = now]
    PROVE  phaseOf' = [phaseOf EXCEPT ![t] = PhaseOf(now)]
<1>1. \A u \in Tasks : status'[u] = IF u = t THEN now ELSE status[u]
  BY DEF TypeOK
<1>2. \A u \in Tasks : PhaseOf(status'[u]) = IF u = t THEN PhaseOf(now) ELSE PhaseOf(status[u])
  BY <1>1
<1>3. phaseOf' = [u \in Tasks |-> IF u = t THEN PhaseOf(now) ELSE PhaseOf(status[u])]
  BY <1>2 DEF phaseOf
<1> QED
  BY <1>3 DEF phaseOf

LEMMA PhaseAt == \A t \in Tasks : phaseOf[t] = PhaseOf(status[t])
  BY DEF phaseOf

LEMMA PhaseSame ==
    ASSUME TypeOK, NEW t \in Tasks, NEW now, status' = [status EXCEPT ![t] = now],
           PhaseOf(now) = PhaseOf(status[t])
    PROVE  phaseOf' = phaseOf
<1>1. \A u \in Tasks : PhaseOf(status'[u]) = PhaseOf(status[u])
  BY DEF TypeOK
<1> QED
  BY <1>1 DEF phaseOf

\* A failure with tries left, or the last one.
LEMMA PhaseOfFailure ==
    ASSUME TypeOK, NEW t \in Tasks
    PROVE  PhaseOf(AfterFailure(t)) = L!AfterLoss(t)
<1>1. attempts[t] \in Nat /\ FailureLimit \in Nat
  BY BoundsAssumption DEF TypeOK
<1>2. CASE Kind[t] = "attempt"
  BY <1>2 DEF AfterFailure, PhaseOf, L!AfterLoss
<1>3. CASE Kind[t] # "attempt"
  BY <1>1, <1>3 DEF AfterFailure, failure_limit, PhaseOf, L!AfterLoss
<1> QED
  BY <1>2, <1>3

\* One row moves, at no cost.
LEMMA PhaseMove ==
    ASSUME TypeOK, NEW t \in Tasks, NEW from, NEW now,
           status' = [status EXCEPT ![t] = now], UNCHANGED attempts, PhaseOf(status[t]) \in from
    PROVE  L!Moves(t, from, PhaseOf(now))
<1>1. phaseOf' = [phaseOf EXCEPT ![t] = PhaseOf(now)]
  BY PhaseSet
<1>2. phaseOf[t] \in from
  BY PhaseAt
<1> QED
  BY <1>1, <1>2 DEF L!Moves

LEMMA LossStep ==
    ASSUME TypeOK, NEW S \in SUBSET Tasks, \A t \in S : status[t] \in {"claimed", "running", "held"},
           status' = [t \in Tasks |-> IF t \in S THEN AfterFailure(t) ELSE status[t]],
           attempts' = [t \in Tasks |-> IF t \in S THEN attempts[t] + 1 ELSE attempts[t]]
    PROVE  L!Lose(S)
<1>1. \A t \in S : phaseOf[t] \in {"working", "parked"}
  BY PhaseAt DEF PhaseOf
<1>2. \A t \in Tasks : PhaseOf(status'[t]) = IF t \in S THEN L!AfterLoss(t) ELSE phaseOf[t]
  BY PhaseOfFailure, PhaseAt
<1>3. phaseOf' = [t \in Tasks |-> IF t \in S THEN L!AfterLoss(t) ELSE phaseOf[t]]
  BY <1>2 DEF phaseOf
<1> QED
  BY <1>1, <1>3 DEF L!Lose

LEMMA LifecycleStep ==
    ASSUME TypeOK, StoreMove
    PROVE  [L!LifecycleNext]_<<phaseOf, attempts>>
<1> DEFINE Retrying == {t \in Tasks : Kind[t] # "attempt"}
<1>1. CASE UNCHANGED <<status, attempts, generation>>
  BY <1>1 DEF phaseOf
<1>2. ASSUME NEW t \in Tasks, status[t] = "queued", dispatchClaimNext(t)
      PROVE  L!LifecycleNext
  <2>1. L!Moves(t, {"ready"}, PhaseOf("claimed"))
    BY <1>2, PhaseMove DEF dispatchClaimNext, PhaseOf
  <2> QED
    BY <2>1 DEF L!LifecycleNext, PhaseOf
<1>3. ASSUME NEW t \in Tasks, NEW s, status[t] \in Live, dispatchMarkRunning(t, s)
      PROVE  UNCHANGED <<phaseOf, attempts>>
  BY <1>3, PhaseSame DEF dispatchMarkRunning, PhaseOf, Live
<1>4. ASSUME NEW t \in Tasks, status[t] \in Live, dispatchComplete(t)
      PROVE  L!LifecycleNext
  <2>1. L!Moves(t, {"working"}, PhaseOf("done"))
    BY <1>4, PhaseMove DEF dispatchComplete, PhaseOf, Live
  <2> QED
    BY <2>1 DEF L!LifecycleNext, PhaseOf
<1>5. ASSUME NEW t \in Tasks, NEW r \in BOOLEAN, status[t] \in Live, dispatchFail(t, r)
      PROVE  L!LifecycleNext
  <2>1. status' = [status EXCEPT ![t] = Failed(t, r)] /\ attempts' = [attempts EXCEPT ![t] = @ + 1]
    BY <1>5 DEF dispatchFail
  <2>2. CASE r
    <3>1. Failed(t, r) = AfterFailure(t)
      BY <2>2 DEF Failed
    <3>2. /\ status' = [u \in Tasks |-> IF u \in {t} THEN AfterFailure(u) ELSE status[u]]
          /\ attempts' = [u \in Tasks |-> IF u \in {t} THEN attempts[u] + 1 ELSE attempts[u]]
      BY <2>1, <3>1 DEF TypeOK
    <3>3. L!Lose({t})
      BY <1>5, <3>2, LossStep DEF Live
    <3> QED
      BY <3>3 DEF L!LifecycleNext
  <2>3. CASE ~r
    <3>1. phaseOf' = [phaseOf EXCEPT ![t] = "dead"]
      BY <2>1, <2>3, PhaseSet DEF Failed, PhaseOf
    <3>2. phaseOf[t] = "working"
      BY <1>5, PhaseAt DEF PhaseOf, Live
    <3>3. L!Refuse(t)
      BY <2>1, <3>1, <3>2 DEF L!Refuse
    <3> QED
      BY <3>3 DEF L!LifecycleNext
  <2> QED
    BY <2>2, <2>3
<1>6. ASSUME NEW t \in Tasks, status[t] \in Live, Kind[t] = "attempt", dispatchHold(t)
      PROVE  L!LifecycleNext
  <2>1. L!Moves(t, {"working"}, PhaseOf("held"))
    BY <1>6, PhaseMove DEF dispatchHold, PhaseOf, Live
  <2> QED
    BY <1>6, <2>1 DEF L!LifecycleNext, PhaseOf
<1>7. ASSUME NEW t \in Tasks, status[t] = "held", Kind[t] = "attempt", dispatchUnhold(t)
      PROVE  L!LifecycleNext
  <2>1. L!Moves(t, {"parked"}, PhaseOf("running"))
    BY <1>7, PhaseMove DEF dispatchUnhold, PhaseOf
  <2> QED
    BY <1>7, <2>1 DEF L!LifecycleNext, PhaseOf
<1>8. ASSUME NEW t \in Tasks, status[t] = "held", EndAttempt(t, 1)
      PROVE  L!LifecycleNext
  <2>1. phaseOf' = [phaseOf EXCEPT ![t] = "dead"]
    BY <1>8, PhaseSet DEF EndAttempt, PhaseOf
  <2>2. phaseOf[t] = "parked"
    BY <1>8, PhaseAt DEF PhaseOf
  <2>3. L!Refuse(t)
    BY <1>8, <2>1, <2>2 DEF EndAttempt, L!Refuse
  <2> QED
    BY <2>3 DEF L!LifecycleNext
<1>9. ASSUME NEW t \in Tasks, status[t] \in {"queued", "claimed", "running", "held"},
             Kind[t] = "attempt", EndAttempt(t, 0)
      PROVE  L!LifecycleNext
  <2>1. attempts' = attempts
    BY <1>9 DEF EndAttempt, TypeOK
  <2>2. L!Moves(t, {"ready", "working", "parked"}, PhaseOf("failed"))
    BY <1>9, <2>1, PhaseMove DEF EndAttempt, PhaseOf
  <2> QED
    BY <1>9, <2>2 DEF L!LifecycleNext, PhaseOf
<1>10. ASSUME NEW t \in Tasks, status[t] \in Live, dispatchRelease(t)
       PROVE  L!LifecycleNext
  <2>1. L!Moves(t, {"working"}, PhaseOf("queued"))
    BY <1>10, PhaseMove DEF dispatchRelease, PhaseOf, Live
  <2> QED
    BY <2>1 DEF L!LifecycleNext, PhaseOf
<1>11. ASSUME NEW S \in SUBSET Tasks, \A t \in S : status[t] = "absent", Submit(S)
       PROVE  L!LifecycleNext
  <2>1. \A t \in S : phaseOf[t] = "absent"
    BY <1>11, PhaseAt DEF PhaseOf
  <2>2. \A t \in Tasks : PhaseOf(status'[t]) = IF t \in S THEN "ready" ELSE phaseOf[t]
    BY <1>11, PhaseAt DEF Submit, PhaseOf
  <2>3. phaseOf' = [t \in Tasks |-> IF t \in S THEN "ready" ELSE phaseOf[t]]
    BY <2>2 DEF phaseOf
  <2>4. L!SubmitAll(S)
    BY <1>11, <2>1, <2>3 DEF Submit, L!SubmitAll
  <2> QED
    BY <2>4 DEF L!LifecycleNext
<1>12. CASE dispatchReclaimStale
  <2> DEFINE stale == {t \in Tasks : Stale(t)}
  <2>1. /\ status' = [t \in Tasks |-> IF t \in stale THEN AfterFailure(t) ELSE status[t]]
        /\ attempts' = [t \in Tasks |-> IF t \in stale THEN attempts[t] + 1 ELSE attempts[t]]
    BY <1>12 DEF dispatchReclaimStale
  <2>2. \A t \in stale : status[t] \in {"claimed", "running", "held"}
    BY StaleRows
  <2> HIDE DEF stale
  <2>3. stale \in SUBSET Tasks
    BY DEF stale
  <2>4. L!Lose(stale)
    BY <2>1, <2>2, <2>3, LossStep
  <2> QED
    BY <2>3, <2>4 DEF L!LifecycleNext
<1> QED
  BY <1>1, <1>2, <1>3, <1>4, <1>5, <1>6, <1>7, <1>8, <1>9, <1>10, <1>11, <1>12 DEF StoreMove

(* The task queue implements the life cycle it promises: every step of the     *)
(* daemon, its crashes included, is one of TaskLifecycle's, or none.           *)
THEOREM Implements == Spec => ImplementsLifecycle
<1>1. Init => L!LifecycleInit
  BY DEF Init, L!LifecycleInit, phaseOf, PhaseOf
<1>2. TypeOK /\ TurnInv /\ [Next]_vars => [L!LifecycleNext]_<<phaseOf, attempts>>
  BY StepMoves, LifecycleStep
<1> QED
  BY <1>1, <1>2, TypeCorrect, TurnCorrect, PTL DEF Spec, ImplementsLifecycle, L!LifecycleSpec

-----------------------------------------------------------------------------
(* A panel member is briefed once.                                             *)

(* The steps that name a worker, brief it or change what the pass awaits.      *)
Moving ==
    \/ RunExecute \/ RunGroupedSend \/ RunGroupedRewatch
    \/ sendToSession \/ continueWorker \/ spawnWorker \/ HostThrows \/ Executed \/ Crash

LEMMA Unmoving ==
    ASSUME [Next]_vars, ~Moving
    PROVE  UNCHANGED <<worker, exec, briefed>>
<1> USE DEF memory, world, history, table, task
<1>1. CASE RunTurn
  <2>1. CASE RunReclaimed \/ RunRenew \/ RunClaim \/ RunNothingReady \/ RunDefer \/ RunEmit
    BY <2>1 DEF RunReclaimed, RunRenew, RunClaim, RunNothingReady, RunDefer, RunEmit, dispatchTouch,
                dispatchClaimNext, dispatchRelease
  <2>2. CASE RunThrow \/ RunFinish \/ RunResume
    BY <2>2 DEF RunThrow, RunFinish, RunResume, dispatchFail, dispatchComplete
  <2>3. CASE RunSettle \/ RunWedge \/ RunDestroy \/ RunDeliver
    BY <2>3 DEF RunSettle, RunWedge, RunDestroy, RunDeliver
  <2> QED
    BY <1>1, <2>1, <2>2, <2>3 DEF RunTurn, Moving
<1>2. CASE Handlers
  BY <1>2 DEF Handlers, enqueue, enqueueGroup, StartTick, Submit, dispatchReclaimStale
<1>3. CASE Loop
  BY <1>3 DEF Loop, hold, unhold, cancel, dispatchHold, dispatchUnhold, EndAttempt
<1>4. CASE Deliveries \/ ConductorTurns \/ Time
  BY <1>4 DEF Deliveries, DeliveryLands, MarkDelivered, DeliveryFails, ConductorTurns, Time, LeaseExpires,
              HoldLapses, CoolsDown
<1>5. CASE SessionSteps
  BY <1>5 DEF SessionSteps, SessionSettles, SessionWaits, SessionApproved, SessionPrompted, SessionVanishes
<1>6. CASE UNCHANGED vars
  BY <1>6 DEF vars
<1> QED
  BY <1>1, <1>2, <1>3, <1>4, <1>5, <1>6 DEF Next, Execution, Moving

(* A member that has a worker was handed its brief; the hand-over under way is *)
(* the first.                                                                  *)
PanelInv ==
    /\ exec.step = "gsend" => exec.task \in Group /\ briefed[exec.task] = 0
    /\ exec.step = "send" => exec.task \notin Group
    /\ \A t \in Group : Kind[t] = "send" =>
          /\ worker[t] = NoSession => briefed[t] = 0 /\ exec.task # t
          /\ briefed[t] <= 1

\* The call that is awaited is a record, and goes from step to step for the same task.
LEMMA ExecGoesOn ==
    ASSUME TypeOK, exec.step # "none", NEW x, NEW s
    PROVE  /\ exec \in [task : Tasks, generation : Nat, sess : AnySession,
                       step : {"send", "gsend", "landed", "spawn", "continue", "continued"}]
           /\ LET e == [exec EXCEPT !.step = x]
              IN  e.step = x /\ e.task = exec.task /\ e.generation = exec.generation /\ e.sess = exec.sess
           /\ LET e == [exec EXCEPT !.step = x, !.sess = s]
              IN  e.step = x /\ e.task = exec.task /\ e.generation = exec.generation /\ e.sess = s
  BY DEF TypeOK, Execs, ExecsOf, NoExec, Sends, AnySession

LEMMA PanelStep ==
    ASSUME TypeOK, PanelInv, [Next]_vars
    PROVE  PanelInv'
<1> USE DEF TypeOK
<1>0. Group \subseteq Tasks
  BY GroupAssumption
<1>1. CASE RunExecute
  <2>1. Head1.task \in Tasks /\ (Kind[Head1.task] = "send" => Head1.task \notin Group)
    BY <1>1, TaskItem DEF RunExecute
  <2>2. exec'.task = Head1.task /\ UNCHANGED <<worker, briefed>>
    BY <1>1 DEF RunExecute, Start, table, task, history
  <2>3. /\ exec'.step = "send" => Kind[Head1.task] = "send"
        /\ exec'.step # "gsend"
    BY <1>1 DEF RunExecute, Start
  <2> QED
    BY <2>1, <2>2, <2>3 DEF PanelInv
<1>2. CASE RunGroupedSend
  <2>1. /\ Head1.task \in Group /\ Kind[Head1.task] = "send" /\ worker[Head1.task] = NoSession
        /\ Target[Head1.task] # NoSession
    BY <1>0, <1>2, TargetAssumption DEF RunGroupedSend, alreadyDelivered
  <2>2. /\ exec'.task = Head1.task /\ exec'.step = "gsend" /\ UNCHANGED briefed
        /\ worker' = [worker EXCEPT ![Head1.task] = Target[Head1.task]]
    BY <1>2 DEF RunGroupedSend, Start, dispatchMarkRunning, history
  <2> QED
    BY <1>0, <2>1, <2>2 DEF PanelInv
<1>3. CASE RunGroupedRewatch
  <2>1. Head1.task \in Group /\ Target[Head1.task] # NoSession /\ worker[Head1.task] # NoSession
    BY <1>0, <1>3, TargetAssumption DEF RunGroupedRewatch, alreadyDelivered
  <2>2. /\ UNCHANGED <<exec, briefed>>
        /\ worker' = worker \/ worker' = [worker EXCEPT ![Head1.task] = Target[Head1.task]]
    BY <1>3 DEF RunGroupedRewatch, dispatchMarkRunning, history, task
  <2> QED
    BY <1>0, <2>1, <2>2 DEF PanelInv
<1>4. CASE sendToSession
  <2>1. exec.task \in Tasks /\ exec'.step = "landed" /\ exec'.task = exec.task /\ worker' = worker
    BY <1>4, ExecTypes, ExecGoesOn DEF sendToSession, table, task
  <2>2. briefed' = [briefed EXCEPT ![exec.task] = @ + 1]
    BY <1>4 DEF sendToSession, Brief
  <2>3. exec.task \in Group => briefed[exec.task] = 0 /\ (Kind[exec.task] = "send" => worker[exec.task] # NoSession)
    BY <1>4 DEF sendToSession, PanelInv
  <2> QED
    BY <1>0, <2>1, <2>2, <2>3 DEF PanelInv
<1>5. CASE continueWorker \/ spawnWorker
  <2>1. exec.task \in Tasks /\ Kind[exec.task] # "send" /\ exec'.step \notin {"send", "gsend"}
        /\ exec'.task = exec.task /\ worker' = worker
    BY <1>5, ExecTypes DEF continueWorker, spawnWorker, table, task, Execs, ExecsOf, NoExec, Sends
  <2>2. \A t \in Group : Kind[t] = "send" => briefed'[t] = briefed[t]
    BY <1>0, <1>5, <2>1 DEF continueWorker, spawnWorker, Brief
  <2> QED
    BY <2>1, <2>2 DEF PanelInv
<1>6. CASE HostThrows \/ Executed \/ Crash
  <2>1. exec' = NoExec /\ UNCHANGED briefed
    BY <1>6 DEF HostThrows, Executed, Crash, history
  <2>2. \A t \in Group : Kind[t] = "send" => worker'[t] = worker[t]
    BY <1>0, <1>6, ExecTypes DEF HostThrows, Executed, Crash, table, task, dispatchComplete, dispatchMarkRunning
  <2> QED
    BY <1>0, <2>1, <2>2, NamesAssumption DEF PanelInv, NoExec
<1>7. CASE ~Moving
  BY <1>7, Unmoving DEF PanelInv
<1> QED
  BY <1>1, <1>2, <1>3, <1>4, <1>5, <1>6, <1>7 DEF Moving

(* PanelBriefedOnce: a panel member reads its brief at most once, whatever     *)
(* crashes, retries and reclaims come between the claim and the brief: the row *)
(* names its target before the prompt leaves (#startGroupedSend).              *)
THEOREM PanelBriefed == Spec => []PanelBriefedOnce
<1>1. Init => PanelInv
  BY GroupAssumption, NamesAssumption DEF Init, PanelInv, NoExec
<1>2. TypeOK /\ PanelInv /\ [Next]_vars => PanelInv'
  BY PanelStep
<1>3. PanelInv => PanelBriefedOnce
  BY DEF PanelInv, PanelBriefedOnce
<1> QED
  BY <1>1, <1>2, <1>3, TypeCorrect, PTL DEF Spec


-----------------------------------------------------------------------------
(* Every brief is paid for.                                                    *)

(* What a step does to the tries of a row: nothing, one more for a try that    *)
(* ended, or nothing for a claim given back before it was acted on.            *)
Kept(t) ==
    /\ attempts'[t] = attempts[t]
    /\ status'[t] \in {"absent", "queued"} => status[t] \in {"absent", "queued"}
    /\ Terminal(t) => Terminal(t)'
Paid(t) ==
    /\ ~Terminal(t) /\ attempts'[t] = attempts[t] + 1
    /\ status'[t] = "queued" => attempts'[t] < failure_limit(t)
    /\ status'[t] = "queued" \/ Terminal(t)'
GivenBack(t) ==
    /\ Doing("admit") /\ t = Head1.task
    /\ attempts'[t] = attempts[t] /\ ~Terminal(t) /\ status'[t] = "queued"

\* A failed try is queued again only below the limit.
LEMMA FailurePays ==
    ASSUME TypeOK, NEW t \in Tasks
    PROVE  /\ AfterFailure(t) \in {"failed", "blocked", "queued"}
           /\ AfterFailure(t) = "queued" => attempts[t] + 1 < failure_limit(t)
<1>1. attempts[t] \in Nat /\ failure_limit(t) \in Nat
  BY BoundsAssumption DEF TypeOK, failure_limit
<1> QED
  BY <1>1 DEF AfterFailure

LEMMA RowPays ==
    ASSUME TypeOK, StoreMove, NEW t \in Tasks
    PROVE  Kept(t) \/ Paid(t) \/ GivenBack(t)
<1> USE DEF TypeOK, Live
<1>1. CASE UNCHANGED <<status, attempts, generation>>
  BY <1>1 DEF Kept, Terminal
<1>2. CASE \E u \in Tasks : status[u] = "queued" /\ dispatchClaimNext(u)
  BY <1>2 DEF dispatchClaimNext, Kept, Terminal, TERMINAL_TASK_STATUS
<1>3. CASE \E u \in Tasks, s \in AnySession : status[u] \in Live /\ dispatchMarkRunning(u, s)
  BY <1>3 DEF dispatchMarkRunning, Kept, Terminal, TERMINAL_TASK_STATUS
<1>4. CASE \E u \in Tasks : status[u] \in Live /\ dispatchComplete(u)
  BY <1>4 DEF dispatchComplete, Kept, Terminal, TERMINAL_TASK_STATUS
<1>5. CASE \E u \in Tasks, r \in BOOLEAN : status[u] \in Live /\ dispatchFail(u, r)
  <2>1. PICK u \in Tasks, r \in BOOLEAN : status[u] \in Live /\ dispatchFail(u, r)
    BY <1>5
  <2>2. CASE u = t
    <3>1. status'[t] = Failed(t, r) /\ attempts'[t] = attempts[t] + 1
      BY <2>1, <2>2 DEF dispatchFail
    <3>2. /\ Failed(t, r) \in {"failed", "blocked", "queued"}
          /\ Failed(t, r) = "queued" => attempts[t] + 1 < failure_limit(t)
      BY FailurePays DEF Failed
    <3> QED
      BY <2>1, <2>2, <3>1, <3>2 DEF Paid, Terminal, TERMINAL_TASK_STATUS
  <2>3. CASE u # t
    BY <2>1, <2>3 DEF dispatchFail, Kept, Terminal
  <2> QED
    BY <2>2, <2>3
<1>6. CASE \E u \in Tasks : status[u] \in Live /\ Kind[u] = "attempt" /\ dispatchHold(u)
  BY <1>6 DEF dispatchHold, Kept, Terminal, TERMINAL_TASK_STATUS
<1>7. CASE \E u \in Tasks : status[u] = "held" /\ Kind[u] = "attempt" /\ dispatchUnhold(u)
  BY <1>7 DEF dispatchUnhold, Kept, Terminal, TERMINAL_TASK_STATUS
<1>8. CASE \E u \in Tasks : status[u] = "held" /\ Kind[u] = "attempt" /\ EndAttempt(u, 1)
  BY <1>8 DEF EndAttempt, Kept, Paid, Terminal, TERMINAL_TASK_STATUS
<1>9. CASE \E u \in Tasks : /\ status[u] \in {"queued", "claimed", "running", "held"}
                            /\ Kind[u] = "attempt" /\ EndAttempt(u, 0)
  BY <1>9 DEF EndAttempt, Kept, Terminal, TERMINAL_TASK_STATUS
<1>10. CASE \E u \in Tasks : /\ Doing("admit") /\ u = Head1.task
                             /\ status[u] \in Live /\ dispatchRelease(u)
  BY <1>10 DEF dispatchRelease, Kept, GivenBack, Terminal, TERMINAL_TASK_STATUS
<1>11. CASE \E S \in SUBSET Tasks : /\ \A u \in S : status[u] = "absent"
                                    /\ S = Group \/ S \cap Group = {}
                                    /\ Submit(S)
  BY <1>11 DEF Submit, Kept, Terminal, TERMINAL_TASK_STATUS
<1>12. CASE dispatchReclaimStale
  BY <1>12, StaleRows, FailurePays DEF dispatchReclaimStale, Kept, Paid, Terminal, TERMINAL_TASK_STATUS
<1> QED
  BY <1>1, <1>2, <1>3, <1>4, <1>5, <1>6, <1>7, <1>8, <1>9, <1>10, <1>11, <1>12 DEF StoreMove

\* The briefs a task was given, with the one on its way.
ToCome(t) == IF exec.task = t /\ exec.step \in {"send", "gsend", "continue", "spawn"} THEN 1 ELSE 0
Briefs(t) == briefed[t] + ToCome(t)

LEMMA BriefsNat ==
    ASSUME TypeOK, NEW t \in Tasks
    PROVE  Briefs(t) \in Nat /\ briefed[t] \in Nat /\ Briefs(t) \in {briefed[t], briefed[t] + 1}
  BY DEF TypeOK, Briefs, ToCome

\* Only the start of a call puts a brief on its way, and the call delivers that one.
LEMMA BriefsKept ==
    ASSUME TypeOK, TypeOK', [Next]_vars, ~RunExecute, ~RunGroupedSend, NEW t \in Tasks
    PROVE  Briefs(t)' <= Briefs(t)
<1>0. briefed \in [Tasks -> Nat]
  BY DEF TypeOK
<1>1. CASE sendToSession \/ continueWorker \/ spawnWorker
  <2>1. exec.task \in Tasks /\ exec.step \in {"send", "gsend", "continue", "spawn"}
    BY <1>1, ExecTypes DEF sendToSession, continueWorker, spawnWorker
  <2>2. /\ exec'.task = exec.task
        /\ \/ Brief(exec.task) /\ exec'.step \in {"landed", "continued"}
           \/ exec'.step = "spawn" /\ UNCHANGED briefed
    <3>1. CASE sendToSession
      BY <2>1, <3>1, ExecGoesOn DEF sendToSession
    <3>2. CASE continueWorker
      BY <2>1, <3>2, ExecGoesOn DEF continueWorker
    <3>3. CASE spawnWorker
      BY <2>1, <3>3, ExecGoesOn DEF spawnWorker
    <3> QED
      BY <1>1, <3>1, <3>2, <3>3
  <2> QED
    BY <1>0, <2>1, <2>2 DEF Briefs, ToCome, Brief
<1>2. CASE HostThrows \/ Executed \/ Crash
  <2>1. exec' = NoExec /\ UNCHANGED briefed
    BY <1>2 DEF HostThrows, Executed, Crash, history
  <2> QED
    BY <1>0, <2>1 DEF Briefs, ToCome, NoExec
<1>3. CASE RunGroupedRewatch
  <2>1. UNCHANGED <<exec, briefed>>
    BY <1>3 DEF RunGroupedRewatch, history
  <2> QED
    BY <1>0, <2>1 DEF Briefs, ToCome
<1>4. CASE ~Moving
  <2>1. UNCHANGED <<exec, briefed>>
    BY <1>4, Unmoving
  <2> QED
    BY <1>0, <2>1 DEF Briefs, ToCome
<1> QED
  BY <1>1, <1>2, <1>3, <1>4 DEF Moving

LEMMA BriefsStart ==
    ASSUME TypeOK, TypeOK', RunExecute \/ RunGroupedSend, NEW t \in Tasks
    PROVE  Briefs(t)' <= Briefs(t) \/ (t = Head1.task /\ Briefs(t)' <= Briefs(t) + 1)
<1>1. UNCHANGED briefed /\ exec'.task = Head1.task
  BY DEF RunExecute, RunGroupedSend, Start, history
<1>2. briefed[t] \in Nat
  BY DEF TypeOK
<1> QED
  BY <1>1, <1>2 DEF Briefs, ToCome

(* A try is paid for when it ends, and ends once: a row waiting for its claim  *)
(* has paid for all its briefs, one being tried for all but the last.          *)
BriefRow(t) ==
    /\ attempts[t] <= failure_limit(t) /\ Briefs(t) <= failure_limit(t)
    /\ Briefs(t) <= attempts[t] + 1
    /\ ~Terminal(t) => attempts[t] < failure_limit(t)
    /\ status[t] \in {"absent", "queued"} => Briefs(t) <= attempts[t]
BriefInv ==
    /\ \A t \in Tasks : BriefRow(t)
    /\ Doing("admit") => Briefs(Head1.task) <= attempts[Head1.task]

LEMMA BriefRowStep ==
    ASSUME TypeOK, TypeOK', TurnInv, BriefInv, [Next]_vars, NEW t \in Tasks
    PROVE  BriefRow(t)'
<1>0. /\ attempts[t] \in Nat /\ attempts'[t] \in Nat /\ failure_limit(t) \in Nat \ {0}
      /\ Briefs(t) \in Nat /\ Briefs(t)' \in Nat
  <2>1. briefed'[t] \in Nat /\ attempts[t] \in Nat /\ attempts'[t] \in Nat
    BY DEF TypeOK
  <2>2. Briefs(t) \in Nat /\ Briefs(t)' \in Nat
    BY <2>1, BriefsNat DEF Briefs, ToCome
  <2> QED
    BY <2>1, <2>2, BoundsAssumption DEF failure_limit
<1>1. BriefRow(t) /\ (Kept(t) \/ Paid(t) \/ GivenBack(t))
  BY StepMoves, RowPays DEF BriefInv
<1>2. CASE Briefs(t)' <= Briefs(t)
  <2>1. CASE Kept(t)
    BY <1>0, <1>1, <1>2, <2>1 DEF BriefRow, Kept
  <2>2. CASE Paid(t)
    BY <1>0, <1>1, <1>2, <2>2 DEF BriefRow, Paid, Terminal, TERMINAL_TASK_STATUS
  <2>3. CASE GivenBack(t)
    BY <1>0, <1>1, <1>2, <2>3 DEF BriefRow, GivenBack, BriefInv, Terminal, TERMINAL_TASK_STATUS
  <2> QED
    BY <1>1, <2>1, <2>2, <2>3
<1>3. CASE (RunExecute \/ RunGroupedSend) /\ t = Head1.task /\ Briefs(t)' <= Briefs(t) + 1
  <2>1. Doing("admit") /\ status[t] = "claimed"
    BY <1>3 DEF RunExecute, RunGroupedSend, TurnInv
  <2>2. attempts' = attempts /\ status'[t] \in {"claimed", "running"}
    BY <1>3, <2>1 DEF RunExecute, RunGroupedSend, dispatchMarkRunning, table, task, TypeOK
  <2>3. Briefs(t) <= attempts[t] /\ attempts[t] < failure_limit(t)
    BY <1>1, <1>3, <2>1 DEF BriefInv, BriefRow, Terminal, TERMINAL_TASK_STATUS
  <2> QED
    BY <1>0, <1>3, <2>2, <2>3 DEF BriefRow, failure_limit
<1> QED
  BY <1>2, <1>3, BriefsKept, BriefsStart

LEMMA AdmitStep ==
    ASSUME TypeOK, TypeOK', TurnInv, BriefInv, [Next]_vars, Doing("admit")'
    PROVE  Briefs(Head1.task)' <= attempts'[Head1'.task]
<1>1. ~Calm(todo')
  <2>1. SUFFICES ASSUME Calm(todo') PROVE FALSE
    OBVIOUS
  <2>2. todo' # <<>> /\ Head(todo') \in CalmItems
    BY <2>1 DEF Doing, Calm
  <2> QED
    BY <2>2 DEF Doing, Head1, CalmItems, Trusting
<1>2. CASE RunClaim
  <2>1. PICK t \in Tasks : status[t] = "queued" /\ dispatchClaimNext(t) /\ Goes(<<Admit(t)>>)
    BY <1>2 DEF RunClaim, Ready
  <2>2. Tail(todo) \in Seq(Items) /\ UNCHANGED <<exec, briefed>>
    BY <1>2, HeadIsItem DEF RunClaim, Doing, history
  <2>3. Head1' = Admit(t)
    BY <2>1, <2>2 DEF Goes, Head1
  <2>4. Head1'.task = t
    BY <2>3 DEF Admit, Item
  <2>5. Briefs(t) <= attempts[t] /\ attempts' = attempts
    BY <2>1 DEF BriefInv, BriefRow, dispatchClaimNext
  <2> QED
    BY <2>2, <2>4, <2>5 DEF Briefs, ToCome
<1>3. CASE ~RunTurn
  <2>1. todo' = todo /\ todo # <<>>
    <3>1. ASSUME NEW t \in Tasks, todo' = <<Resume(t, generation[t])>> PROVE FALSE
      <4>1. PICK i : i = Resume(t, generation[t])
        OBVIOUS
      <4>2. i.op = "resume"
        BY <4>1 DEF Resume, Item
      <4>3. Head(todo') = i
        BY <3>1, <4>1
      <4> QED
        BY <4>2, <4>3 DEF Doing, Head1
    <3>2. todo' # <<>>
      BY DEF Doing
    <3>3. todo' = todo
      BY <1>1, <1>3, <3>1, FreshCalm
    <3> QED
      BY <3>2, <3>3
  <2>2. PICK t : t = Head1.task
    OBVIOUS
  <2>3. Doing("admit") /\ Head1'.task = t /\ t \in Tasks
    BY <2>1, <2>2, TaskItem DEF Doing, Head1
  <2>4. Briefs(t) <= attempts[t] /\ status[t] = "claimed" /\ status'[t] = "claimed"
    BY <2>2, <2>3, TurnInvStep DEF BriefInv, TurnInv
  <2>5. attempts'[t] = attempts[t]
    BY <2>3, <2>4, StepMoves, RowPays DEF Kept, Paid, GivenBack, Terminal, TERMINAL_TASK_STATUS
  <2>6. Briefs(t)' <= Briefs(t)
    <3>1. ~RunExecute /\ ~RunGroupedSend
      BY <1>3 DEF RunTurn
    <3> QED
      BY <2>3, <3>1, BriefsKept
  <2>7. Briefs(t) \in Nat /\ Briefs(t)' \in Nat /\ attempts[t] \in Nat
    <3>1. briefed'[t] \in Nat /\ attempts[t] \in Nat
      BY <2>3 DEF TypeOK
    <3> QED
      BY <2>3, <3>1, BriefsNat DEF Briefs, ToCome
  <2> QED
    BY <2>3, <2>4, <2>5, <2>6, <2>7 DEF Briefs, ToCome
<1> QED
  BY <1>1, <1>2, <1>3, TurnCalm

(* BriefsArePaid: a task is briefed once per try and tried as often as its     *)
(* kind allows, whatever crashes, lapsed leases, retries and deferrals come    *)
(* between: every way a try ends counts it (dispatchFail, dispatchReclaimStale *)
(* and dispatchSettleHeld), and the one that does not, dispatchRelease, comes  *)
(* before the brief.                                                           *)
THEOREM BriefsPaid == Spec => []BriefsArePaid
<1>1. Init => BriefInv
  <2> SUFFICES ASSUME Init PROVE BriefInv
    OBVIOUS
  <2>1. ~Doing("admit")
    BY DEF Init, Doing
  <2>2. ASSUME NEW t \in Tasks PROVE BriefRow(t)
    <3>1. attempts[t] = 0 /\ Briefs(t) = 0 /\ failure_limit(t) \in Nat \ {0}
      BY BoundsAssumption DEF Init, Briefs, ToCome, NoExec, failure_limit
    <3> QED
      BY <3>1 DEF BriefRow
  <2> QED
    BY <2>1, <2>2 DEF BriefInv
<1>2. TypeOK /\ TypeOK' /\ TurnInv /\ BriefInv /\ [Next]_vars => BriefInv'
  <2> SUFFICES ASSUME TypeOK, TypeOK', TurnInv, BriefInv, [Next]_vars PROVE BriefInv'
    OBVIOUS
  <2>1. \A t \in Tasks : BriefRow(t)'
    BY BriefRowStep
  <2>2. Doing("admit")' => Briefs(Head1.task)' <= attempts'[Head1'.task]
    BY AdmitStep
  <2> QED
    BY <2>1, <2>2 DEF BriefInv
<1>3. TypeOK /\ BriefInv => BriefsArePaid
  <2> SUFFICES ASSUME TypeOK, BriefInv, NEW t \in Tasks
               PROVE  /\ attempts[t] <= failure_limit(t) /\ briefed[t] <= attempts[t] + 1
                      /\ briefed[t] <= failure_limit(t)
    BY DEF BriefsArePaid
  <2>1. attempts[t] \in Nat /\ failure_limit(t) \in Nat /\ BriefRow(t)
    BY BoundsAssumption DEF TypeOK, failure_limit, BriefInv
  <2>2. briefed[t] \in Nat /\ Briefs(t) \in Nat /\ briefed[t] <= Briefs(t)
    BY BriefsNat DEF Briefs, ToCome
  <2> QED
    BY <2>1, <2>2 DEF BriefRow
<1> QED
  BY <1>1, <1>2, <1>3, TypeCorrect, TurnCorrect, PTL DEF Spec

=============================================================================
