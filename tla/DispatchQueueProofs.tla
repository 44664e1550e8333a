------------------------- MODULE DispatchQueueProofs -------------------------
(***************************************************************************)
(* Proofs about DispatchQueue, for any number of workers, outside callers  *)
(* and operations.                                                         *)
(***************************************************************************)
EXTENDS DispatchQueue, FiniteSetTheorems, TLAPS

(* The type invariant of dispatchqueue.cpp's members and local state. *)
THEOREM TypeCorrect == Spec => []TypeOK
<1>1. Init => TypeOK
  <2> SUFFICES ASSUME Init
               PROVE  TypeOK
    OBVIOUS
  <2>1. queue \in Seq(Op)
    BY DEF Init
  <2>2. next \in 1..(MaxOps + 1)
    BY OpAssumption DEF Init
  <2> QED
    BY <2>1, <2>2 DEF Init, TypeOK
<1>2. TypeOK /\ [Next]_vars => TypeOK'
  <2> SUFFICES ASSUME TypeOK, [Next]_vars
               PROVE  TypeOK'
    OBVIOUS
  <2> USE DEF TypeOK
  <2>1. ASSUME NEW a \in Actor, Dispatch(a)
        PROVE  TypeOK'
    <3>1. next \in Op /\ next + 1 \in 1..(MaxOps + 1)
      BY <2>1, OpAssumption DEF Dispatch, Op
    <3> QED
      BY <2>1, <3>1 DEF Dispatch
  <2>2. ASSUME NEW a \in Actor, Notify(a)
        PROVE  TypeOK'
    BY <2>2 DEF Notify, Waiting, InState
  <2>3. ASSUME NEW a \in Actor, RemovePending(a)
        PROVE  TypeOK'
    BY <2>3 DEF RemovePending
  <2>4. ASSUME NEW t \in Worker, Take(t)
        PROVE  TypeOK'
    <3>1. Head(queue) \in Op /\ Tail(queue) \in Seq(Op)
      BY <2>4 DEF Take
    <3>2. Head(queue) # None
      BY <3>1, OpAssumption DEF Op
    <3> QED
      BY <2>4, <3>1, <3>2 DEF Take
  <2>5. ASSUME NEW t \in Worker, Wait(t) \/ FinishOp(t) \/ Exit(t) \/ SpuriousWakeup(t)
        PROVE  TypeOK'
    BY <2>5 DEF Wait, FinishOp, Exit, SpuriousWakeup
  <2>6. CASE SetQuit \/ Join
    BY <2>6 DEF SetQuit, Join
  <2>7. CASE NotifyAll
    BY <2>7 DEF NotifyAll, Waiting, InState
  <2>8. CASE UNCHANGED vars
    BY <2>8 DEF vars
  <2> QED
    BY <2>1, <2>2, <2>3, <2>4, <2>5, <2>6, <2>7, <2>8
       DEF Next, ActorStep, WorkerStep, Destructor, Terminated
<1> QED
  BY <1>1, <1>2, PTL DEF Spec
-----------------------------------------------------------------------------
(***************************************************************************)
(* No sleeper at the joins.  The strengthening says that the destructor    *)
(* sets quit before anything else: no thread goes to sleep after that, and *)
(* notify_all has woken the others.                                        *)
(***************************************************************************)
ShutdownInv == (quit <=> owner # "alive") /\ NoSleeperAtJoin

(* ~DispatchQueue never waits for a thread that nobody will wake. *)
THEOREM JoinIsAwake == Spec => []NoSleeperAtJoin
<1>1. Init => ShutdownInv
  BY DEF Init, ShutdownInv, NoSleeperAtJoin
<1>2. TypeOK /\ ShutdownInv /\ [Next]_vars => ShutdownInv'
  <2> SUFFICES ASSUME TypeOK, ShutdownInv, [Next]_vars
               PROVE  ShutdownInv'
    OBVIOUS
  <2> USE DEF TypeOK, ShutdownInv, NoSleeperAtJoin, Waiting, InState
  <2>1. ASSUME NEW a \in Actor, ActorStep(a)
        PROVE  ShutdownInv'
    BY <2>1 DEF ActorStep, Dispatch, Notify, RemovePending
  <2>2. ASSUME NEW t \in Worker, WorkerStep(t)
        PROVE  ShutdownInv'
    BY <2>2 DEF WorkerStep, Wait, Take, FinishOp, Exit, SpuriousWakeup
  <2>3. CASE Destructor
    BY <2>3 DEF Destructor, SetQuit, NotifyAll, Join
  <2>4. CASE UNCHANGED vars
    BY <2>4 DEF vars
  <2> QED
    BY <2>1, <2>2, <2>3, <2>4 DEF Next, Terminated
<1> QED
  BY <1>1, <1>2, TypeCorrect, PTL DEF Spec, ShutdownInv
-----------------------------------------------------------------------------
(* The sets WorkConserving counts are finite; a thread that changes state  *)
(* leaves one of them and may enter another.                               *)
LEMMA FiniteSets ==
  ASSUME TypeOK
  PROVE  /\ IsFiniteSet(Ready)
         /\ IsFiniteSet(notifying)
         /\ Cardinality(Ready) \in Nat
         /\ Cardinality(notifying) \in Nat
<1>1. IsFiniteSet(Ready)
  BY WorkerAssumption, FS_Subset DEF Ready, InState
<1>2. IsFiniteSet(Actor)
  BY WorkerAssumption, FS_Union DEF Actor
<1>3. IsFiniteSet(notifying)
  BY <1>2, FS_Subset DEF TypeOK
<1> QED
  BY <1>1, <1>3, FS_CardinalityType

LEMMA ReadyGrows ==
  ASSUME TypeOK, NEW t \in Worker, t \notin Ready,
         state' = [state EXCEPT ![t] = "ready"]
  PROVE  Cardinality(Ready') = Cardinality(Ready) + 1
<1>1. Ready' = Ready \cup {t}
  BY DEF TypeOK, Ready, InState
<1> QED
  BY <1>1, FiniteSets, FS_AddElement

LEMMA ReadyShrinks ==
  ASSUME TypeOK, NEW t \in Ready, NEW s \in {"waiting", "running", "exited"},
         state' = [state EXCEPT ![t] = s]
  PROVE  Cardinality(Ready') = Cardinality(Ready) - 1
<1>1. Ready' = Ready \ {t}
  BY DEF TypeOK, Ready, InState
<1> QED
  BY <1>1, FiniteSets, FS_RemoveElement

(***************************************************************************)
(* WorkConserving is inductive over the type invariant.  While somebody    *)
(* sleeps, a push adds one pending closure and one notifying thread,       *)
(* a notify_one turns a notifying thread into a ready one, and a take      *)
(* removes one closure and one ready thread; a thread goes to sleep only   *)
(* when nothing is pending.                                                *)
(***************************************************************************)
THEOREM NoLostWakeup == Spec => []WorkConserving
<1>1. Init => WorkConserving
  BY DEF Init, WorkConserving, Waiting, InState
<1>2. TypeOK /\ WorkConserving /\ [Next]_vars => WorkConserving'
  <2> SUFFICES ASSUME TypeOK, WorkConserving, [Next]_vars, ~quit', Waiting' # {}
               PROVE  Len(queue') <= Cardinality(Ready') + Cardinality(notifying')
    BY DEF WorkConserving
  <2> DEFINE Awake == Cardinality(Ready) + Cardinality(notifying)
  <2>f. /\ IsFiniteSet(Ready) /\ IsFiniteSet(notifying)
        /\ Cardinality(Ready) \in Nat /\ Cardinality(notifying) \in Nat
    BY FiniteSets
  <2>q. Len(queue) \in Nat
    BY DEF TypeOK
  <2>1. ASSUME NEW a \in Actor, Dispatch(a)
        PROVE  Len(queue') <= Cardinality(Ready') + Cardinality(notifying')
    <3>1. Ready' = Ready /\ Waiting' = Waiting
      BY <2>1 DEF Dispatch, Ready, Waiting, InState
    <3>2. Len(queue') = Len(queue) + 1
      BY <2>1, OpAssumption DEF Dispatch, TypeOK, Op
    <3>3. Cardinality(notifying') = Cardinality(notifying) + 1
      BY <2>1, <2>f, FS_AddElement DEF Dispatch, CanCall
    <3> QED
      BY <2>1, <2>f, <2>q, <3>1, <3>2, <3>3 DEF Dispatch, WorkConserving
  <2>2. ASSUME NEW a \in Actor, Notify(a)
        PROVE  Len(queue') <= Cardinality(Ready') + Cardinality(notifying')
    <3>1. Cardinality(notifying') = Cardinality(notifying) - 1
      BY <2>2, <2>f, FS_RemoveElement DEF Notify
    <3>2. Waiting # {}
      BY <2>2 DEF Notify, Waiting, InState
    <3>3. PICK t \in Waiting : state' = [state EXCEPT ![t] = "ready"]
      BY <2>2, <3>2 DEF Notify
    <3>4. Cardinality(Ready') = Cardinality(Ready) + 1
      BY <3>3, ReadyGrows DEF Waiting, Ready, InState
    <3> QED
      BY <2>2, <2>f, <2>q, <3>1, <3>2, <3>4 DEF Notify, WorkConserving
  <2>3. ASSUME NEW a \in Actor, RemovePending(a)
        PROVE  Len(queue') <= Cardinality(Ready') + Cardinality(notifying')
    BY <2>3, <2>f DEF RemovePending, Ready, InState
  <2>4. ASSUME NEW t \in Worker, Wait(t)
        PROVE  Len(queue') <= Cardinality(Ready') + Cardinality(notifying')
    <3>1. Cardinality(Ready') = Cardinality(Ready) - 1
      BY <2>4, ReadyShrinks DEF Wait, Ready, InState
    <3>2. t \in Ready
      BY <2>4 DEF Wait, Ready, InState
    <3>3. Cardinality(Ready) # 0
      BY <2>f, <3>2, FS_EmptySet
    <3> QED
      BY <2>4, <2>f, <3>1, <3>3 DEF Wait
  <2>5. ASSUME NEW t \in Worker, Take(t)
        PROVE  Len(queue') <= Cardinality(Ready') + Cardinality(notifying')
    <3>1. Cardinality(Ready') = Cardinality(Ready) - 1
      BY <2>5, ReadyShrinks DEF Take, Ready, InState
    <3>2. Len(queue') = Len(queue) - 1
      BY <2>5 DEF Take, TypeOK
    <3>3. Waiting # {}
      BY <2>5 DEF Take, Waiting, InState, TypeOK
    <3> QED
      BY <2>5, <2>f, <2>q, <3>1, <3>2, <3>3 DEF Take, WorkConserving
  <2>6. ASSUME NEW t \in Worker, FinishOp(t)
        PROVE  Len(queue') <= Cardinality(Ready') + Cardinality(notifying')
    <3>1. Cardinality(Ready') = Cardinality(Ready) + 1
      BY <2>6, ReadyGrows DEF FinishOp, Ready, InState
    <3>2. Waiting # {}
      BY <2>6 DEF FinishOp, Waiting, InState, TypeOK
    <3> QED
      BY <2>6, <2>f, <2>q, <3>1, <3>2 DEF FinishOp, WorkConserving
  <2>7. ASSUME NEW t \in Worker, SpuriousWakeup(t)
        PROVE  Len(queue') <= Cardinality(Ready') + Cardinality(notifying')
    <3>1. Cardinality(Ready') = Cardinality(Ready) + 1
      BY <2>7, ReadyGrows DEF SpuriousWakeup, Ready, InState
    <3>2. Waiting # {}
      BY <2>7 DEF SpuriousWakeup, Waiting, InState
    <3> QED
      BY <2>7, <2>f, <2>q, <3>1, <3>2 DEF SpuriousWakeup, WorkConserving
  <2>8. ASSUME NEW t \in Worker, Exit(t)
        PROVE  FALSE
    BY <2>8 DEF Exit
  <2>9. CASE SetQuit
    BY <2>9 DEF SetQuit
  <2>10. CASE NotifyAll
    BY <2>10 DEF NotifyAll, Waiting, InState, TypeOK
  <2>11. CASE Join \/ UNCHANGED vars
    BY <2>11 DEF Join, vars, WorkConserving, Waiting, Ready, InState
  <2> QED
    BY <2>1, <2>2, <2>3, <2>4, <2>5, <2>6, <2>7, <2>8, <2>9, <2>10, <2>11
       DEF Next, ActorStep, WorkerStep, Destructor, Terminated
<1> QED
  BY <1>1, <1>2, TypeCorrect, PTL DEF Spec
-----------------------------------------------------------------------------
(***************************************************************************)
(* Every behaviour of the queue is one of an executor (safety): closures   *)
(* are started in dispatch order, each at most once, none after quit.      *)
(***************************************************************************)
THEOREM RefinesExecutor == Spec => Abs!Spec
<1>1. Init => Abs!Init
  BY DEF Init, Abs!Init
<1>2. TypeOK /\ [Next]_vars => [Abs!Next]_(Abs!vars)
  <2> SUFFICES ASSUME TypeOK, [Next]_vars
               PROVE  Abs!Next \/ UNCHANGED Abs!vars
    OBVIOUS
  <2>1. ASSUME NEW a \in Actor, Dispatch(a)
        PROVE  Abs!Next
    <3>1. next \in Op
      BY <2>1, OpAssumption DEF Dispatch, TypeOK, Op
    <3>2. Abs!Submit(next)
      BY <2>1 DEF Dispatch, Abs!Submit
    <3> QED
      BY <3>1, <3>2 DEF Abs!Next
  <2>2. ASSUME NEW a \in Actor, RemovePending(a)
        PROVE  Abs!Next
    BY <2>2 DEF RemovePending, Abs!Clear, Abs!Next
  <2>3. ASSUME NEW t \in Worker, Take(t)
        PROVE  Abs!Next
    <3>1. op[t] = None
      BY <2>3 DEF Take, TypeOK
    <3>2. Abs!Take(t)
      BY <2>3, <3>1 DEF Take, Abs!Take
    <3> QED
      BY <3>2 DEF Abs!Next
  <2>4. ASSUME NEW t \in Worker, FinishOp(t)
        PROVE  Abs!Next
    <3>1. op[t] # None
      BY <2>4 DEF FinishOp, TypeOK
    <3>2. Abs!Finish(t)
      BY <2>4, <3>1 DEF FinishOp, Abs!Finish
    <3> QED
      BY <3>2 DEF Abs!Next
  <2>5. CASE SetQuit
    BY <2>5 DEF SetQuit, Abs!Close, Abs!Next
  <2>6. ASSUME NEW a \in Actor, Notify(a)
        PROVE  UNCHANGED Abs!vars
    BY <2>6 DEF Notify, Abs!vars
  <2>7. ASSUME NEW t \in Worker, Wait(t) \/ Exit(t) \/ SpuriousWakeup(t)
        PROVE  UNCHANGED Abs!vars
    BY <2>7 DEF Wait, Exit, SpuriousWakeup, Abs!vars
  <2>8. CASE NotifyAll \/ Join \/ UNCHANGED vars
    BY <2>8 DEF NotifyAll, Join, vars, Abs!vars
  <2> QED
    BY <2>1, <2>2, <2>3, <2>4, <2>5, <2>6, <2>7, <2>8
       DEF Next, ActorStep, WorkerStep, Destructor, Terminated
<1> QED
  BY <1>1, <1>2, TypeCorrect, PTL DEF Spec, Abs!Spec
=============================================================================
