---------------------------- MODULE DispatchQueue ----------------------------
(***************************************************************************)
(* DispatchQueue (src/dispatchqueue.hpp, src/dispatchqueue.cpp): a FIFO of *)
(* closures, the threads that execute them, one mutex and one condition    *)
(* variable.  The program has one for the main thread, one per Stream and  *)
(* one per RtspParser.                                                     *)
(*                                                                         *)
(* Every access to queue and quit is made with lockMutex held and no       *)
(* critical section blocks, so a critical section is one action; what      *)
(* happens outside of it is an action of its own: the notification of      *)
(* dispatch (made after the unlock), the execution of an operation, the    *)
(* notification and the joins of the destructor.  A thread blocked in      *)
(* condition.wait is in state "waiting"; once notified it is "ready", that *)
(* is, about to evaluate the predicate with the mutex held.                *)
(*                                                                         *)
(* The closures are numbered in the order they are dispatched.             *)
(***************************************************************************)
EXTENDS Naturals, Sequences, FiniteSets

CONSTANTS Worker,   \* the threads of the queue (threadCount of them)
          Caller,   \* the threads that use the queue from outside
          MaxOps,   \* bound: how many operations are dispatched
          None      \* "this thread executes nothing"

ASSUME WorkerAssumption ==
    /\ IsFiniteSet(Worker)
    /\ IsFiniteSet(Caller)
    /\ Worker \cap Caller = {}

ASSUME OpAssumption == MaxOps \in Nat /\ None \notin 1..MaxOps

VARIABLES queue,      \* DispatchQueue::queue
          quit,       \* DispatchQueue::quit
          state,      \* where each worker is in dispatchThreadHandler
          op,         \* the local variable op of each worker
          notifying,  \* threads between queue.push and notify_one of dispatch
          owner,      \* how far ~DispatchQueue has got
          next        \* number of the next closure

vars == <<queue, quit, state, op, notifying, owner, next>>

Op == 1..MaxOps
Actor == Worker \cup Caller

InState(s) == {t \in Worker : state[t] = s}
Waiting == InState("waiting")
Ready == InState("ready")

\* A thread has a closure exactly while it executes it: the local variable op
\* of the handler ends with the block it is declared in.
TypeOK ==
    /\ queue \in Seq(Op)
    /\ quit \in BOOLEAN
    /\ state \in [Worker -> {"ready", "waiting", "running", "exited"}]
    /\ op \in [Worker -> Op \cup {None}]
    /\ \A t \in Worker : state[t] = "running" <=> op[t] # None
    /\ notifying \subseteq Actor
    /\ owner \in {"alive", "quitting", "joining", "destroyed"}
    /\ next \in 1..(MaxOps + 1)

\* The constructor: the threads are created last, when every member is set.
Init ==
    /\ queue = <<>>
    /\ quit = FALSE
    /\ state = [t \in Worker |-> "ready"]
    /\ op = [t \in Worker |-> None]
    /\ notifying = {}
    /\ owner = "alive"
    /\ next = 1
-----------------------------------------------------------------------------
(***************************************************************************)
(* The operations.  They are called by the outside threads and by the      *)
(* operations themselves, which run on the workers (sendSample dispatches  *)
(* the next sendSample).                                                   *)
(***************************************************************************)
CanCall(a) ==
    /\ owner # "destroyed"
    /\ a \notin notifying
    /\ a \in Worker => state[a] = "running"

\* Mutated form: dispatch notifies only when the queue was empty.
DispatchNotifyIfEmpty(a) ==
    /\ CanCall(a)
    /\ next <= MaxOps
    /\ queue' = Append(queue, next)
    /\ next' = next + 1
    /\ notifying' = IF queue = <<>> THEN notifying \cup {a} ELSE notifying
    /\ UNCHANGED <<quit, state, op, owner>>

\* dispatch, up to lock.unlock()
Dispatch(a) ==
    /\ CanCall(a)
    /\ next <= MaxOps
    /\ queue' = Append(queue, next)
    /\ next' = next + 1
    /\ notifying' = notifying \cup {a}
    /\ UNCHANGED <<quit, state, op, owner>>

\* dispatch, condition.notify_one(): some waiting thread, when there is one
Notify(a) ==
    /\ a \in notifying
    /\ notifying' = notifying \ {a}
    /\ \/ \E t \in Waiting : state' = [state EXCEPT ![t] = "ready"]
       \/ Waiting = {} /\ UNCHANGED state
    /\ UNCHANGED <<queue, quit, op, owner, next>>

RemovePending(a) ==
    /\ CanCall(a)
    /\ queue' = <<>>
    /\ UNCHANGED <<quit, state, op, notifying, owner, next>>
-----------------------------------------------------------------------------
(***************************************************************************)
(* dispatchThreadHandler.                                                  *)
(***************************************************************************)

\* the predicate is false: condition.wait blocks and releases the mutex
Wait(t) ==
    /\ state[t] = "ready"
    /\ queue = <<>> /\ ~quit
    /\ state' = [state EXCEPT ![t] = "waiting"]
    /\ UNCHANGED <<queue, quit, op, notifying, owner, next>>

\* Mutated form: the closure is copied from the front but never popped.
TakeWithoutPop(t) ==
    /\ state[t] = "ready"
    /\ queue # <<>> /\ ~quit
    /\ op' = [op EXCEPT ![t] = Head(queue)]
    /\ state' = [state EXCEPT ![t] = "running"]
    /\ UNCHANGED <<queue, quit, notifying, owner, next>>

\* there is work: the front closure is moved out and the mutex is released
Take(t) ==
    /\ state[t] = "ready"
    /\ queue # <<>> /\ ~quit
    /\ op' = [op EXCEPT ![t] = Head(queue)]
    /\ queue' = Tail(queue)
    /\ state' = [state EXCEPT ![t] = "running"]
    /\ UNCHANGED <<quit, notifying, owner, next>>

\* Mutated form: the closure outlives the block it is executed in.
FinishOpKeepsClosure(t) ==
    /\ state[t] = "running"
    /\ t \notin notifying
    /\ state' = [state EXCEPT ![t] = "ready"]
    /\ UNCHANGED <<queue, quit, op, notifying, owner, next>>

\* op() returns and the thread locks the mutex again
FinishOp(t) ==
    /\ state[t] = "running"
    /\ t \notin notifying
    /\ op' = [op EXCEPT ![t] = None]
    /\ state' = [state EXCEPT ![t] = "ready"]
    /\ UNCHANGED <<queue, quit, notifying, owner, next>>

\* while (!quit) fails: the thread function returns
Exit(t) ==
    /\ state[t] = "ready"
    /\ quit
    /\ state' = [state EXCEPT ![t] = "exited"]
    /\ UNCHANGED <<queue, quit, op, notifying, owner, next>>

\* condition.wait may return without a notification
SpuriousWakeup(t) ==
    /\ state[t] = "waiting"
    /\ state' = [state EXCEPT ![t] = "ready"]
    /\ UNCHANGED <<queue, quit, op, notifying, owner, next>>
-----------------------------------------------------------------------------
(***************************************************************************)
(* ~DispatchQueue.                                                         *)
(***************************************************************************)
SetQuit ==
    /\ owner = "alive"
    /\ owner' = "quitting"
    /\ quit' = TRUE
    /\ UNCHANGED <<queue, state, op, notifying, next>>

\* Mutated form: notify_one where every thread has to be woken.
NotifyOneQuit ==
    /\ owner = "quitting"
    /\ owner' = "joining"
    /\ \/ \E t \in Waiting : state' = [state EXCEPT ![t] = "ready"]
       \/ Waiting = {} /\ UNCHANGED state
    /\ UNCHANGED <<queue, quit, op, notifying, next>>

NotifyAll ==
    /\ owner = "quitting"
    /\ owner' = "joining"
    /\ state' = [t \in Worker |-> IF t \in Waiting THEN "ready" ELSE state[t]]
    /\ UNCHANGED <<queue, quit, op, notifying, next>>

Join ==
    /\ owner = "joining"
    /\ \A t \in Worker : state[t] = "exited"
    /\ owner' = "destroyed"
    /\ UNCHANGED <<queue, quit, state, op, notifying, next>>

Destructor == SetQuit \/ NotifyAll \/ Join

\* The queue is gone: nothing more happens to it.
Terminated == owner = "destroyed" /\ UNCHANGED vars
-----------------------------------------------------------------------------
WorkerStep(t) ==
    Wait(t) \/ Take(t) \/ FinishOp(t) \/ Exit(t) \/ SpuriousWakeup(t)

ActorStep(a) == Dispatch(a) \/ Notify(a) \/ RemovePending(a)

Next ==
    \/ \E a \in Actor : ActorStep(a)
    \/ \E t \in Worker : WorkerStep(t)
    \/ Destructor
    \/ Terminated

Spec == Init /\ [][Next]_vars

(***************************************************************************)
(* What the scheduler gives: a thread that can go on does so, and every    *)
(* operation that was started returns.  Nothing is assumed of lockMutex    *)
(* beyond this (no critical section depends on another one), nor that the  *)
(* queue is ever used or destroyed.                                        *)
(***************************************************************************)
Fairness ==
    /\ \A t \in Worker : WF_vars(Wait(t) \/ Take(t) \/ Exit(t)) /\ WF_vars(FinishOp(t))
    /\ \A a \in Actor : WF_vars(Notify(a))
    /\ WF_vars(NotifyAll \/ Join)

FairSpec == Spec /\ Fairness
-----------------------------------------------------------------------------
(***************************************************************************)
(* dispatch wakes one thread per closure (notify_one), never all of them.  *)
(* That is enough: as long as a thread sleeps, every pending closure has a *)
(* thread of its own that is about to look at the queue, or a dispatch     *)
(* that is about to wake one.  So no wake-up is lost, and no closure waits *)
(* for a busy thread while an idle one sleeps.                             *)
(***************************************************************************)
WorkConserving ==
    ~quit /\ Waiting # {} =>
        Len(queue) <= Cardinality(Ready) + Cardinality(notifying)

(***************************************************************************)
(* Once ~DispatchQueue starts to join its threads none of them sleeps on   *)
(* the condition variable: nobody would wake it again.                     *)
(***************************************************************************)
NoSleeperAtJoin == owner \in {"joining", "destroyed"} => Waiting = {}

(***************************************************************************)
(* ~DispatchQueue returns, whatever its threads were doing when it was     *)
(* called and whatever is still dispatched to it, provided the operations  *)
(* that were started return.                                               *)
(***************************************************************************)
DestructorReturns == (owner = "quitting") ~> (owner = "destroyed")

(***************************************************************************)
(* The queue is an executor: closures are started in the order they were   *)
(* dispatched, each at most once, none after quit; and an idle thread with *)
(* something pending does start it.                                        *)
(***************************************************************************)
Abs == INSTANCE Executor WITH pending <- queue, running <- op, closed <- quit

ImplementsExecutor == Abs!FairSpec
=============================================================================
