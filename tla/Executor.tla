------------------------------ MODULE Executor ------------------------------
(***************************************************************************)
(* What a DispatchQueue (src/dispatchqueue.hpp) promises to the code that  *)
(* uses it, with no mutex, condition variable or thread state in sight:    *)
(* operations are started in the order they were submitted, each at most   *)
(* once, at most one at a time per worker; removePending forgets those     *)
(* that were not started; a closed executor starts nothing any more.       *)
(*                                                                         *)
(* DispatchQueue implements this module; Stream is built on its actions,   *)
(* with FALSE for closed (hence closed' = closed where one would otherwise *)
(* write UNCHANGED, which TLC evaluates for variables only).               *)
(***************************************************************************)
EXTENDS Naturals, Sequences

CONSTANTS Worker,   \* the threads of the executor
          Op,       \* the operations that can be submitted
          None      \* "this worker runs nothing"

VARIABLES pending,  \* submitted operations that were not started, oldest first
          running,  \* the operation each worker is executing
          closed    \* the executor is being destroyed

vars == <<pending, running, closed>>

TypeOK ==
    /\ pending \in Seq(Op)
    /\ running \in [Worker -> Op \cup {None}]
    /\ closed \in BOOLEAN

Init ==
    /\ pending = <<>>
    /\ running = [w \in Worker |-> None]
    /\ closed = FALSE

Submit(o) ==
    /\ pending' = Append(pending, o)
    /\ UNCHANGED running
    /\ closed' = closed

Take(w) ==
    /\ ~closed
    /\ running[w] = None
    /\ pending # <<>>
    /\ running' = [running EXCEPT ![w] = Head(pending)]
    /\ pending' = Tail(pending)
    /\ closed' = closed

Finish(w) ==
    /\ running[w] # None
    /\ running' = [running EXCEPT ![w] = None]
    /\ UNCHANGED pending
    /\ closed' = closed

Clear ==
    /\ pending' = <<>>
    /\ UNCHANGED running
    /\ closed' = closed

Close ==
    /\ closed' = TRUE
    /\ UNCHANGED <<pending, running>>

Next ==
    \/ \E o \in Op : Submit(o)
    \/ \E w \in Worker : Take(w) \/ Finish(w)
    \/ Clear
    \/ Close

Spec == Init /\ [][Next]_vars

(***************************************************************************)
(* The executor does not sit on work: when a worker is idle and something  *)
(* is pending, something is taken; an operation that is running ends.      *)
(***************************************************************************)
Fairness ==
    /\ WF_vars(\E w \in Worker : Take(w))
    /\ \A w \in Worker : WF_vars(Finish(w))

FairSpec == Spec /\ Fairness
=============================================================================
