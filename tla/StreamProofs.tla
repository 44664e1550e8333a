---------------------------- MODULE StreamProofs ----------------------------
(***************************************************************************)
(* Proofs about Stream, for any set of threads that start and stop it and  *)
(* any number of samples.                                                  *)
(***************************************************************************)
EXTENDS Stream, TLAPS

(* Everything TypeOK says of the samples follows from this. *)
LEMMA NextSample ==
  ASSUME NEW n \in -1 .. NumSamples - 1
  PROVE  (n + 1) % NumSamples \in 0 .. NumSamples - 1
BY NumSamplesAssumption

(* The number of closures: a push adds one, a pop removes one. *)
LEMMA PendingLength ==
  ASSUME TypeOK
  PROVE  /\ Len(pending) \in Nat
         /\ (pending = <<>>) <=> (Len(pending) = 0)
         /\ Len(Append(pending, "sendSample")) = Len(pending) + 1
         /\ Append(pending, "sendSample") \in Seq({"sendSample"})
         /\ pending # <<>> => /\ Head(pending) = "sendSample"
                              /\ Tail(pending) \in Seq({"sendSample"})
                              /\ Len(Tail(pending)) = Len(pending) - 1
<1>1. pending \in Seq({"sendSample"})
  BY DEF TypeOK
<1>2. pending # <<>> => Head(pending) \in {"sendSample"}
  BY <1>1
<1> QED
  BY <1>1, <1>2

(* The type invariant of stream.hpp's members and of the source's. *)
THEOREM TypeCorrect == Spec => []TypeOK
<1>1. Init => TypeOK
  <2> SUFFICES ASSUME Init
               PROVE  TypeOK
    OBVIOUS
  <2>1. -1 \in -1 .. NumSamples - 1
    BY NumSamplesAssumption
  <2>2. pending \in Seq({"sendSample"})
    BY DEF Init, Queue!Init
  <2>3. running \in [{Thread} -> {"sendSample", "nothing"}]
    BY DEF Init, Queue!Init
  <2> QED
    BY <2>1, <2>2, <2>3 DEF Init, TypeOK
<1>2. TypeOK /\ [Next]_vars => TypeOK'
  <2> SUFFICES ASSUME TypeOK, [Next]_vars
               PROVE  TypeOK'
    OBVIOUS
  <2> USE DEF TypeOK, sourceVars, queueVars
  <2>n. 0 .. NumSamples - 1 \subseteq -1 .. NumSamples - 1 /\ -1 \in -1 .. NumSamples - 1
    BY NumSamplesAssumption
  <2>1. ASSUME NEW c \in Caller, NEW m \in {"start", "stop"}, Call(c, m)
        PROVE  TypeOK'
    BY <2>1 DEF Call
  <2>2. ASSUME NEW c \in Caller, Start(c)
        PROVE  TypeOK'
    <3>1. pending' \in Seq({"sendSample"})
      BY <2>2, PendingLength DEF Start, Queue!Submit
    <3>2. counter' \in -1 .. NumSamples - 1 /\ sample' \in -1 .. NumSamples - 1
      BY <2>2, <2>n, NextSample DEF Start, SourceStart, LoadNextSample
    <3> QED
      BY <2>2, <3>1, <3>2 DEF Start, Return, Queue!Submit
  <2>3. ASSUME NEW c \in Caller, Stop(c)
        PROVE  TypeOK'
    <3>1. pending' \in Seq({"sendSample"})
      BY <2>3 DEF Stop, Queue!Clear
    <3> QED
      BY <2>3, <2>n, <3>1 DEF Stop, SourceStop, Return, Queue!Clear
  <2>4. ASSUME NEW c \in Caller, StartRunning(c) \/ StopStopped(c)
        PROVE  TypeOK'
    BY <2>4 DEF StartRunning, StopStopped, Return
  <2>5. CASE TakeOp
    <3>1. Head(pending) = "sendSample" /\ Tail(pending) \in Seq({"sendSample"})
      BY <2>5, PendingLength DEF TakeOp, Queue!Take
    <3> QED
      BY <2>5, <3>1 DEF TakeOp, Queue!Take
  <2>6. CASE GiveUp \/ Lock \/ Handle
    BY <2>6 DEF GiveUp, Lock, Handle
  <2>7. CASE Load
    BY <2>7, <2>n, NextSample DEF Load, LoadNextSample
  <2>8. CASE DispatchNext
    BY <2>8, PendingLength DEF DispatchNext, Queue!Submit
  <2>9. CASE ReturnFromOp
    BY <2>9 DEF ReturnFromOp, Queue!Finish
  <2>10. CASE UNCHANGED vars
    BY <2>10 DEF vars
  <2> QED
    BY <2>1, <2>2, <2>3, <2>4, <2>5, <2>6, <2>7, <2>8, <2>9, <2>10
       DEF Next, Enter, SendSample
<1> QED
  BY <1>1, <1>2, PTL DEF Spec
-----------------------------------------------------------------------------
(***************************************************************************)
(* The chain of sendSample operations.  The strengthening says who holds   *)
(* the mutex when, that the sample loaded is the one after the sample that *)
(* was handed out last (except between the handler and loadNextSample),    *)
(* and that a stream at rest has forgotten both.                           *)
(***************************************************************************)
AtRest ==
    /\ pending = <<>>
    /\ MutexFree
    /\ sample = -1
    /\ handed = -1

InOrder == sample = IF pc = "load" THEN handed ELSE (handed + 1) % NumSamples

ChainInv ==
    /\ pc # "lock" => InSendSample
    /\ ~isRunning => AtRest
    /\ isRunning => Chains \in {1, 2} /\ InOrder
    /\ sample = counter

LEMMA ChainInductive == Spec => []ChainInv
<1>1. Init => ChainInv
  BY DEF Init, Queue!Init, ChainInv, AtRest, MutexFree
<1>2. TypeOK /\ ChainInv /\ [Next]_vars => ChainInv'
  <2> SUFFICES ASSUME TypeOK, ChainInv, [Next]_vars
               PROVE  ChainInv'
    OBVIOUS
  <2> USE DEF ChainInv, AtRest, InOrder, MutexFree, InSendSample, Chains,
              sourceVars, queueVars
  <2>l. Len(pending) \in Nat /\ Len(Append(pending, "sendSample")) = Len(pending) + 1
    BY PendingLength
  <2>1. ASSUME NEW c \in Caller, NEW m \in {"start", "stop"}, Call(c, m)
        PROVE  ChainInv'
    BY <2>1 DEF Call
  <2>2. ASSUME NEW c \in Caller, Start(c)
        PROVE  ChainInv'
    <3>1. Len(pending') = 1
      BY <2>2, <2>l DEF Start, Queue!Submit
    <3>2. Chains' \in {1, 2}
      BY <2>2, <3>1 DEF Start, Queue!Submit
    <3>3. sample' = (handed + 1) % NumSamples /\ counter' = sample'
      BY <2>2 DEF Start, SourceStart, LoadNextSample
    <3> QED
      BY <2>2, <3>2, <3>3 DEF Start, Queue!Submit
  <2>3. ASSUME NEW c \in Caller, Stop(c)
        PROVE  ChainInv'
    BY <2>3 DEF Stop, SourceStop, Queue!Clear
  <2>4. ASSUME NEW c \in Caller, StartRunning(c) \/ StopStopped(c)
        PROVE  ChainInv'
    BY <2>4 DEF StartRunning, StopStopped
  <2>5. CASE TakeOp
    <3>1. isRunning /\ running[Thread] = "nothing" /\ pc = "lock"
      BY <2>5 DEF TakeOp, Queue!Take
    <3>2. Len(pending') = Len(pending) - 1
      BY <2>5, PendingLength DEF TakeOp, Queue!Take
    <3>3. running'[Thread] = "sendSample"
      BY <2>5, PendingLength DEF TakeOp, Queue!Take, TypeOK
    <3> QED
      BY <2>5, <2>l, <3>1, <3>2, <3>3 DEF TakeOp
  <2>6. CASE GiveUp
    BY <2>6 DEF GiveUp
  <2>7. CASE Lock
    BY <2>7 DEF Lock
  <2>8. CASE Handle
    BY <2>8 DEF Handle
  <2>9. CASE Load
    <3>1. isRunning /\ sample = handed
      BY <2>9 DEF Load
    <3>2. sample' = (handed + 1) % NumSamples /\ counter' = sample'
      BY <2>9, <3>1 DEF Load, LoadNextSample
    <3> QED
      BY <2>9, <3>1, <3>2 DEF Load
  <2>10. CASE DispatchNext
    BY <2>10, <2>l DEF DispatchNext, Queue!Submit
  <2>11. CASE ReturnFromOp
    <3>1. running'[Thread] = "nothing"
      BY <2>11 DEF ReturnFromOp, Queue!Finish, TypeOK
    <3> QED
      BY <2>11, <2>l, <3>1 DEF ReturnFromOp, Queue!Finish
  <2>12. CASE UNCHANGED vars
    BY <2>12 DEF vars
  <2> QED
    BY <2>1, <2>2, <2>3, <2>4, <2>5, <2>6, <2>7, <2>8, <2>9, <2>10, <2>11, <2>12
       DEF Next, Enter, SendSample
<1> QED
  BY <1>1, <1>2, TypeCorrect, PTL DEF Spec

(* Stopping and starting again never leaves more than two chains. *)
THEOREM AtMostTwoChains == Spec => []ChainsBounded
<1>1. ChainInv /\ TypeOK => ChainsBounded
  <2> SUFFICES ASSUME ChainInv, TypeOK
               PROVE  ChainsBounded
    OBVIOUS
  <2>1. CASE isRunning
    BY <2>1 DEF ChainInv, ChainsBounded
  <2>2. CASE ~isRunning
    BY <2>2 DEF ChainInv, AtRest, Chains, ChainsBounded
  <2> QED
    BY <2>1, <2>2
<1> QED
  BY <1>1, ChainInductive, TypeCorrect, PTL

(* A running stream has a sendSample to continue with. *)
THEOREM RunningStreamHasAChain == Spec => []ChainAlive
<1>1. ChainInv => ChainAlive
  BY DEF ChainInv, ChainAlive
<1> QED
  BY <1>1, ChainInductive, PTL

(* A stopped stream is at rest. *)
THEOREM StoppedStreamIsQuiet == Spec => []StoppedIsQuiet
<1>1. ChainInv => StoppedIsQuiet
  BY DEF ChainInv, AtRest, StoppedIsQuiet
<1> QED
  BY <1>1, ChainInductive, PTL
-----------------------------------------------------------------------------
(***************************************************************************)
(* Every behaviour of the stream is one of a player (safety): the samples  *)
(* are handed out in order, from the first one on after each start, and    *)
(* none while the stream is stopped.                                       *)
(***************************************************************************)
THEOREM RefinesPlayer == Spec => Play!Spec
<1>1. Init => Play!Init
  BY DEF Init, Play!Init
<1>2. ChainInv /\ [Next]_vars => [Play!Next]_(Play!vars)
  <2> SUFFICES ASSUME ChainInv, [Next]_vars
               PROVE  Play!Next \/ UNCHANGED Play!vars
    OBVIOUS
  <2> USE DEF sourceVars, queueVars
  <2>1. ASSUME NEW c \in Caller, Start(c)
        PROVE  Play!Start
    BY <2>1 DEF Start, Play!Start
  <2>2. ASSUME NEW c \in Caller, Stop(c)
        PROVE  Play!Stop
    BY <2>2 DEF Stop, Play!Stop
  <2>3. CASE Handle
    <3>1. isRunning /\ sample = (handed + 1) % NumSamples
      BY <2>3 DEF Handle, ChainInv, AtRest, MutexFree, InOrder
    <3>2. Play!Emit
      BY <2>3, <3>1 DEF Handle, Play!Emit
    <3> QED
      BY <3>2 DEF Play!Next
  <2>4. ASSUME NEW c \in Caller, StartRunning(c) \/ StopStopped(c)
        PROVE  UNCHANGED Play!vars
    BY <2>4 DEF StartRunning, StopStopped, Play!vars
  <2>5. ASSUME NEW c \in Caller, NEW m \in {"start", "stop"}, Call(c, m)
        PROVE  UNCHANGED Play!vars
    BY <2>5 DEF Call, Play!vars
  <2>6. CASE TakeOp \/ GiveUp \/ Lock
    BY <2>6 DEF TakeOp, GiveUp, Lock, Play!vars
  <2>7. CASE Load \/ DispatchNext \/ ReturnFromOp
    BY <2>7 DEF Load, DispatchNext, ReturnFromOp, Play!vars
  <2>8. CASE UNCHANGED vars
    BY <2>8 DEF vars, Play!vars
  <2> QED
    BY <2>1, <2>2, <2>3, <2>4, <2>5, <2>6, <2>7, <2>8
       DEF Next, Enter, SendSample, Play!Next
<1> QED
  BY <1>1, <1>2, ChainInductive, PTL DEF Spec, Play!Spec
-----------------------------------------------------------------------------
(***************************************************************************)
(* The stream uses its source as it is meant to be used: start when it is  *)
(* stopped, loadNextSample and stop when it is started, also while two     *)
(* chains of sendSample are at work.                                       *)
(***************************************************************************)
THEOREM UsesSourceWell == Spec => UsesSource
<1>1. Init => Src!Init
  BY DEF Init, Src!Init
<1>2. ChainInv /\ [Next]_vars => [Src!Next]_(Src!vars)
  <2> SUFFICES ASSUME ChainInv, [Next]_vars
               PROVE  Src!Next \/ UNCHANGED Src!vars
    OBVIOUS
  <2> USE DEF sourceVars, queueVars
  <2>1. ASSUME NEW c \in Caller, Start(c)
        PROVE  Src!Start
    <3>1. ~isRunning /\ isRunning' /\ sample' = (counter + 1) % NumSamples /\ counter = -1
      BY <2>1 DEF Start, SourceStart, LoadNextSample, ChainInv, AtRest
    <3>2. sample' = 0
      BY <3>1, NumSamplesAssumption
    <3> QED
      BY <2>1, <3>1, <3>2 DEF Start, Src!Start
  <2>2. ASSUME NEW c \in Caller, Stop(c)
        PROVE  Src!Stop
    BY <2>2 DEF Stop, SourceStop, Src!Stop
  <2>3. CASE Load
    <3>1. isRunning /\ counter = sample
      BY <2>3 DEF Load, ChainInv, AtRest, MutexFree, InOrder
    <3>2. sample' = (sample + 1) % NumSamples /\ UNCHANGED isRunning
      BY <2>3, <3>1 DEF Load, LoadNextSample
    <3>3. 0 = (0 + 0) % 1
      OBVIOUS
    <3>4. Src!Load
      BY <3>1, <3>2, <3>3 DEF Src!Load
    <3> QED
      BY <3>4 DEF Src!Next
  <2>4. ASSUME NEW c \in Caller, StartRunning(c) \/ StopStopped(c)
        PROVE  UNCHANGED Src!vars
    BY <2>4 DEF StartRunning, StopStopped, Src!vars
  <2>5. ASSUME NEW c \in Caller, NEW m \in {"start", "stop"}, Call(c, m)
        PROVE  UNCHANGED Src!vars
    BY <2>5 DEF Call, Src!vars
  <2>6. CASE TakeOp \/ GiveUp \/ Lock
    BY <2>6 DEF TakeOp, GiveUp, Lock, Src!vars
  <2>7. CASE Handle \/ DispatchNext \/ ReturnFromOp
    BY <2>7 DEF Handle, DispatchNext, ReturnFromOp, Src!vars
  <2>8. CASE UNCHANGED vars
    BY <2>8 DEF vars, Src!vars
  <2> QED
    BY <2>1, <2>2, <2>3, <2>4, <2>5, <2>6, <2>7, <2>8
       DEF Next, Enter, SendSample, Src!Next
<1> QED
  BY <1>1, <1>2, ChainInductive, PTL DEF Spec, UsesSource, Src!Spec
=============================================================================
