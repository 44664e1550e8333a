------------------------------- MODULE Stream -------------------------------
(***************************************************************************)
(* Stream (src/stream.hpp, src/stream.cpp) over a looping file source      *)
(* (src/fileparser.cpp): the threads that call start and stop, the mutex,  *)
(* and the chain of sendSample operations on the stream's own              *)
(* DispatchQueue, each of which dispatches its successor.                  *)
(*                                                                         *)
(* The queue is used through the actions of Executor, which DispatchQueue  *)
(* implements, with one worker.  sendSample holds the mutex across several *)
(* steps; the critical sections of start and stop contain no step that     *)
(* waits for another thread, so each is one action, enabled when the mutex *)
(* is free.                                                                *)
(*                                                                         *)
(* A sample is its number.  The times of samples are left to the source.   *)
(***************************************************************************)
EXTENDS Integers, Sequences

CONSTANTS Caller,      \* the threads that call start and stop
          NumSamples   \* sample-0 .. sample-(NumSamples - 1) exist on disk

ASSUME NumSamplesAssumption == NumSamples \in Nat \ {0}

VARIABLES isRunning,   \* Stream::_isRunning
          calling,     \* what each caller waits for the mutex to do
          pending,     \* Stream::dispatchQueue: the closures that were not started
          running,     \* what the thread of that queue executes
          pc,          \* where sendSample is
          sample,      \* FileParser: number of the loaded sample, -1 when there is none
          counter,     \* FileParser::counter; uint32_t(-1) is -1 here
          handed       \* number of the sample handed out last since start, or -1

vars == <<isRunning, calling, pending, running, pc, sample, counter, handed>>

sourceVars == <<sample, counter>>

\* The thread of Stream::dispatchQueue.
Thread == "StreamQueue"

Queue == INSTANCE Executor WITH
            Worker <- {Thread}, Op <- {"sendSample"}, None <- "nothing", closed <- FALSE

queueVars == <<pending, running>>

\* The mutex is held by a sendSample that has found the stream running, from
\* its test of isRunning to the dispatch of its successor.
MutexFree == pc \in {"lock", "return"}

TypeOK ==
    /\ isRunning \in BOOLEAN
    /\ calling \in [Caller -> {"nothing", "start", "stop"}]
    /\ pending \in Seq({"sendSample"})
    /\ running \in [{Thread} -> {"sendSample", "nothing"}]
    /\ pc \in {"lock", "handle", "load", "dispatch", "return"}
    /\ sample \in -1 .. NumSamples - 1
    /\ counter \in -1 .. NumSamples - 1
    /\ handed \in -1 .. NumSamples - 1

Init ==
    /\ isRunning = FALSE
    /\ calling = [c \in Caller |-> "nothing"]
    /\ Queue!Init
    /\ pc = "lock"
    /\ sample = -1
    /\ counter = -1
    /\ handed = -1
-----------------------------------------------------------------------------
(***************************************************************************)
(* The source: FileParser::loadNextSample, start and stop.  After the last *)
(* file the loop begins anew with sample-0.                                *)
(***************************************************************************)
\* Mutated form: the file after the last one is taken for a sample.
LoadPastTheEnd ==
    /\ counter' = (counter + 1) % (NumSamples + 1)
    /\ sample' = counter'

LoadNextSample ==
    /\ counter' = (counter + 1) % NumSamples
    /\ sample' = counter'

SourceStart == LoadNextSample

\* Mutated form: the source forgets its sample but not its position.
SourceStopKeepsCounter ==
    /\ sample' = -1
    /\ UNCHANGED counter

SourceStop ==
    /\ sample' = -1
    /\ counter' = -1
-----------------------------------------------------------------------------
(***************************************************************************)
(* start and stop, called by any thread.                                   *)
(***************************************************************************)
Call(c, m) ==
    /\ calling[c] = "nothing"
    /\ calling' = [calling EXCEPT ![c] = m]
    /\ UNCHANGED <<isRunning, queueVars, pc, sourceVars, handed>>

Return(c) == calling' = [calling EXCEPT ![c] = "nothing"]

\* Mutated form: no sendSample is dispatched.
StartWithoutDispatch(c) ==
    /\ calling[c] = "start"
    /\ MutexFree
    /\ ~isRunning
    /\ isRunning' = TRUE
    /\ SourceStart
    /\ Return(c)
    /\ UNCHANGED <<queueVars, pc, handed>>

Start(c) ==
    /\ calling[c] = "start"
    /\ MutexFree
    /\ ~isRunning
    /\ isRunning' = TRUE
    /\ SourceStart
    /\ Queue!Submit("sendSample")
    /\ Return(c)
    /\ UNCHANGED <<pc, handed>>

StartRunning(c) ==
    /\ calling[c] = "start"
    /\ MutexFree
    /\ isRunning
    /\ Return(c)
    /\ UNCHANGED <<isRunning, queueVars, pc, sourceVars, handed>>

\* Mutated form: what is pending stays pending.
StopKeepsPending(c) ==
    /\ calling[c] = "stop"
    /\ MutexFree
    /\ isRunning
    /\ isRunning' = FALSE
    /\ SourceStop
    /\ handed' = -1
    /\ Return(c)
    /\ UNCHANGED <<queueVars, pc>>

\* Mutated form: the mutex is not taken.
StopWithoutMutex(c) ==
    /\ calling[c] = "stop"
    /\ isRunning
    /\ isRunning' = FALSE
    /\ Queue!Clear
    /\ SourceStop
    /\ handed' = -1
    /\ Return(c)
    /\ UNCHANGED pc

\* stop; the audio source was never started, so stopping it changes nothing
Stop(c) ==
    /\ calling[c] = "stop"
    /\ MutexFree
    /\ isRunning
    /\ isRunning' = FALSE
    /\ Queue!Clear
    /\ SourceStop
    /\ handed' = -1
    /\ Return(c)
    /\ UNCHANGED pc

StopStopped(c) ==
    /\ calling[c] = "stop"
    /\ MutexFree
    /\ ~isRunning
    /\ Return(c)
    /\ UNCHANGED <<isRunning, queueVars, pc, sourceVars, handed>>
-----------------------------------------------------------------------------
(***************************************************************************)
(* The thread of the queue: sendSample.                                    *)
(***************************************************************************)
TakeOp ==
    /\ Queue!Take(Thread)
    /\ UNCHANGED <<isRunning, calling, pc, sourceVars, handed>>

InSendSample == running[Thread] = "sendSample"

\* sendSample gets the mutex and finds the stream stopped
GiveUp ==
    /\ InSendSample /\ pc = "lock"
    /\ ~isRunning
    /\ pc' = "return"
    /\ UNCHANGED <<isRunning, calling, queueVars, sourceVars, handed>>

\* sendSample gets the mutex and finds the stream running
Lock ==
    /\ InSendSample /\ pc = "lock"
    /\ isRunning
    /\ pc' = "handle"
    /\ UNCHANGED <<isRunning, calling, queueVars, sourceVars, handed>>

\* unsafePrepareForSample always chooses the video source, and the handler
\* gets its sample
Handle ==
    /\ pc = "handle"
    /\ handed' = sample
    /\ pc' = "load"
    /\ UNCHANGED <<isRunning, calling, queueVars, sourceVars>>

\* Mutated form: at its last sample the source waits for another one, with
\* the mutex of the stream held.
LoadWaitsAtEnd ==
    /\ pc = "load"
    /\ counter + 1 < NumSamples
    /\ LoadNextSample
    /\ pc' = "dispatch"
    /\ UNCHANGED <<isRunning, calling, queueVars, handed>>

Load ==
    /\ pc = "load"
    /\ LoadNextSample
    /\ pc' = "dispatch"
    /\ UNCHANGED <<isRunning, calling, queueVars, handed>>

\* the successor is dispatched and the mutex released
DispatchNext ==
    /\ pc = "dispatch"
    /\ Queue!Submit("sendSample")
    /\ pc' = "return"
    /\ UNCHANGED <<isRunning, calling, sourceVars, handed>>

\* sendSample returns to the thread of the queue
ReturnFromOp ==
    /\ pc = "return"
    /\ Queue!Finish(Thread)
    /\ pc' = "lock"
    /\ UNCHANGED <<isRunning, calling, sourceVars, handed>>

SendSample == TakeOp \/ GiveUp \/ Lock \/ Handle \/ Load \/ DispatchNext \/ ReturnFromOp
-----------------------------------------------------------------------------
Enter(c) == Start(c) \/ StartRunning(c) \/ Stop(c) \/ StopStopped(c)

Next ==
    \/ \E c \in Caller, m \in {"start", "stop"} : Call(c, m)
    \/ \E c \in Caller : Enter(c)
    \/ SendSample

Spec == Init /\ [][Next]_vars

(***************************************************************************)
(* A thread that can go on does.  Nothing more is assumed of the mutex: it *)
(* is free only for moments, as sendSample sleeps with the mutex locked,   *)
(* and which of the threads that wait gets it then is not promised.        *)
(***************************************************************************)
Fairness ==
    /\ WF_vars(SendSample)
    /\ \A c \in Caller : WF_vars(Enter(c))

FairSpec == Spec /\ Fairness
-----------------------------------------------------------------------------
(***************************************************************************)
(* The sendSample operations that are pending or not yet over.  A stop     *)
(* and a start while one of them waits for the mutex leave that one behind *)
(* and dispatch another one: two chains, each of which dispatches its own  *)
(* successor.  There are never more, however often the stream is stopped   *)
(* and started.                                                            *)
(***************************************************************************)
Chains == Len(pending) + (IF InSendSample /\ pc # "return" THEN 1 ELSE 0)

ChainsBounded == Chains <= 2

(***************************************************************************)
(* A running stream has a sendSample to continue with: stop never removes  *)
(* the last one of a stream that is running when stop returns.             *)
(***************************************************************************)
ChainAlive == isRunning => Chains >= 1

(***************************************************************************)
(* When stop has returned the stream is at rest: nothing pending, no       *)
(* sendSample past its test of isRunning, no sample loaded.                *)
(***************************************************************************)
StoppedIsQuiet == ~isRunning => pending = <<>> /\ MutexFree /\ sample = -1

(***************************************************************************)
(* Nobody waits in start or stop for good, except where sendSample takes   *)
(* the mutex from them again and again: the stream is never locked by      *)
(* somebody who does not go on, whoever stops and starts it in between.    *)
(***************************************************************************)
StarvesOnlyByTurns ==
    \A c \in Caller : []<>(calling[c] = "nothing") \/ []<><<Lock>>_vars

(***************************************************************************)
(* The stream is a player: it hands out every sample of the source in      *)
(* order from the first one on, also when two chains are at work, and does *)
(* not stall.                                                              *)
(***************************************************************************)
Play == INSTANCE Player WITH playing <- isRunning, last <- handed

ImplementsPlayer == Play!FairSpec

(***************************************************************************)
(* The stream uses its source as it is meant to be used, also when two     *)
(* chains are at work: it starts it when it is stopped, loads from it and  *)
(* stops it only when it is started.  The times are FileParser's affair.   *)
(***************************************************************************)
Src == INSTANCE Source WITH
         started <- isRunning, current <- sample, time <- 0, Duration <- 0, TimeModulus <- 1

UsesSource == Src!Spec
=============================================================================
