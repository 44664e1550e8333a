----------------------------- MODULE RtspStream -----------------------------
(***************************************************************************)
(* A Stream over the RTSP sources (src/rtspparser.cpp, and its subclasses  *)
(* for video and audio): the operation on the capture thread, the thread   *)
(* of GStreamer that pushes samples, the thread of the stream that pops    *)
(* them with the mutex of the stream held, and MainThread, which starts    *)
(* and stops the stream.                                                   *)
(*                                                                         *)
(* Of Stream there is what Player promises and Stream proves: its thread   *)
(* goes from one sendSample to the next while the stream runs.             *)
(***************************************************************************)
EXTENDS Integers, Sequences

CONSTANTS MaxStarts,    \* bound: how often the stream is started
          MaxSamples,   \* bound: samples that the RTSP source delivers
          Faults        \* the steps of the capture that may fail

ASSUME RtspAssumption ==
    /\ MaxStarts \in Nat /\ MaxSamples \in Nat
    /\ Faults \subseteq {"launch", "sink"}

VARIABLES isRunning,    \* Stream::_isRunning
          calling,      \* MainThread: what it does to the stream
          at,           \* where sendSample is
          sample,       \* the loaded sample, 0 is an empty one
          handed,       \* history: the samples handed out, empty ones left out
          lost,         \* history: those that were loaded when stop emptied them
          queue,        \* data_queue
          delivered,    \* samples delivered so far, numbered from 1
          starts,       \* calls of start so far
          captures,     \* closures that wait on mCaptureThread
          capture,      \* where startCapture is
          made,         \* the globals that are not null
          refs,         \* references to what each of them points to, 0: freed
          playing,      \* the pipeline is in state PLAYING
          early,        \* history: the last stop came before a launch
          usedFreed,    \* a global was used after its object was freed
          ended         \* the process has ended

queueVars == <<queue, delivered>>
sampleVars == <<sample, handed, lost>>
captureVars == <<captures, capture>>
objectVars == <<made, refs, playing, usedFreed, ended>>
vars == <<isRunning, calling, at, sampleVars, queueVars, starts, captureVars, objectVars, early>>

Object == {"mainloop", "appsink", "pipeline"}
Dangling == {o \in made : refs[o] = 0}

\* A pipeline will be launched although it was not started just now.
ToLaunch == capture = "launch" \/ (captures > 0 /\ capture \in {"idle", "sink"})

Handed == {handed[k] : k \in DOMAIN handed}

TypeOK ==
    /\ isRunning \in BOOLEAN
    /\ calling \in {"nothing", "start", "stop", "stopVideo"}
    /\ at \in {"lock", "handle", "load", "asleep", "awake"}
    /\ sample \in 0..MaxSamples
    /\ handed \in Seq(1..MaxSamples) /\ lost \subseteq 1..MaxSamples
    /\ queue \in Seq(1..MaxSamples) /\ delivered \in 0..MaxSamples
    /\ starts \in 0..MaxStarts /\ captures \in 0..MaxStarts
    /\ capture \in {"idle", "launch", "sink", "play", "loop", "running"}
    /\ made \subseteq Object /\ refs \in [Object -> 0..2]
    /\ playing \in BOOLEAN /\ usedFreed \in BOOLEAN /\ ended \in BOOLEAN /\ early \in BOOLEAN

Init ==
    /\ isRunning = FALSE
    /\ calling = "nothing"
    /\ at = "lock"
    /\ sample = 0 /\ handed = <<>> /\ lost = {}
    /\ queue = <<>> /\ delivered = 0
    /\ starts = 0 /\ captures = 0
    /\ capture = "idle"
    /\ made = {} /\ refs = [o \in Object |-> 0]
    /\ playing = FALSE /\ usedFreed = FALSE /\ ended = FALSE /\ early = FALSE
-----------------------------------------------------------------------------
(***************************************************************************)
(* MainThread, and main at exit.  The check that stops the stream is       *)
(* dispatched with a sample, but may belong to a run that is over, and     *)
(* ~Stream stops at any time.                                              *)
(***************************************************************************)
Call(m) ==
    /\ ~ended
    /\ calling = "nothing"
    /\ \/ m = "start" /\ ~isRunning /\ starts < MaxStarts /\ starts' = starts + 1
       \/ m = "stop" /\ UNCHANGED starts
    /\ calling' = m
    /\ UNCHANGED <<isRunning, at, sampleVars, queueVars, captureVars, objectVars, early>>

MutexFree == at = "lock" /\ calling # "stopVideo"

\* Stream::start with RtspParser::start, which loads nothing
Start ==
    /\ ~ended
    /\ calling = "start" /\ MutexFree
    /\ isRunning' = TRUE
    /\ captures' = captures + 1
    /\ calling' = "nothing"
    /\ UNCHANGED <<at, sampleVars, queueVars, starts, capture, objectVars, early>>

Live == made \ Dangling

\* The use of a freed object ends the process or has no effect.
UseOf(objects) ==
    IF objects \cap Dangling # {}
    THEN usedFreed' = TRUE /\ ended' \in BOOLEAN
    ELSE UNCHANGED <<usedFreed, ended>>

\* Mutated form of Release: the pipeline is not set to NULL.
ReleasePlaying ==
    /\ refs' = [o \in Object |-> IF o \in Live THEN refs[o] - 1 ELSE refs[o]]
    /\ \/ Dangling = {} /\ UNCHANGED <<usedFreed, ended>>
       \/ Dangling # {} /\ usedFreed' = TRUE /\ ended' \in BOOLEAN
    /\ UNCHANGED <<made, playing>>

\* "Clean up" in RtspParser::stop.  Null pointers are refused by the library;
\* the pipeline that is freed gives up its reference to the appsink.
Release ==
    /\ refs' = [o \in Object |->
                    IF o \notin Live THEN refs[o]
                    ELSE IF o = "appsink" /\ "pipeline" \in Live THEN refs[o] - 2
                    ELSE refs[o] - 1]
    /\ playing' = (playing /\ "pipeline" \notin Live)
    /\ \/ Dangling = {} /\ UNCHANGED <<usedFreed, ended>>
       \/ Dangling # {} /\ usedFreed' = TRUE /\ ended' \in BOOLEAN
    /\ UNCHANGED made

\* Stream::stop: audio->stop() first, though it was never started
StopAudio ==
    /\ ~ended
    /\ calling = "stop" /\ MutexFree
    /\ isRunning
    /\ isRunning' = FALSE
    /\ Release
    /\ calling' = "stopVideo"
    /\ UNCHANGED <<at, sampleVars, queueVars, starts, captureVars, early>>

\* then video->stop(), which empties its sample
StopVideo ==
    /\ ~ended
    /\ calling = "stopVideo"
    /\ Release
    /\ sample' = 0
    /\ lost' = lost \cup ({sample} \ {0})
    /\ early' = ToLaunch
    /\ calling' = "nothing"
    /\ UNCHANGED <<isRunning, at, handed, queueVars, starts, captureVars>>

StopStopped ==
    /\ ~ended
    /\ calling = "stop" /\ MutexFree
    /\ ~isRunning
    /\ calling' = "nothing"
    /\ UNCHANGED <<isRunning, at, sampleVars, queueVars, starts, captureVars, objectVars, early>>

MainThread == Start \/ StopAudio \/ StopVideo \/ StopStopped
-----------------------------------------------------------------------------
(***************************************************************************)
(* The thread of the stream.                                               *)
(***************************************************************************)
Lock ==
    /\ ~ended
    /\ MutexFree
    /\ isRunning
    /\ at' = "handle"
    /\ UNCHANGED <<isRunning, calling, sampleVars, queueVars, starts, captureVars, objectVars, early>>

Handle ==
    /\ ~ended
    /\ at = "handle"
    /\ handed' = IF sample = 0 THEN handed ELSE Append(handed, sample)
    /\ at' = "load"
    /\ UNCHANGED <<isRunning, calling, sample, lost, queueVars, starts, captureVars, objectVars,
                   early>>

\* loadNextSample finds no data and waits, with the mutex of the stream held
Wait ==
    /\ ~ended
    /\ at \in {"load", "awake"}
    /\ queue = <<>>
    /\ at' = "asleep"
    /\ UNCHANGED <<isRunning, calling, sampleVars, queueVars, starts, captureVars, objectVars, early>>

\* Mutated form: the data is not popped.
LoadWithoutPop ==
    /\ ~ended
    /\ at \in {"load", "awake"}
    /\ queue # <<>>
    /\ sample' = Head(queue)
    /\ at' = "lock"
    /\ UNCHANGED <<isRunning, calling, handed, lost, queueVars, starts, captureVars, objectVars,
                   early>>

Load ==
    /\ ~ended
    /\ at \in {"load", "awake"}
    /\ queue # <<>>
    /\ sample' = Head(queue)
    /\ queue' = Tail(queue)
    /\ at' = "lock"
    /\ UNCHANGED <<isRunning, calling, handed, lost, delivered, starts, captureVars, objectVars,
                   early>>

StreamThread == Lock \/ Handle \/ Wait \/ Load

SpuriousWakeup ==
    /\ ~ended
    /\ at = "asleep"
    /\ at' = "awake"
    /\ UNCHANGED <<isRunning, calling, sampleVars, queueVars, starts, captureVars, objectVars, early>>
-----------------------------------------------------------------------------
(***************************************************************************)
(* The thread of GStreamer: on_new_sample.                                 *)
(***************************************************************************)
\* Mutated form: nobody is notified.
NewSampleWithoutNotify ==
    /\ ~ended
    /\ playing
    /\ delivered < MaxSamples
    /\ delivered' = delivered + 1
    /\ queue' = Append(queue, delivered')
    /\ UNCHANGED <<isRunning, calling, at, sampleVars, starts, captureVars, objectVars, early>>

NewSample ==
    /\ ~ended
    /\ playing
    /\ delivered < MaxSamples
    /\ delivered' = delivered + 1
    /\ queue' = Append(queue, delivered')
    /\ at' = IF at = "asleep" THEN "awake" ELSE at
    /\ UNCHANGED <<isRunning, calling, sampleVars, starts, captureVars, objectVars, early>>
-----------------------------------------------------------------------------
(***************************************************************************)
(* mCaptureThread, a DispatchQueue with one thread: startCapture.          *)
(***************************************************************************)
otherVars == <<isRunning, calling, at, sampleVars, queueVars, starts, early>>
failVars == <<usedFreed, ended>>

TakeCapture ==
    /\ ~ended
    /\ capture = "idle"
    /\ captures > 0
    /\ captures' = captures - 1
    /\ capture' = "launch"
    /\ UNCHANGED <<otherVars, made, refs, playing, failVars>>

Launch ==
    /\ ~ended
    /\ capture = "launch"
    /\ \/ /\ capture' = "sink"
          /\ made' = made \cup {"pipeline"}
          /\ refs' = [refs EXCEPT !["pipeline"] = 1]
       \/ /\ "launch" \in Faults
          /\ capture' = "idle"
          /\ made' = made \ {"pipeline"}
          /\ UNCHANGED refs
    /\ UNCHANGED <<otherVars, captures, playing, failVars>>

\* Mutated form: the main loop is run before the pipeline is started.
GetSinkThenLoop ==
    /\ ~ended
    /\ capture = "sink"
    /\ capture' = "loop"
    /\ made' = made \cup {"appsink"}
    /\ refs' = [refs EXCEPT !["appsink"] = 2]
    /\ UNCHANGED <<otherVars, captures, playing, failVars>>

\* The appsink is referred to by the pipeline and by the global.  When a stop
\* has freed the pipeline meanwhile, nothing is found in it, or something that
\* was freed with it.
GetSink ==
    /\ ~ended
    /\ capture = "sink"
    /\ UseOf({"pipeline"})
    /\ \/ /\ capture' = "play"
          /\ made' = made \cup {"appsink"}
          /\ refs' = [refs EXCEPT !["appsink"] = IF "pipeline" \in Live THEN 2 ELSE 0]
       \/ /\ "sink" \in Faults \/ "pipeline" \in Dangling
          /\ capture' = "idle"
          /\ made' = made \ {"appsink"}
          /\ refs' = [refs EXCEPT !["pipeline"] = 0]
    /\ UNCHANGED <<otherVars, captures, playing>>

Play ==
    /\ ~ended
    /\ capture = "play"
    /\ UseOf({"appsink", "pipeline"})
    /\ capture' = "loop"
    /\ playing' = ("pipeline" \in Live)
    /\ UNCHANGED <<otherVars, captures, made, refs>>

\* g_main_loop_run takes a reference of its own and, as nobody calls
\* g_main_loop_quit, does not return
RunLoop ==
    /\ ~ended
    /\ capture = "loop"
    /\ capture' = "running"
    /\ made' = made \cup {"mainloop"}
    /\ refs' = [refs EXCEPT !["mainloop"] = 2]
    /\ UNCHANGED <<otherVars, captures, playing, failVars>>

CaptureThread == TakeCapture \/ Launch \/ GetSink \/ Play \/ RunLoop
-----------------------------------------------------------------------------
Next ==
    \/ \E m \in {"start", "stop"} : Call(m)
    \/ MainThread
    \/ StreamThread
    \/ SpuriousWakeup
    \/ NewSample
    \/ CaptureThread

Spec == Init /\ [][Next]_vars

(***************************************************************************)
(* The threads of the process go on when they can.  Nothing is assumed of  *)
(* the mutex of the stream, nor of the RTSP source: it may fall silent.    *)
(***************************************************************************)
FairSpec == Spec /\ WF_vars(StreamThread) /\ WF_vars(CaptureThread) /\ WF_vars(MainThread)
-----------------------------------------------------------------------------
(***************************************************************************)
(* On its way to the handler no sample is doubled or overtaken, and one is *)
(* lost only where a stop empties it after it was loaded: the queue holds  *)
(* the latest ones, and each one before them is the loaded one, or was     *)
(* handed out, once and in order, or was emptied by a stop.                *)
(***************************************************************************)
NoneLostInQueue ==
    LET popped == delivered - Len(queue)
    IN  /\ \A k \in DOMAIN queue : queue[k] = popped + k
        /\ \A k, l \in DOMAIN handed : k < l => handed[k] < handed[l]
        /\ 1..popped = Handed \cup lost \cup ({sample} \ {0})
        /\ Handed \cap lost = {}

(***************************************************************************)
(* loadNextSample, which keeps everybody out of the stream while it        *)
(* sleeps, never sleeps while there is data.                               *)
(***************************************************************************)
SleepsOnlyWithoutData == at = "asleep" => queue = <<>>

(***************************************************************************)
(* When stop has returned the pipeline delivers nothing more, wherever the *)
(* capture operation is, unless the stop came before a launch: that one    *)
(* plays although nobody streams.                                          *)
(***************************************************************************)
NoFlowAfterStop == ~isRunning /\ calling # "stopVideo" /\ playing => early

(***************************************************************************)
(* stop waits for good only while the source delivers nothing for good, or *)
(* while sendSample takes the mutex again and again before it does.        *)
(***************************************************************************)
StopWaitsOnlyForData ==
    \/ []<>(calling # "stop" \/ ended)
    \/ <>[](queue = <<>> /\ at \in {"load", "asleep", "awake"})
    \/ []<><<Lock>>_vars

(***************************************************************************)
(* The first stream that is started captures, also when its thread waits   *)
(* for data before there is any, unless the pipeline cannot be set up.     *)
(* (A second one does not: its closure waits behind RunLoop for good.)     *)
(***************************************************************************)
FirstStartCaptures ==
    (starts = 1 /\ isRunning) ~>
        (playing \/ ~isRunning \/ ended \/ (captures = 0 /\ capture = "idle"))
-----------------------------------------------------------------------------
(***************************************************************************)
(* "Clean up" (a comment in RtspParser::stop) would release what is there. *)
(* It uses objects it has freed, as Stream::stop calls it for the audio    *)
(* source and for the video source, and they share the globals.            *)
(***************************************************************************)
NoUseAfterRelease == ~usedFreed
=============================================================================
