------------------------------ MODULE Shutdown ------------------------------
(***************************************************************************)
(* The end of the program (src/main.cpp): main returns and destroys its    *)
(* local variables, then the static objects are destroyed in the reverse   *)
(* order of their definition - those of rtspparser.cpp, which is linked    *)
(* last, the strings of main.cpp, avStream, MainThread, clients - while    *)
(* the threads of MainThread, of the stream, of the capture and of the     *)
(* library run.                                                            *)
(*                                                                         *)
(* Of the clients there is only whether there is one.  The use of an       *)
(* object that was destroyed ends the process or has no effect; the first  *)
(* such use is what the properties are about.  The GStreamer objects that  *)
(* RtspParser::stop releases count as one.                                 *)
(***************************************************************************)
EXTENDS Naturals, Sequences

CONSTANTS InputTypes,  \* the values of inputType to consider
          MaxOps       \* bound: operations that wait on MainThread

ASSUME ShutdownAssumption ==
    InputTypes \subseteq {"FileSource", "RtspSource"} /\ MaxOps \in Nat \ {0}

VARIABLES inputType,
          exit,        \* where the thread of main is
          gone,        \* the objects that were destroyed
          misused,     \* the objects that were used afterwards
          crashed,     \* a misuse has ended the process
          mq,          \* MainThread: operations that were not started
          main,        \* MainThread: what its thread does
          clients,     \* there is a client
          reporting,   \* a peer connection that is gone may report its end
          quiet,       \* history: main returned with nobody left to call back
          isRunning,   \* Stream::isRunning
          started,     \* the stream was started at least once
          held,        \* who holds a shared_ptr to the stream
          destroy,     \* where ~Stream is
          st           \* where sendSample is, on the thread of the stream

streamVars == <<isRunning, started, held, destroy, st>>
mainVars == <<mq, main, clients, reporting>>
misuseVars == <<misused, crashed>>
vars == <<inputType, exit, quiet, gone, misuseVars, mainVars, streamVars>>

Object == {"frame", "rtsp", "strings", "avStream", "source", "stream", "MainThread", "clients", "gst"}

TypeOK ==
    /\ inputType \in InputTypes
    /\ exit \in {"input", "locals", "rtsp", "strings", "avStream", "destroying", "MainThread", "join",
                 "clients", "exited"}
    /\ gone \subseteq Object
    /\ misused \subseteq gone /\ crashed \in BOOLEAN
    /\ mq \in Seq({"message", "open", "erase", "check"})
    /\ main \in {"idle", "message", "start", "stop", "release", "destroying"}
    /\ clients \in BOOLEAN /\ reporting \in BOOLEAN /\ quiet \in BOOLEAN
    /\ isRunning \in BOOLEAN /\ started \in BOOLEAN
    /\ held \subseteq {"avStream", "main"}
    /\ destroy \in {"no", "stop", "source", "join", "done"}
    /\ st \in {"idle", "handle", "load", "ended"}

Init ==
    /\ inputType \in InputTypes
    /\ exit = "input" /\ quiet = FALSE /\ gone = {} /\ misused = {} /\ crashed = FALSE
    /\ mq = <<>> /\ main = "idle" /\ clients = FALSE /\ reporting = FALSE
    /\ isRunning = FALSE /\ started = FALSE /\ held = {} /\ destroy = "no" /\ st = "idle"

Alive == ~crashed /\ exit # "exited"

Misuse(o) ==
    /\ misused' = misused \cup {o}
    /\ crashed' \in BOOLEAN

\* MainThread.dispatch; what goes beyond the bound is not pursued
Dispatch(op) ==
    IF "MainThread" \in gone
    THEN Misuse("MainThread") /\ UNCHANGED mq
    ELSE /\ mq' = IF Len(mq) < MaxOps THEN Append(mq, op) ELSE mq
         /\ UNCHANGED misuseVars
-----------------------------------------------------------------------------
(***************************************************************************)
(* Threads of the library.                                                 *)
(***************************************************************************)
\* The operations that onMessage dispatches hold copies of ws, which keep the
\* WebSocket going as long as they wait or run.
WebSocketKept == main = "message" \/ \E k \in DOMAIN mq : mq[k] = "message"

\* The callback refers to config and ws, on the stack of main.
OnMessage ==
    /\ Alive
    /\ "frame" \notin gone \/ WebSocketKept
    /\ IF "frame" \in gone THEN Misuse("frame") /\ UNCHANGED mq ELSE Dispatch("message")
    /\ UNCHANGED <<inputType, exit, quiet, gone, main, clients, reporting, streamVars>>

\* onOpen of a track
OnOpen ==
    /\ Alive
    /\ clients
    /\ Dispatch("open")
    /\ UNCHANGED <<inputType, exit, quiet, gone, main, clients, reporting, streamVars>>

\* onStateChange, of a client or of a peer connection that is gone already
OnStateChange ==
    /\ Alive
    /\ clients \/ reporting
    /\ Dispatch("erase")
    /\ reporting' \in {FALSE, reporting}
    /\ UNCHANGED <<inputType, exit, quiet, gone, main, clients, streamVars>>

\* on_new_sample, on a thread of GStreamer, and the capture thread, when a
\* stream was started from the RTSP source
OnNewSample ==
    /\ Alive
    /\ inputType = "RtspSource" /\ started
    /\ "rtsp" \in gone
    /\ Misuse("rtsp")
    /\ UNCHANGED <<inputType, exit, quiet, gone, mainVars, streamVars>>

Callback == OnMessage \/ OnOpen \/ OnStateChange \/ OnNewSample
-----------------------------------------------------------------------------
(***************************************************************************)
(* MainThread.                                                             *)
(***************************************************************************)
Take(op) ==
    /\ Alive
    /\ main = "idle" /\ exit # "join" /\ "MainThread" \notin gone
    /\ mq # <<>> /\ Head(mq) = op
    /\ mq' = Tail(mq)

DoMessage ==
    /\ Take("message")
    /\ main' = "message"
    /\ UNCHANGED <<inputType, exit, quiet, gone, misuseVars, clients, reporting, streamVars>>

\* A request makes a client; emplace drops one whose id is in use.
EndMessage ==
    /\ Alive
    /\ main = "message"
    /\ main' = "idle"
    /\ clients' \in {TRUE, clients}
    /\ reporting' \in {reporting, reporting \/ clients}
    /\ UNCHANGED <<inputType, exit, quiet, gone, misuseVars, mq, streamVars>>

DoErase ==
    /\ Take("erase")
    /\ clients' \in {FALSE, clients}
    /\ reporting' \in {reporting, reporting \/ clients}
    /\ UNCHANGED <<inputType, exit, quiet, gone, misuseVars, main, streamVars>>

\* addToStream and startStream, up to stream->start(); a stream that does not
\* exist yet is created from the strings
DoOpen ==
    /\ Take("open")
    /\ \/ /\ ~clients \/ ("avStream" \notin gone /\ isRunning)
          /\ UNCHANGED <<misuseVars, main, held>>
       \/ /\ clients /\ "avStream" \in gone
          /\ Misuse("avStream")
          /\ UNCHANGED <<main, held>>
       \/ /\ clients /\ "avStream" \notin gone /\ ~isRunning
          /\ held' = {"avStream", "main"}
          /\ main' = "start"
          /\ IF "avStream" \notin held /\ "strings" \in gone
             THEN Misuse("strings") ELSE UNCHANGED misuseVars
    /\ UNCHANGED <<inputType, exit, quiet, gone, clients, reporting, isRunning, started, destroy, st>>

\* the check for clients: the weak pointer is locked if the stream exists
DoCheck ==
    /\ Take("check")
    /\ IF ~clients /\ held # {}
       THEN held' = held \cup {"main"} /\ main' = "stop"
       ELSE UNCHANGED <<held, main>>
    /\ UNCHANGED <<inputType, exit, quiet, gone, misuseVars, clients, reporting, isRunning, started, destroy, st>>

MutexFree == st \in {"idle", "ended"}

StartStream ==
    /\ Alive
    /\ main = "start" /\ MutexFree
    /\ isRunning' = TRUE /\ started' = TRUE
    /\ main' = "release"
    /\ UNCHANGED <<inputType, exit, quiet, gone, misuseVars, mq, clients, reporting, held, destroy, st>>

\* RtspParser::stop releases what was captured; called for the second source
\* it uses what the first call has freed, if a pipeline was made.
StopSources ==
    IF inputType = "RtspSource" /\ isRunning
    THEN gone' = gone \cup {"gst"} /\ (Misuse("gst") \/ UNCHANGED misuseVars)
    ELSE UNCHANGED <<gone, misuseVars>>

StopStream ==
    /\ Alive
    /\ main = "stop" /\ MutexFree
    /\ StopSources
    /\ isRunning' = FALSE
    /\ main' = "release"
    /\ UNCHANGED <<inputType, exit, quiet, mq, clients, reporting, started, held, destroy, st>>

\* the shared_ptr of the operation goes, and perhaps the stream with it
Release ==
    /\ Alive
    /\ main = "release"
    /\ held' = held \ {"main"}
    /\ IF held' = {} THEN destroy' = "stop" /\ main' = "destroying"
                     ELSE main' = "idle" /\ UNCHANGED destroy
    /\ UNCHANGED <<inputType, exit, quiet, gone, misuseVars, mq, clients, reporting, isRunning, started, st>>

Destroyed ==
    /\ Alive
    /\ main = "destroying" /\ destroy = "done"
    /\ main' = "idle"
    /\ UNCHANGED <<inputType, exit, quiet, gone, misuseVars, mq, clients, reporting, streamVars>>

MainThread ==
    \/ DoMessage \/ EndMessage \/ DoErase \/ DoOpen \/ DoCheck
    \/ StartStream \/ StopStream \/ Release \/ Destroyed
-----------------------------------------------------------------------------
(***************************************************************************)
(* The thread of the stream, and ~Stream on the thread that drops the last *)
(* shared_ptr: stop, the sources, then the queue with its thread.          *)
(***************************************************************************)
BeginSample ==
    /\ Alive
    /\ st = "idle" /\ isRunning
    /\ st' = "handle"
    /\ UNCHANGED <<inputType, exit, quiet, gone, misuseVars, mainVars, isRunning, started, held, destroy>>

HandleSample ==
    /\ Alive
    /\ st = "handle"
    /\ Dispatch("check")
    /\ st' = "load"
    /\ UNCHANGED <<inputType, exit, quiet, gone, main, clients, reporting, isRunning, started, held, destroy>>

LoadSample ==
    /\ Alive
    /\ inputType = "FileSource" /\ st = "load"
    /\ st' = "idle"
    /\ UNCHANGED <<inputType, exit, quiet, gone, misuseVars, mainVars, isRunning, started, held, destroy>>

\* RtspParser::loadNextSample waits for data, which may never come, with the
\* globals of rtspparser.cpp
LoadRtspSample ==
    /\ Alive
    /\ inputType = "RtspSource" /\ st = "load"
    /\ IF "rtsp" \in gone THEN Misuse("rtsp") ELSE UNCHANGED misuseVars
    /\ st' = "idle"
    /\ UNCHANGED <<inputType, exit, quiet, gone, mainVars, isRunning, started, held, destroy>>

\* Mutated form: ~Stream does not call stop.
NoStopInDestructor ==
    /\ Alive
    /\ destroy = "stop"
    /\ destroy' = "source"
    /\ UNCHANGED <<inputType, exit, quiet, gone, misuseVars, mainVars, isRunning, started, held, st>>

StopInDestructor ==
    /\ Alive
    /\ destroy = "stop" /\ MutexFree
    /\ StopSources
    /\ isRunning' = FALSE
    /\ destroy' = "source"
    /\ UNCHANGED <<inputType, exit, quiet, mainVars, started, held, st>>

\* ~RtspParser releases once more and joins the capture thread, whose operation
\* returns only when it could not set the pipeline up.
DestroyCapture ==
    /\ Alive
    /\ destroy = "source"
    /\ inputType = "RtspSource" /\ started
    /\ Misuse("gst") \/ UNCHANGED misuseVars
    /\ \/ gone' = gone \cup {"gst", "source"} /\ destroy' = "join"
       \/ gone' = gone \cup {"gst"} /\ UNCHANGED destroy
    /\ UNCHANGED <<inputType, exit, quiet, mainVars, isRunning, started, held, st>>

DestroySource ==
    /\ Alive
    /\ destroy = "source"
    /\ inputType = "FileSource" \/ ~started
    /\ gone' = gone \cup {"source"}
    /\ destroy' = "join"
    /\ UNCHANGED <<inputType, exit, quiet, misuseVars, mainVars, isRunning, started, held, st>>

\* Mutated form: the thread of the stream is detached.
DetachStreamQueue ==
    /\ Alive
    /\ destroy = "join"
    /\ gone' = gone \cup {"stream"}
    /\ destroy' = "done"
    /\ UNCHANGED <<inputType, exit, quiet, misuseVars, mainVars, isRunning, started, held, st>>

JoinStreamQueue ==
    /\ Alive
    /\ destroy = "join" /\ st = "idle"
    /\ st' = "ended"
    /\ gone' = gone \cup {"stream"}
    /\ destroy' = "done"
    /\ UNCHANGED <<inputType, exit, quiet, misuseVars, mainVars, isRunning, started, held>>

StreamThread == BeginSample \/ HandleSample \/ LoadSample
Destructor == StopInDestructor \/ DestroySource \/ JoinStreamQueue
Rtsp == LoadRtspSample \/ DestroyCapture
-----------------------------------------------------------------------------
(***************************************************************************)
(* The thread of main.                                                     *)
(***************************************************************************)
EnterPressed ==
    /\ Alive
    /\ exit = "input"
    /\ exit' = "locals"
    /\ UNCHANGED <<inputType, quiet, gone, misuseVars, mainVars, streamVars>>

ReturnFromMain ==
    /\ Alive
    /\ exit = "locals"
    /\ exit' = "rtsp"
    /\ gone' = gone \cup {"frame"}
    /\ quiet' = ~(clients \/ reporting \/ WebSocketKept)
    /\ UNCHANGED <<inputType, misuseVars, mainVars, streamVars>>

\* data_queue, queue_mutex and queue_condition of rtspparser.cpp
DestroyRtspGlobals ==
    /\ Alive
    /\ exit = "rtsp"
    /\ exit' = "strings"
    /\ gone' = gone \cup {"rtsp"}
    /\ UNCHANGED <<inputType, quiet, misuseVars, mainVars, streamVars>>

\* Mutated form: avStream is defined before MainThread and destroyed after it.
DestroyStringsOnly ==
    /\ Alive
    /\ exit = "strings"
    /\ exit' = "MainThread"
    /\ gone' = gone \cup {"strings"}
    /\ UNCHANGED <<inputType, quiet, misuseVars, mainVars, streamVars>>

DestroyStrings ==
    /\ Alive
    /\ exit = "strings"
    /\ exit' = "avStream"
    /\ gone' = gone \cup {"strings"}
    /\ UNCHANGED <<inputType, quiet, misuseVars, mainVars, streamVars>>

DestroyAvStream ==
    /\ Alive
    /\ exit = "avStream"
    /\ gone' = gone \cup {"avStream"}
    /\ held' = held \ {"avStream"}
    /\ IF held = {"avStream"} THEN destroy' = "stop" /\ exit' = "destroying"
                              ELSE exit' = "MainThread" /\ UNCHANGED destroy
    /\ UNCHANGED <<inputType, quiet, misuseVars, mainVars, isRunning, started, st>>

AvStreamDestroyed ==
    /\ Alive
    /\ exit = "destroying" /\ destroy = "done"
    /\ exit' = "MainThread"
    /\ UNCHANGED <<inputType, quiet, gone, misuseVars, mainVars, streamVars>>

\* ~DispatchQueue: quit is set, then the thread is joined
QuitMainThread ==
    /\ Alive
    /\ exit = "MainThread"
    /\ exit' = "join"
    /\ UNCHANGED <<inputType, quiet, gone, misuseVars, mainVars, streamVars>>

\* Mutated form: the thread is joined only when nothing is pending.
DrainMainThread ==
    /\ Alive
    /\ exit = "join" /\ main = "idle" /\ mq = <<>>
    /\ gone' = gone \cup {"MainThread"}
    /\ exit' = "clients"
    /\ UNCHANGED <<inputType, quiet, misuseVars, mainVars, streamVars>>

JoinMainThread ==
    /\ Alive
    /\ exit = "join" /\ main = "idle"
    /\ gone' = gone \cup {"MainThread"}
    /\ mq' = <<>>
    /\ exit' = "clients"
    /\ UNCHANGED <<inputType, quiet, misuseVars, main, clients, reporting, streamVars>>

\* a client that is destroyed closes its peer connection, which dispatches
DestroyClients ==
    /\ Alive
    /\ exit = "clients"
    /\ gone' = gone \cup {"clients"}
    /\ exit' = "exited"
    /\ IF clients THEN Dispatch("erase") ELSE UNCHANGED <<mq, misuseVars>>
    /\ UNCHANGED <<inputType, quiet, main, clients, reporting, streamVars>>

Exit ==
    \/ ReturnFromMain \/ DestroyRtspGlobals \/ DestroyStrings \/ DestroyAvStream \/ AvStreamDestroyed
    \/ QuitMainThread \/ JoinMainThread \/ DestroyClients

Next ==
    \/ Callback
    \/ MainThread \/ StreamThread \/ Destructor \/ Rtsp
    \/ EnterPressed \/ Exit

Spec == Init /\ [][Next]_vars

(***************************************************************************)
(* The threads of the process go on when they can.  Nothing is assumed of  *)
(* the mutex of the stream, nor of the RTSP source and its capture.        *)
(***************************************************************************)
FairSpec ==
    /\ Spec
    /\ WF_vars(MainThread) /\ WF_vars(StreamThread) /\ WF_vars(Destructor) /\ WF_vars(Exit)
-----------------------------------------------------------------------------
(***************************************************************************)
(* The sample handler, on the thread of the stream, finds the clients and  *)
(* MainThread, and loadNextSample the source, whoever drops the last       *)
(* reference to the stream and whatever MainThread does with it meanwhile. *)
(* (The globals of rtspparser.cpp it may find destroyed: LoadRtspSample.)  *)
(***************************************************************************)
StreamUsesLivingObjects ==
    st \in {"handle", "load"} => {"source", "stream", "MainThread", "clients"} \cap gone = {}

(***************************************************************************)
(* When the program has ended no thread of it is left in the middle of an  *)
(* operation, and if there was a stream its thread has ended.              *)
(***************************************************************************)
NoThreadLeft ==
    exit = "exited" => main = "idle" /\ (started => st = "ended")

(***************************************************************************)
(* The program ends, whatever goes on, unless sendSample takes the mutex   *)
(* again and again before stop does, or a capture was started: then the    *)
(* stream may wait for data, or its destructor for the capture, for good.  *)
(***************************************************************************)
ExitReturns ==
    \/ (exit = "locals") ~> (exit = "exited" \/ crashed)
    \/ []<><<BeginSample>>_vars
    \/ <>[](inputType = "RtspSource" /\ started /\ (st = "load" \/ destroy = "source"))

(***************************************************************************)
(* The destructors and threads of the program misuse nothing by themselves *)
(* when no capture was started: after a return of main with no client, no  *)
(* peer connection that reports its end and no message that waits or runs  *)
(* every object is used in its lifetime.                                   *)
(***************************************************************************)
QuietExitUsesLivingObjects ==
    quiet /\ (inputType = "FileSource" \/ ~started) => misused = {}
=============================================================================
