--------------------------- MODULE ShutdownProofs ---------------------------
(***************************************************************************)
(* Proofs about Shutdown, for either input and any number of operations    *)
(* that wait on MainThread.                                                *)
(***************************************************************************)
EXTENDS Shutdown, TLAPS

MqOp == {"message", "open", "erase", "check"}

(* Type correctness in parts, each of which is kept by every step. *)
Places ==
    /\ inputType \in InputTypes
    /\ exit \in {"input", "locals", "rtsp", "strings", "avStream", "destroying", "MainThread", "join",
                 "clients", "exited"}
    /\ main \in {"idle", "message", "start", "stop", "release", "destroying"}
    /\ destroy \in {"no", "stop", "source", "join", "done"}
    /\ st \in {"idle", "handle", "load", "ended"}

Objects ==
    /\ gone \subseteq Object
    /\ misused \subseteq gone
    /\ held \subseteq {"avStream", "main"}

Flags ==
    /\ crashed \in BOOLEAN /\ clients \in BOOLEAN /\ reporting \in BOOLEAN /\ quiet \in BOOLEAN
    /\ isRunning \in BOOLEAN /\ started \in BOOLEAN

Queued == mq \in Seq(MqOp)

LEMMA TypeParts == TypeOK <=> Places /\ Objects /\ Flags /\ Queued
BY DEF TypeOK, Places, Objects, Flags, Queued, MqOp

LEMMA PlacesStep == Places /\ [Next]_vars => Places'
<1> SUFFICES ASSUME Places, [Next]_vars PROVE Places'
  OBVIOUS
<1> USE DEF Places, streamVars, mainVars, misuseVars
<1>1. CASE Callback
  BY <1>1 DEF Callback, OnMessage, OnOpen, OnStateChange, OnNewSample
<1>2. CASE DoMessage \/ EndMessage \/ DoErase \/ DoOpen \/ DoCheck
  BY <1>2 DEF DoMessage, EndMessage, DoErase, DoOpen, DoCheck
<1>3. CASE StartStream \/ StopStream \/ Release \/ Destroyed
  BY <1>3 DEF StartStream, StopStream, Release, Destroyed
<1>4. CASE StreamThread \/ LoadRtspSample
  BY <1>4 DEF StreamThread, BeginSample, HandleSample, LoadSample, LoadRtspSample
<1>5. CASE Destructor \/ DestroyCapture
  BY <1>5 DEF Destructor, StopInDestructor, DestroySource, JoinStreamQueue, DestroyCapture
<1>6. CASE EnterPressed \/ ReturnFromMain \/ DestroyRtspGlobals \/ DestroyStrings
           \/ DestroyAvStream \/ AvStreamDestroyed
  BY <1>6 DEF EnterPressed, ReturnFromMain, DestroyRtspGlobals, DestroyStrings,
              DestroyAvStream, AvStreamDestroyed, Object
<1>7. CASE QuitMainThread \/ JoinMainThread \/ DestroyClients
  BY <1>7 DEF QuitMainThread, JoinMainThread, DestroyClients
<1>8. CASE UNCHANGED vars
  BY <1>8 DEF vars
<1> QED
  BY <1>1, <1>2, <1>3, <1>4, <1>5, <1>6, <1>7, <1>8 DEF Next, MainThread, Rtsp, Exit

LEMMA ObjectsStep == Objects /\ [Next]_vars => Objects'
<1> SUFFICES ASSUME Objects, [Next]_vars PROVE Objects'
  OBVIOUS
<1> USE DEF Objects, streamVars, mainVars, misuseVars
<1>1. CASE Callback
  BY <1>1 DEF Callback, OnMessage, OnOpen, OnStateChange, OnNewSample, Dispatch, Misuse
<1>2. CASE DoMessage \/ EndMessage \/ DoErase \/ DoOpen \/ DoCheck
  BY <1>2 DEF DoMessage, EndMessage, DoErase, DoOpen, DoCheck, Misuse
<1>3. CASE StartStream \/ StopStream \/ Release \/ Destroyed
  BY <1>3 DEF StartStream, StopStream, StopSources, Misuse, Object, Release, Destroyed
<1>4. CASE StreamThread \/ LoadRtspSample
  BY <1>4 DEF StreamThread, BeginSample, HandleSample, LoadSample, LoadRtspSample, Dispatch, Misuse
<1>5. CASE Destructor \/ DestroyCapture
  BY <1>5 DEF Destructor, StopInDestructor, StopSources, Misuse, DestroySource, JoinStreamQueue,
              DestroyCapture, Object
<1>6. CASE EnterPressed \/ ReturnFromMain \/ DestroyRtspGlobals \/ DestroyStrings
           \/ DestroyAvStream \/ AvStreamDestroyed
  BY <1>6 DEF EnterPressed, ReturnFromMain, DestroyRtspGlobals, DestroyStrings,
              DestroyAvStream, AvStreamDestroyed, Object
<1>7. CASE QuitMainThread \/ JoinMainThread \/ DestroyClients
  BY <1>7 DEF QuitMainThread, JoinMainThread, DestroyClients, Dispatch, Misuse, Object
<1>8. CASE UNCHANGED vars
  BY <1>8 DEF vars
<1> QED
  BY <1>1, <1>2, <1>3, <1>4, <1>5, <1>6, <1>7, <1>8 DEF Next, MainThread, Rtsp, Exit

LEMMA FlagsStep == Flags /\ [Next]_vars => Flags'
<1> SUFFICES ASSUME Flags, [Next]_vars PROVE Flags'
  OBVIOUS
<1> USE DEF Flags, streamVars, mainVars, misuseVars
<1>1. CASE Callback
  BY <1>1 DEF Callback, OnMessage, OnOpen, OnStateChange, OnNewSample, Dispatch, Misuse
<1>2. CASE DoMessage \/ EndMessage \/ DoErase \/ DoOpen \/ DoCheck
  BY <1>2 DEF DoMessage, EndMessage, DoErase, DoOpen, DoCheck, Misuse
<1>3. CASE StartStream \/ StopStream \/ Release \/ Destroyed
  BY <1>3 DEF StartStream, StopStream, StopSources, Misuse, Object, Release, Destroyed
<1>4. CASE StreamThread \/ LoadRtspSample
  BY <1>4 DEF StreamThread, BeginSample, HandleSample, LoadSample, LoadRtspSample, Dispatch, Misuse
<1>5. CASE Destructor \/ DestroyCapture
  BY <1>5 DEF Destructor, StopInDestructor, StopSources, Misuse, DestroySource, JoinStreamQueue,
              DestroyCapture, Object
<1>6. CASE EnterPressed \/ ReturnFromMain \/ DestroyRtspGlobals \/ DestroyStrings
           \/ DestroyAvStream \/ AvStreamDestroyed
  BY <1>6 DEF EnterPressed, ReturnFromMain, DestroyRtspGlobals, DestroyStrings,
              DestroyAvStream, AvStreamDestroyed, Object
<1>7. CASE QuitMainThread \/ JoinMainThread \/ DestroyClients
  BY <1>7 DEF QuitMainThread, JoinMainThread, DestroyClients, Dispatch, Misuse, Object
<1>8. CASE UNCHANGED vars
  BY <1>8 DEF vars
<1> QED
  BY <1>1, <1>2, <1>3, <1>4, <1>5, <1>6, <1>7, <1>8 DEF Next, MainThread, Rtsp, Exit

(* What a dispatch does to the queue, and what is left of it after a take. *)
LEMMA DispatchFacts ==
  ASSUME Queued, NEW op \in MqOp, Dispatch(op)
  PROVE  Queued'
<1>1. Append(mq, op) \in Seq(MqOp)
  BY DEF Queued
<1> QED
  BY <1>1 DEF Queued, Dispatch

LEMMA TakeFacts ==
  ASSUME Queued, NEW op, Take(op)
  PROVE  Queued'
BY DEF Queued, Take

LEMMA QueuedStep == Queued /\ [Next]_vars => Queued'
<1> SUFFICES ASSUME Queued, [Next]_vars PROVE Queued'
  OBVIOUS
<1> USE DEF streamVars, mainVars, misuseVars
<1>1. CASE OnMessage
  <2>1. CASE UNCHANGED mq
    BY <2>1 DEF Queued
  <2>2. CASE Dispatch("message")
    BY <2>2, DispatchFacts DEF MqOp
  <2> QED
    BY <1>1, <2>1, <2>2 DEF OnMessage
<1>2. CASE OnOpen \/ OnStateChange \/ OnNewSample
  <2>1. UNCHANGED mq \/ Dispatch("open") \/ Dispatch("erase")
    BY <1>2 DEF OnOpen, OnStateChange, OnNewSample
  <2>2. CASE UNCHANGED mq
    BY <2>2 DEF Queued
  <2> QED
    BY <2>1, <2>2, DispatchFacts DEF MqOp
<1>3. CASE DoMessage \/ DoErase \/ DoOpen \/ DoCheck
  BY <1>3, TakeFacts DEF DoMessage, DoErase, DoOpen, DoCheck
<1>4. CASE EndMessage \/ StartStream \/ StopStream \/ Release \/ Destroyed
  BY <1>4 DEF EndMessage, StartStream, StopStream, Release, Destroyed, Queued
<1>5. CASE HandleSample
  BY <1>5, DispatchFacts DEF HandleSample, MqOp
<1>6. CASE BeginSample \/ LoadSample \/ Destructor \/ Rtsp
  BY <1>6 DEF BeginSample, LoadSample, Destructor, StopInDestructor, DestroySource, JoinStreamQueue,
              Rtsp, LoadRtspSample, DestroyCapture, Queued
<1>7. CASE EnterPressed \/ ReturnFromMain \/ DestroyRtspGlobals \/ DestroyStrings
           \/ DestroyAvStream \/ AvStreamDestroyed
  BY <1>7 DEF EnterPressed, ReturnFromMain, DestroyRtspGlobals, DestroyStrings,
              DestroyAvStream, AvStreamDestroyed, Queued
<1>8. CASE QuitMainThread \/ JoinMainThread
  <2>1. mq' = mq \/ mq' = <<>>
    BY <1>8 DEF QuitMainThread, JoinMainThread
  <2>2. <<>> \in Seq(MqOp)
    OBVIOUS
  <2>3. CASE mq' = <<>>
    BY <2>2, <2>3 DEF Queued
  <2>4. CASE mq' = mq
    BY <2>4 DEF Queued
  <2> QED
    BY <2>1, <2>3, <2>4
<1>9. CASE DestroyClients
  <2>1. CASE UNCHANGED mq
    BY <2>1 DEF Queued
  <2>2. CASE Dispatch("erase")
    BY <2>2, DispatchFacts DEF MqOp
  <2> QED
    BY <1>9, <2>1, <2>2 DEF DestroyClients
<1>10. CASE UNCHANGED vars
  BY <1>10 DEF vars, Queued
<1> QED
  BY <1>1, <1>2, <1>3, <1>4, <1>5, <1>6, <1>7, <1>8, <1>9, <1>10
     DEF Next, Callback, MainThread, StreamThread, Exit

(* Every object that is destroyed exists in the model, and no object is    *)
(* reported as misused that still exists.                                  *)
THEOREM TypeCorrect == Spec => []TypeOK
<1>1. Init => Places /\ Objects
  BY DEF Init, Places, Objects
<1>2. Init => Flags /\ Queued
  <2>1. Init => Flags
    BY DEF Init, Flags
  <2>2. Init => Queued
    <3>1. Init => mq = <<>>
      BY DEF Init
    <3> QED
      BY <3>1 DEF Queued
  <2> QED
    BY <2>1, <2>2
<1>3. Places /\ Objects /\ Flags /\ Queued => TypeOK
  BY TypeParts
<1> QED
  BY <1>1, <1>2, <1>3, PlacesStep, ObjectsStep, FlagsStep, QueuedStep, PTL DEF Spec
-----------------------------------------------------------------------------
(***************************************************************************)
(* Who holds the stream: avStream until it is destroyed, and the operation *)
(* of MainThread that uses it.  The stream is destroyed by whoever drops   *)
(* the last reference, which happens after avStream is gone.               *)
(***************************************************************************)
HeldInv ==
    /\ "main" \in held <=> main \in {"start", "stop", "release"}
    /\ "avStream" \in gone <=> exit \notin {"input", "locals", "rtsp", "strings", "avStream"}
    /\ "avStream" \in held => "avStream" \notin gone
    /\ held # {} => "avStream" \in held \/ "avStream" \in gone
    /\ destroy # "no" => held = {} /\ "avStream" \in gone
    /\ destroy \in {"stop", "source", "join"} => main = "destroying" \/ exit = "destroying"
    /\ main = "destroying" \/ exit = "destroying" => destroy # "no"

(* What has been destroyed when, and what the thread of the stream needs.  *)
DestroyInv ==
    /\ "frame" \in gone <=> exit \notin {"input", "locals"}
    /\ "strings" \in gone => exit \notin {"input", "locals"}
    /\ "source" \in gone => destroy \in {"join", "done"}
    /\ "stream" \in gone => destroy = "done"
    /\ "MainThread" \in gone <=> exit \in {"clients", "exited"}
    /\ "clients" \in gone => exit = "exited"
    /\ exit \in {"clients", "exited"} => main = "idle"
    /\ isRunning \/ st \in {"handle", "load"} => destroy = "stop" \/ (destroy = "no" /\ held # {})
    /\ started => held # {} \/ destroy # "no"
    /\ destroy = "done" => st = "ended"

ShutdownInv == HeldInv /\ DestroyInv

LEMMA ShutdownInvAlways == Spec => []ShutdownInv
<1>1. Init => ShutdownInv
  BY DEF Init, ShutdownInv, HeldInv, DestroyInv
<1>2. TypeOK /\ ShutdownInv /\ [Next]_vars => ShutdownInv'
  <2> SUFFICES ASSUME TypeOK, ShutdownInv, [Next]_vars PROVE ShutdownInv'
    OBVIOUS
  <2> USE DEF ShutdownInv, HeldInv, DestroyInv, streamVars, mainVars, misuseVars
  <2>h. held \subseteq {"avStream", "main"}
    BY DEF TypeOK
  <2>1. CASE Callback
    <3>1. UNCHANGED <<exit, gone, main, streamVars>>
      BY <2>1 DEF Callback, OnMessage, OnOpen, OnStateChange, OnNewSample
    <3> QED
      BY <3>1
  <2>2. CASE DoMessage \/ EndMessage \/ DoErase
    <3>1. /\ UNCHANGED <<exit, gone, streamVars>>
          /\ main \in {"idle", "message"} /\ main' \in {"idle", "message"}
          /\ main # "idle" \/ "MainThread" \notin gone
      BY <2>2 DEF DoMessage, EndMessage, DoErase, Take
    <3>2. main' # "idle" => exit \notin {"clients", "exited"}
      BY <2>2, <3>1 DEF DoMessage, EndMessage, DoErase, Take
    <3> QED
      BY <3>1, <3>2
  <2>3. CASE DoOpen
    BY <2>3, <2>h DEF DoOpen, Take
  <2>4. CASE DoCheck
    BY <2>4, <2>h DEF DoCheck, Take
  <2>5. CASE StartStream \/ StopStream
    BY <2>5, <2>h DEF StartStream, StopStream, StopSources
  <2>6. CASE Release
    BY <2>6, <2>h DEF Release
  <2>7. CASE Destroyed
    BY <2>7 DEF Destroyed
  <2>8. CASE StreamThread \/ LoadRtspSample
    BY <2>8 DEF StreamThread, BeginSample, HandleSample, LoadSample, LoadRtspSample
  <2>9. CASE StopInDestructor
    BY <2>9 DEF StopInDestructor, StopSources, MutexFree
  <2>10. CASE DestroySource \/ DestroyCapture \/ JoinStreamQueue
    BY <2>10 DEF DestroySource, DestroyCapture, JoinStreamQueue
  <2>11. CASE EnterPressed \/ ReturnFromMain \/ DestroyRtspGlobals \/ DestroyStrings
              \/ AvStreamDestroyed \/ QuitMainThread
    BY <2>11 DEF EnterPressed, ReturnFromMain, DestroyRtspGlobals, DestroyStrings,
                 AvStreamDestroyed, QuitMainThread
  <2>12. CASE DestroyAvStream
    BY <2>12, <2>h DEF DestroyAvStream
  <2>13. CASE JoinMainThread \/ DestroyClients
    BY <2>13 DEF JoinMainThread, DestroyClients
  <2>14. CASE UNCHANGED vars
    BY <2>14 DEF vars
  <2> QED
    BY <2>1, <2>2, <2>3, <2>4, <2>5, <2>6, <2>7, <2>8, <2>9, <2>10, <2>11, <2>12, <2>13, <2>14
       DEF Next, MainThread, Destructor, Rtsp, Exit
<1> QED
  BY <1>1, <1>2, TypeCorrect, PTL DEF Spec

(* What the thread of the stream finds, misuse by others or not. *)
LEMMA SampleFindsObjects ==
  ASSUME TypeOK, ShutdownInv, st \in {"handle", "load"}
  PROVE  {"source", "stream", "MainThread", "clients"} \cap gone = {}
<1>t. held \subseteq {"avStream", "main"}
  BY DEF TypeOK
<1>1. "source" \notin gone /\ "stream" \notin gone
  BY DEF ShutdownInv, DestroyInv
<1>2. exit \notin {"clients", "exited"}
  <2> SUFFICES ASSUME exit \in {"clients", "exited"} PROVE FALSE
    OBVIOUS
  <2>1. main = "idle" /\ "avStream" \in gone
    BY DEF ShutdownInv, HeldInv, DestroyInv
  <2>2. held = {} /\ destroy \notin {"stop", "source", "join"}
    BY <1>t, <2>1 DEF ShutdownInv, HeldInv
  <2> QED
    BY <2>2 DEF ShutdownInv, DestroyInv
<1> QED
  BY <1>1, <1>2 DEF ShutdownInv, DestroyInv

(* The sample handler and loadNextSample find the clients, MainThread, the *)
(* stream and its source: ~Stream waits for the mutex and for the thread   *)
(* before they go.  (Of the globals of rtspparser.cpp this is not so.)     *)
THEOREM LivingObjects == Spec => []StreamUsesLivingObjects
<1>1. TypeOK /\ ShutdownInv => StreamUsesLivingObjects
  BY SampleFindsObjects DEF StreamUsesLivingObjects
<1> QED
  BY <1>1, ShutdownInvAlways, TypeCorrect, PTL

(* When the program has ended no thread of it is left in mid-operation.    *)
THEOREM ThreadsEnd == Spec => []NoThreadLeft
<1>1. TypeOK /\ ShutdownInv => NoThreadLeft
  BY DEF TypeOK, ShutdownInv, HeldInv, DestroyInv, NoThreadLeft
<1> QED
  BY <1>1, ShutdownInvAlways, TypeCorrect, PTL

(***************************************************************************)
(* Nobody is left to call back after a quiet return of main, and before    *)
(* main returns only the RTSP sources can be misused.                      *)
(***************************************************************************)
QuietInv ==
    /\ quiet => exit \notin {"input", "locals"} /\ ~clients /\ ~reporting /\ ~WebSocketKept
    /\ isRunning \/ st \in {"handle", "load"} => started
    /\ quiet \/ exit \in {"input", "locals"} =>
          misused = {} \/ (inputType = "RtspSource" /\ started)

(* What is in the queue after a take, a dispatch, and at the end. *)
LEMMA NoMessageFacts ==
  ASSUME Queued, \A k \in DOMAIN mq : mq[k] # "message"
  PROVE  /\ \A op : Take(op) => op # "message" /\ \A k \in DOMAIN mq' : mq'[k] # "message"
         /\ \A op : op # "message" /\ Dispatch(op) => \A k \in DOMAIN mq' : mq'[k] # "message"
<1>1. mq \in Seq(MqOp) /\ Len(mq) \in Nat /\ DOMAIN mq = 1..Len(mq)
  BY DEF Queued
<1>2. ASSUME NEW op, Take(op)
      PROVE  op # "message" /\ \A k \in DOMAIN mq' : mq'[k] # "message"
  <2>1. mq # <<>> /\ op = Head(mq) /\ mq' = Tail(mq)
    BY <1>2 DEF Take
  <2>2. 1 \in DOMAIN mq /\ op = mq[1]
    BY <1>1, <2>1
  <2>3. DOMAIN mq' = 1 .. Len(mq) - 1 /\ \A k \in 1 .. Len(mq) - 1 : mq'[k] = mq[k + 1]
    BY <1>1, <2>1
  <2> QED
    BY <1>1, <2>2, <2>3
<1>3. ASSUME NEW op, op # "message", Dispatch(op)
      PROVE  \A k \in DOMAIN mq' : mq'[k] # "message"
  <2>1. mq' = mq \/ mq' = Append(mq, op)
    BY <1>3 DEF Dispatch
  <2>2. CASE mq' = Append(mq, op)
    <3>1. /\ DOMAIN Append(mq, op) = 1 .. Len(mq) + 1
          /\ \A k \in 1 .. Len(mq) : Append(mq, op)[k] = mq[k]
          /\ Append(mq, op)[Len(mq) + 1] = op
      BY <1>1
    <3>2. \A k \in 1 .. Len(mq) + 1 : k \in 1 .. Len(mq) \/ k = Len(mq) + 1
      BY <1>1
    <3> QED
      BY <1>1, <1>3, <2>2, <3>1, <3>2
  <2> QED
    BY <2>1, <2>2
<1> QED
  BY <1>2, <1>3

LEMMA QuietStep == TypeOK /\ ShutdownInv /\ QuietInv /\ [Next]_vars => QuietInv'
<1> SUFFICES ASSUME TypeOK, ShutdownInv, QuietInv, [Next]_vars PROVE QuietInv'
  OBVIOUS
<1> USE DEF QuietInv, streamVars, mainVars, misuseVars
<1>q. Queued
  BY TypeParts
<1>g. exit \in {"input", "locals"} =>
        "frame" \notin gone /\ "strings" \notin gone /\ "avStream" \notin gone /\ "MainThread" \notin gone
  BY DEF ShutdownInv, HeldInv, DestroyInv
<1>i. inputType \in {"FileSource", "RtspSource"}
  BY ShutdownAssumption DEF TypeOK
<1>b. clients \in BOOLEAN /\ reporting \in BOOLEAN
  BY DEF TypeOK
<1>m. ASSUME UNCHANGED <<mq, main>>
      PROVE  WebSocketKept' <=> WebSocketKept
  BY <1>m DEF WebSocketKept
<1>t. ASSUME NEW op, Take(op), ~WebSocketKept
      PROVE  op # "message" /\ \A k \in DOMAIN mq' : mq'[k] # "message"
  BY <1>t, <1>q, NoMessageFacts DEF WebSocketKept
<1>d. ASSUME NEW op, op # "message", Dispatch(op), UNCHANGED main, ~WebSocketKept
      PROVE  ~WebSocketKept'
  BY <1>d, <1>q, NoMessageFacts DEF WebSocketKept
<1>1. CASE OnMessage
  <2>1. CASE quiet
    <3>1. "frame" \in gone /\ ~WebSocketKept
      BY <2>1 DEF ShutdownInv, DestroyInv
    <3> QED
      BY <1>1, <3>1 DEF OnMessage
  <2>2. CASE ~quiet
    BY <1>1, <1>g, <2>2 DEF OnMessage, Dispatch
  <2> QED
    BY <2>1, <2>2
<1>2. CASE OnOpen \/ OnStateChange
  <2>1. ~quiet /\ ~quiet'
    <3>1. (clients \/ reporting) /\ quiet' = quiet
      BY <1>2, Zenon DEF OnOpen, OnStateChange
    <3>2. quiet => ~clients /\ ~reporting
      BY Zenon
    <3> QED
      BY <3>1, <3>2, Zenon
  <2>2. exit \in {"input", "locals"} => UNCHANGED misuseVars
    BY <1>2, <1>g DEF OnOpen, OnStateChange, Dispatch
  <2>3. UNCHANGED <<inputType, exit, streamVars>>
    BY <1>2 DEF OnOpen, OnStateChange
  <2> QED
    BY <2>1, <2>2, <2>3
<1>3. CASE OnNewSample
  BY <1>3, <1>m DEF OnNewSample
<1>4. CASE DoMessage
  BY <1>4, <1>t DEF DoMessage
<1>5. CASE EndMessage
  BY <1>5 DEF EndMessage, WebSocketKept
<1>6. CASE DoErase
  <2>1. ~WebSocketKept => ~WebSocketKept'
    BY <1>6, <1>t DEF DoErase, WebSocketKept
  <2>2. /\ UNCHANGED <<inputType, exit, quiet, misuseVars, streamVars>>
        /\ ~clients /\ ~reporting => ~clients' /\ ~reporting'
    <3>1. /\ UNCHANGED <<inputType, exit, quiet, misuseVars, streamVars>>
          /\ clients' \in {FALSE, clients} /\ reporting' \in {reporting, reporting \/ clients}
      BY <1>6, Zenon DEF DoErase
    <3>2. ASSUME ~clients, ~reporting PROVE ~clients' /\ ~reporting'
      <4>1. clients = FALSE /\ reporting = FALSE
        BY <1>b, <3>2
      <4> QED
        BY <3>1, <4>1
    <3> QED
      BY <3>1, <3>2
  <2> QED
    BY <2>1, <2>2
<1>7. CASE DoOpen
  <2>1. ~WebSocketKept => ~WebSocketKept'
    BY <1>7, <1>t DEF DoOpen, WebSocketKept
  <2> QED
    BY <1>7, <1>g, <2>1 DEF DoOpen
<1>8. CASE DoCheck
  <2>1. ~WebSocketKept => ~WebSocketKept'
    BY <1>8, <1>t DEF DoCheck, WebSocketKept
  <2> QED
    BY <1>8, <2>1 DEF DoCheck
<1>9. CASE StartStream
  <2>1. ~WebSocketKept => ~WebSocketKept'
    BY <1>9 DEF StartStream, WebSocketKept
  <2> QED
    BY <1>9, <2>1 DEF StartStream
<1>10. CASE StopStream
  <2>1. ~WebSocketKept => ~WebSocketKept'
    BY <1>10 DEF StopStream, WebSocketKept
  <2> QED
    BY <1>10, <2>1 DEF StopStream, StopSources
<1>11. CASE Release \/ Destroyed
  <2>1. ~WebSocketKept => ~WebSocketKept'
    BY <1>11 DEF Release, Destroyed, WebSocketKept
  <2> QED
    BY <1>11, <2>1 DEF Release, Destroyed
<1>12. CASE BeginSample \/ LoadSample \/ LoadRtspSample
  BY <1>12, <1>m DEF BeginSample, LoadSample, LoadRtspSample
<1>13. CASE HandleSample
  <2>1. "MainThread" \notin gone
    BY <1>13, SampleFindsObjects DEF HandleSample
  <2>2. Dispatch("check") /\ UNCHANGED main
    BY <1>13 DEF HandleSample
  <2>3. ~WebSocketKept => ~WebSocketKept'
    BY <1>d, <2>2
  <2>4. UNCHANGED misuseVars
    BY <2>1, <2>2 DEF Dispatch
  <2> QED
    BY <1>13, <2>3, <2>4 DEF HandleSample
<1>14. CASE StopInDestructor
  BY <1>14, <1>m DEF StopInDestructor, StopSources
<1>15. CASE DestroySource \/ DestroyCapture \/ JoinStreamQueue
  BY <1>15, <1>m DEF DestroySource, DestroyCapture, JoinStreamQueue
<1>16. CASE EnterPressed
  BY <1>16, <1>m DEF EnterPressed
<1>17. CASE ReturnFromMain
  BY <1>17, <1>m DEF ReturnFromMain
<1>18. CASE DestroyRtspGlobals \/ DestroyStrings \/ DestroyAvStream \/ AvStreamDestroyed
            \/ QuitMainThread
  BY <1>18, <1>m DEF DestroyRtspGlobals, DestroyStrings, DestroyAvStream, AvStreamDestroyed,
                     QuitMainThread
<1>19. CASE JoinMainThread
  <2>1. ~WebSocketKept'
    BY <1>19 DEF JoinMainThread, WebSocketKept
  <2> QED
    BY <1>19, <2>1 DEF JoinMainThread
<1>20. CASE DestroyClients
  <2>1. ~clients => UNCHANGED <<mq, misuseVars>>
    BY <1>20 DEF DestroyClients
  <2> QED
    BY <1>20, <1>m, <2>1 DEF DestroyClients
<1>21. CASE UNCHANGED vars
  BY <1>21, <1>m DEF vars
<1> QED
  BY <1>1, <1>2, <1>3, <1>4, <1>5, <1>6, <1>7, <1>8, <1>9, <1>10, <1>11, <1>12, <1>13, <1>14,
     <1>15, <1>16, <1>17, <1>18, <1>19, <1>20, <1>21
     DEF Next, Callback, MainThread, StreamThread, Destructor, Rtsp, Exit

(***************************************************************************)
(* The destructors misuse nothing by themselves, in whatever order the     *)
(* threads come to an end, when no capture was started: after a return of  *)
(* main that leaves nobody to call back all objects are used in their      *)
(* lifetimes.                                                              *)
(***************************************************************************)
THEOREM QuietExit == Spec => []QuietExitUsesLivingObjects
<1>1. Init => QuietInv
  BY DEF Init, QuietInv
<1>2. QuietInv => QuietExitUsesLivingObjects
  BY DEF QuietInv, QuietExitUsesLivingObjects
<1> QED
  BY <1>1, <1>2, QuietStep, ShutdownInvAlways, TypeCorrect, PTL DEF Spec
=============================================================================
