------------------------------ MODULE Streamer ------------------------------
(***************************************************************************)
(* The streamer (src/main.cpp): the map of clients and the operations on   *)
(* MainThread that change it, the client's state (src/helpers.hpp), the    *)
(* sample handler that reads the map on the thread of the stream, and what *)
(* starts and stops the stream; with the pages it talks to (Page).         *)
(*                                                                         *)
(* MainThread is a DispatchQueue with one thread, so an executor: its      *)
(* operations are executed one after the other in dispatch order.  An      *)
(* operation is one action, unless it has to wait for the mutex of the     *)
(* stream or shares data with the handler in mid-course: addToStream and   *)
(* the check for clients go through the states of main.                    *)
(*                                                                         *)
(* Of the stream there is what Player promises: while it runs it calls the *)
(* handler, with its mutex held; start and stop wait for that mutex.  With *)
(* the RTSP input it then waits for the next sample, the mutex still held. *)
(*                                                                         *)
(* A client and its peer connection are one object, named by a number.     *)
(* The peer connection is libdatachannel's: its events are external.       *)
(***************************************************************************)
EXTENDS Page

CONSTANT InputTypes     \* the values of inputType to consider

ASSUME InputAssumption == InputTypes \subseteq {"FileSource", "RtspSource"}

VARIABLES mq,            \* MainThread: the operations that were not started
          main,          \* MainThread: the rest of the operation it executes
          clients,       \* the map from id to client, 0 is no entry
          clientId,      \* the id a client was created for
          alive,         \* the clients that are referred to by a shared_ptr
          clientState,   \* Client::state
          pcState,       \* state of the peer connection
          gathered,      \* peer connections that have gathered their candidates
          opened,        \* the tracks that have opened
          avStream,      \* avStream.has_value()
          isRunning,     \* Stream::isRunning
          handler,       \* where sendSample is: the sample handler, then the source
          tracks,        \* the clients whose tracks it has collected
          mutated,       \* the map has changed since it began to
          inputType      \* inputType

clientVars == <<clients, clientId, alive, clientState>>
pcVars == <<pcState, gathered, opened>>
streamVars == <<avStream, isRunning>>
handlerVars == <<handler, tracks, mutated>>
vars == <<pageVars, mq, main, clientVars, pcVars, streamVars, handlerVars, inputType>>

Kind == {"video", "audio"}
None == "none"

Op == [op : {"message"}, id : Id, message : Message]
        \cup [op : {"erase"}, id : Id]
        \cup [op : {"open"}, client : Pc, kind : Kind]
        \cup [op : {"check"}]

\* the process has not crashed
Running == main.at # "ended"

Dispatch(o) == mq' = Append(mq, o)

Created == {i \in Pc : pcState[i] # None}
Registered == {clients[p] : p \in Id} \ {NoPc}
ReadyClients == {i \in Registered : clientState[i] = "Ready"}

\* the peer connection has reported that it is of no use any more
Gone(i) == pcState[i] \in {"disconnected", "closed"}

\* What is registered exists, under the id it was created for.
TypeOK ==
    /\ PageTypeOK
    /\ mq \in Seq(Op)
    /\ main \in [at : {"idle", "nalus", "ready", "start", "stop", "ended"}, client : Pc \cup {NoPc}]
    /\ clients \in [Id -> Pc \cup {NoPc}]
    /\ clientId \in [Pc -> Id \cup {None}]
    /\ alive \subseteq Pc
    /\ clientState \in [Pc -> {"Waiting", "WaitingForVideo", "WaitingForAudio", "Ready"}]
    /\ pcState \in [Pc -> {None, "offering", "answered", "mismatched", "connected",
                           "disconnected", "closed"}]
    /\ gathered \subseteq Pc
    /\ opened \in [Pc -> SUBSET Kind]
    /\ avStream \in BOOLEAN /\ isRunning \in BOOLEAN
    /\ handler \in {"idle", "collect", "send", "load"}
    /\ tracks \subseteq Pc
    /\ mutated \in BOOLEAN
    /\ inputType \in InputTypes
    /\ \A p \in Id : clients[p] # NoPc => clients[p] \in alive /\ clientId[clients[p]] = p

Init ==
    /\ PageInit
    /\ mq = <<>>
    /\ main = [at |-> "idle", client |-> NoPc]
    /\ clients = [p \in Id |-> NoPc]
    /\ clientId = [i \in Pc |-> None]
    /\ alive = {}
    /\ clientState = [i \in Pc |-> "Waiting"]
    /\ pcState = [i \in Pc |-> None]
    /\ gathered = {}
    /\ opened = [i \in Pc |-> {}]
    /\ avStream = FALSE /\ isRunning = FALSE
    /\ handler = "idle"
    /\ tracks = {}
    /\ mutated = FALSE
    /\ inputType \in InputTypes
-----------------------------------------------------------------------------
(***************************************************************************)
(* The operations of MainThread.                                           *)
(***************************************************************************)
Idle == [at |-> "idle", client |-> NoPc]

\* The operation at the head of the queue is taken.
Take(kind) ==
    /\ main = Idle
    /\ mq # <<>>
    /\ Head(mq).op = kind
    /\ mq' = Tail(mq)

First == Head(mq)

\* ws->onMessage: every message becomes an operation
OnMessage(p) ==
    /\ Running
    /\ up[p] # <<>>
    /\ up' = [up EXCEPT ![p] = Tail(@)]
    /\ Dispatch([op |-> "message", id |-> p, message |-> Head(up[p])])
    /\ UNCHANGED <<requests, started, pagePc, answering, pageClosed, down, main, clientVars,
                   pcVars, streamVars, handlerVars, inputType>>

\* Every id, also one with an entry in the map, gets a peer connection.
CreatePeerConnection(i, p) ==
    /\ i \notin Created
    /\ \A j \in Pc : j < i => j \in Created
    /\ pcState' = [pcState EXCEPT ![i] = "offering"]
    /\ clientId' = [clientId EXCEPT ![i] = p]

\* the iteration of the handler does not lock the map
Mutate == mutated' = (mutated \/ handler = "collect")

\* wsOnMessage, "request".  emplace keeps an entry that is there: then the
\* client just created is destroyed at once.
OnRequest ==
    /\ Take("message")
    /\ First.message = Request
    /\ \E i \in Pc :
        /\ CreatePeerConnection(i, First.id)
        /\ \/ /\ clients[First.id] = NoPc
              /\ clients' = [clients EXCEPT ![First.id] = i]
              /\ alive' = alive \cup {i}
              /\ Mutate
           \/ /\ clients[First.id] # NoPc
              /\ UNCHANGED <<clients, alive, mutated>>
    /\ UNCHANGED <<pageVars, main, clientState, gathered, opened, streamVars, handler, tracks,
                   inputType>>

\* An exception that nothing on MainThread catches, or a null pointer that is
\* dereferenced: the process ends.
Crash == main' = [at |-> "ended", client |-> NoPc]

\* wsOnMessage, "answer": it is applied to the client that has the id now.  A
\* peer connection that has its answer already refuses another one with an
\* exception.
OnAnswer ==
    /\ Take("message")
    /\ First.message # Request
    /\ LET i == clients[First.id]
       IN  \/ /\ i = NoPc
              /\ UNCHANGED <<pcState, main>>
           \/ /\ i # NoPc /\ pcState[i] = "offering"
              /\ pcState' = [pcState EXCEPT ![i] = IF First.message = Answer(i)
                                                  THEN "answered" ELSE "mismatched"]
              /\ UNCHANGED main
           \/ /\ i # NoPc /\ pcState[i] # "offering"
              /\ Crash
              /\ UNCHANGED pcState
    /\ UNCHANGED <<pageVars, clientVars, gathered, opened, streamVars, handlerVars, inputType>>

\* wsOnMessage, when "id", "type" or "sdp" is not what it should be: get or
\* setRemoteDescription throws.  Such a message may come from anybody at any
\* time; it is seen here where nothing is queued behind it, as nothing of that
\* would be executed.  One without an id or a type, or of another type, has no
\* effect.
OnMalformed ==
    /\ main = Idle
    /\ mq = <<>>
    /\ Crash
    /\ UNCHANGED <<pageVars, mq, clientVars, pcVars, streamVars, handlerVars, inputType>>

\* Mutated form: the client is released and its entry stays.
EraseKeepsEntry ==
    /\ Take("erase")
    /\ alive' = alive \ {clients[First.id]}
    /\ UNCHANGED <<pageVars, main, clients, clientId, clientState, pcVars, streamVars,
                   handlerVars, inputType>>

\* clients.erase(id), whichever client has the id now.  The client lives on
\* while the handler looks at its copy of the entry.
Erase ==
    /\ Take("erase")
    /\ clients' = [clients EXCEPT ![First.id] = NoPc]
    /\ \/ alive' = alive \ {clients[First.id]}
       \/ handler = "collect" /\ UNCHANGED alive
    /\ IF clients[First.id] = NoPc THEN UNCHANGED mutated ELSE Mutate
    /\ UNCHANGED <<pageVars, main, clientId, clientState, pcVars, streamVars, handler, tracks,
                   inputType>>

-----------------------------------------------------------------------------
(***************************************************************************)
(* addToStream, for a client that still exists when the operation runs.    *)
(***************************************************************************)
OpenTooLate ==
    /\ Take("open")
    /\ First.client \notin alive
    /\ UNCHANGED <<pageVars, main, clientVars, pcVars, streamVars, handlerVars, inputType>>

\* Mutated form: audio is never streamed, so the client need not wait for it.
FirstTrackIsEnough ==
    /\ Take("open")
    /\ First.client \in alive
    /\ clientState[First.client] = "Waiting"
    /\ clientState' = [clientState EXCEPT ![First.client] =
                          IF First.kind = "video" THEN "WaitingForAudio" ELSE "WaitingForVideo"]
    /\ main' = [at |-> "ready", client |-> First.client]
    /\ UNCHANGED <<pageVars, clients, clientId, alive, pcVars, streamVars, handlerVars,
                   inputType>>

\* Mutated form: the client waits for audio whichever track has opened.
FirstTrackIsVideo ==
    /\ Take("open")
    /\ First.client \in alive
    /\ clientState[First.client] = "Waiting"
    /\ clientState' = [clientState EXCEPT ![First.client] = "WaitingForAudio"]
    /\ UNCHANGED <<pageVars, main, clients, clientId, alive, pcVars, streamVars, handlerVars,
                   inputType>>

FirstTrack ==
    /\ Take("open")
    /\ First.client \in alive
    /\ clientState[First.client] = "Waiting"
    /\ clientState' = [clientState EXCEPT ![First.client] =
                          IF First.kind = "video" THEN "WaitingForAudio" ELSE "WaitingForVideo"]
    /\ UNCHANGED <<pageVars, main, clients, clientId, alive, pcVars, streamVars, handlerVars,
                   inputType>>

WaitsFor(i, kind) ==
    clientState[i] = (IF kind = "audio" THEN "WaitingForAudio" ELSE "WaitingForVideo")

\* Mutated form: setState(Ready) comes before sendInitialNalus.
ReadyBeforeNalus ==
    /\ Take("open")
    /\ First.client \in alive
    /\ WaitsFor(First.client, First.kind)
    /\ clientState' = [clientState EXCEPT ![First.client] = "Ready"]
    /\ main' = [at |-> IF avStream THEN "nalus" ELSE "ready", client |-> First.client]
    /\ UNCHANGED <<pageVars, clients, clientId, alive, pcVars, streamVars, handlerVars,
                   inputType>>

\* Mutated form: sendInitialNalus is called whether there is a stream or not.
SecondTrackAlwaysNalus ==
    /\ Take("open")
    /\ First.client \in alive
    /\ WaitsFor(First.client, First.kind)
    /\ main' = [at |-> "nalus", client |-> First.client]
    /\ UNCHANGED <<pageVars, clientVars, pcVars, streamVars, handlerVars, inputType>>

\* A track opens once, so a client never gets here that is Ready already.
SecondTrack ==
    /\ Take("open")
    /\ First.client \in alive
    /\ WaitsFor(First.client, First.kind)
    /\ main' = [at |-> IF avStream THEN "nalus" ELSE "ready", client |-> First.client]
    /\ UNCHANGED <<pageVars, clientVars, pcVars, streamVars, handlerVars, inputType>>

\* sendInitialNalus takes the source for an H264FileParser, which it is not
\* when the input is RTSP (a null pointer is dereferenced), and sends without
\* a try block (send throws when the track was closed meanwhile).
SendInitialNalus ==
    /\ main.at = "nalus"
    /\ IF inputType = "FileSource" /\ pcState[main.client] # "closed"
       THEN main' = [main EXCEPT !.at = "ready"]
       ELSE Crash
    /\ UNCHANGED <<pageVars, mq, clientVars, pcVars, streamVars, handlerVars, inputType>>

SetReady ==
    /\ main.at = "ready"
    /\ clientState' = [clientState EXCEPT ![main.client] = "Ready"]
    /\ main' = [main EXCEPT !.at = "start"]
    /\ UNCHANGED <<pageVars, mq, clients, clientId, alive, pcVars, streamVars, handlerVars,
                   inputType>>

\* The operation ends and gives up its reference to the client.
Release == alive' = IF handler = "collect" THEN alive ELSE alive \cap Registered

\* Mutated form: a stream that exists is taken for one that runs.
StartStreamOnce ==
    /\ main.at = "start"
    /\ \/ avStream /\ UNCHANGED streamVars
       \/ ~avStream /\ handler = "idle" /\ avStream' = TRUE /\ isRunning' = TRUE
    /\ main' = Idle
    /\ Release
    /\ UNCHANGED <<pageVars, mq, clients, clientId, clientState, pcVars, handlerVars,
                   inputType>>

\* startStream; Stream::start waits for the mutex
StartStream ==
    /\ main.at = "start"
    /\ \/ avStream /\ isRunning /\ UNCHANGED streamVars
       \/ ~isRunning /\ handler = "idle" /\ avStream' = TRUE /\ isRunning' = TRUE
    /\ main' = Idle
    /\ Release
    /\ UNCHANGED <<pageVars, mq, clients, clientId, clientState, pcVars, handlerVars,
                   inputType>>

\* the operation that the handler dispatches after each sample
CheckClients ==
    /\ Take("check")
    /\ main' = IF Registered = {} THEN [at |-> "stop", client |-> NoPc] ELSE Idle
    /\ UNCHANGED <<pageVars, clientVars, pcVars, streamVars, handlerVars, inputType>>

\* Stream::stop waits for the mutex.  Of an RTSP stream that runs it releases
\* everything twice, which may end the process or have no effect.
StopStream ==
    /\ main.at = "stop"
    /\ handler = "idle"
    /\ isRunning' = FALSE
    /\ \/ main' = Idle
       \/ isRunning /\ inputType = "RtspSource" /\ Crash
    /\ UNCHANGED <<pageVars, mq, clientVars, pcVars, avStream, handlerVars, inputType>>

MainThread ==
    \/ OnRequest \/ OnAnswer \/ Erase
    \/ OpenTooLate \/ FirstTrack \/ SecondTrack \/ SendInitialNalus \/ SetReady
    \/ StartStream \/ CheckClients \/ StopStream
-----------------------------------------------------------------------------
(***************************************************************************)
(* The sample handler, on the thread of the stream: it looks for the       *)
(* clients that are Ready, sends the sample to each, and dispatches the    *)
(* check for clients.  Then sendSample loads the next sample.              *)
(***************************************************************************)
BeginCollect ==
    /\ Running
    /\ isRunning
    /\ handler = "idle"
    /\ handler' = "collect"
    /\ tracks' = ReadyClients
    /\ mutated' = FALSE
    /\ UNCHANGED <<pageVars, mq, main, clientVars, pcVars, streamVars, inputType>>

\* The iteration meets every entry, and some clients may have become Ready
\* before it got to them.  When the map has changed meanwhile (MainThread does
\* not stop for the iteration) the iterator may have skipped anything.
EndCollect ==
    /\ Running
    /\ handler = "collect"
    /\ handler' = "send"
    /\ \E met \in SUBSET {i \in alive : clientState[i] = "Ready"} :
        /\ mutated \/ (tracks \subseteq met /\ met \subseteq Registered)
        /\ tracks' = met
    /\ alive' = alive \cap (Registered \cup {main.client})
    /\ mutated' = FALSE
    /\ UNCHANGED <<pageVars, mq, main, clients, clientId, clientState, pcVars, streamVars,
                   inputType>>

\* An iterator that the change has invalidated may as well end the process.
IterationFails ==
    /\ Running
    /\ handler = "collect"
    /\ mutated
    /\ Crash
    /\ UNCHANGED <<pageVars, mq, clientVars, pcVars, streamVars, handlerVars, inputType>>

\* One check for each sample, without a bound.  Left out is one that cannot
\* have an effect, as an earlier one waits with no erase behind it: if that one
\* finds a client the map is not empty here either, and if it stops the stream
\* only a client that is registered after it starts the stream again.
DispatchCheck ==
    IF \E k \in DOMAIN mq : mq[k].op = "check" /\ \A l \in k + 1..Len(mq) : mq[l].op # "erase"
    THEN UNCHANGED mq
    ELSE Dispatch([op |-> "check"])

\* Mutated form: nothing was sent, so nothing is checked.
SendSampleChecksReceivers ==
    /\ Running
    /\ handler = "send"
    /\ handler' = IF inputType = "RtspSource" THEN "load" ELSE "idle"
    /\ tracks' = {}
    /\ IF tracks = {} THEN UNCHANGED mq ELSE DispatchCheck
    /\ UNCHANGED <<pageVars, main, clientVars, pcVars, streamVars, mutated, inputType>>

\* A file is loaded at once.
SendSample ==
    /\ Running
    /\ handler = "send"
    /\ handler' = IF inputType = "RtspSource" THEN "load" ELSE "idle"
    /\ tracks' = {}
    /\ DispatchCheck
    /\ UNCHANGED <<pageVars, main, clientVars, pcVars, streamVars, mutated, inputType>>

\* the RTSP source has a sample; there may be none for good
LoadNextSample ==
    /\ Running
    /\ handler = "load"
    /\ handler' = "idle"
    /\ UNCHANGED <<pageVars, mq, main, clientVars, pcVars, streamVars, tracks, mutated, inputType>>

StreamQueue == BeginCollect \/ EndCollect \/ SendSample
-----------------------------------------------------------------------------
(***************************************************************************)
(* The peer connections (libdatachannel) and the callbacks main.cpp gives  *)
(* them, which run on threads of the library and only dispatch.            *)
(***************************************************************************)

\* onGatheringStateChange: the offer is complete and is sent
OnGathered(i) ==
    /\ Running
    /\ i \in alive
    /\ i \notin gathered
    /\ gathered' = gathered \cup {i}
    /\ down' = [down EXCEPT ![clientId[i]] = Append(@, i)]
    /\ UNCHANGED <<requests, started, pagePc, answering, pageClosed, up, mq, main, clientVars,
                   pcState, opened, streamVars, handlerVars, inputType>>

\* Mutated form: onStateChange does not look at the state.
ConnectErases(i) ==
    /\ Running
    /\ i \in alive
    /\ pcState[i] = "answered"
    /\ i \notin pageClosed
    /\ pcState' = [pcState EXCEPT ![i] = "connected"]
    /\ Dispatch([op |-> "erase", id |-> clientId[i]])
    /\ UNCHANGED <<pageVars, main, clientVars, gathered, opened, streamVars, handlerVars,
                   inputType>>

Connect(i) ==
    /\ Running
    /\ i \in alive
    /\ pcState[i] = "answered"
    /\ i \notin pageClosed
    /\ pcState' = [pcState EXCEPT ![i] = "connected"]
    /\ UNCHANGED <<pageVars, mq, main, clientVars, gathered, opened, streamVars, handlerVars,
                   inputType>>

\* onOpen of a track
OnOpen(i, kind) ==
    /\ Running
    /\ i \in alive
    /\ pcState[i] = "connected"
    /\ kind \notin opened[i]
    /\ opened' = [opened EXCEPT ![i] = @ \cup {kind}]
    /\ Dispatch([op |-> "open", client |-> i, kind |-> kind])
    /\ UNCHANGED <<pageVars, main, clientVars, pcState, gathered, streamVars, handlerVars,
                   inputType>>

\* Mutated form of onStateChange: Closed is not handled.
OnStateChangeIgnoresClosed(i, state) ==
    /\ pcState' = [pcState EXCEPT ![i] = state]
    /\ IF state = "closed" THEN UNCHANGED mq ELSE Dispatch([op |-> "erase", id |-> clientId[i]])

\* onStateChange to Disconnected, Failed or Closed
OnStateChange(i, state) ==
    /\ pcState' = [pcState EXCEPT ![i] = state]
    /\ Dispatch([op |-> "erase", id |-> clientId[i]])

\* the network or the browser fails, or the answer was not for this offer
Lose(i) ==
    /\ Running
    /\ i \in alive
    /\ pcState[i] \in {"answered", "mismatched", "connected"}
    /\ OnStateChange(i, "disconnected")
    /\ UNCHANGED <<pageVars, main, clientVars, gathered, opened, streamVars, handlerVars,
                   inputType>>

\* the page has closed its end, or the client was destroyed
Close(i) ==
    /\ Running
    /\ i \in Created /\ pcState[i] # "closed"
    /\ i \notin alive \/ (i \in pageClosed /\ pcState[i] = "connected")
    /\ OnStateChange(i, "closed")
    /\ UNCHANGED <<pageVars, main, clientVars, gathered, opened, streamVars, handlerVars,
                   inputType>>

PeerConnection(i) ==
    \/ OnGathered(i) \/ Connect(i) \/ Lose(i) \/ Close(i)
    \/ \E kind \in Kind : OnOpen(i, kind)

PageOnly(p) ==
    /\ Running
    /\ PageStep(p)
    /\ UNCHANGED <<mq, main, clientVars, pcVars, streamVars, handlerVars, inputType>>
-----------------------------------------------------------------------------
Next ==
    \/ MainThread \/ OnMalformed
    \/ StreamQueue \/ IterationFails \/ LoadNextSample
    \/ \E p \in Id : OnMessage(p) \/ PageOnly(p)
    \/ \E i \in Pc : PeerConnection(i)

Spec == Init /\ [][Next]_vars

(***************************************************************************)
(* The threads of the process go on when they can.  Nothing is assumed of  *)
(* the mutex of the stream, which a stop may never get, of the RTSP source *)
(* (LoadNextSample), of the pages, the signaling server or the network.    *)
(***************************************************************************)
Fairness ==
    /\ WF_vars(MainThread)
    /\ WF_vars(StreamQueue)

FairSpec == Spec /\ Fairness
-----------------------------------------------------------------------------
(***************************************************************************)
(* A client that is registered and Ready gets the stream: whenever         *)
(* MainThread is between two operations the stream is running.  A check    *)
(* for clients that was dispatched before the client came does not stop    *)
(* it, nor does anything that happened to clients of the past.             *)
(***************************************************************************)
ReadyIsServed == main = Idle /\ ReadyClients # {} => isRunning

(***************************************************************************)
(* The RTP configuration of a client belongs to MainThread until the       *)
(* client is Ready and to the handler from then on: sendInitialNalus never *)
(* runs for a client whose track the handler has collected.  Nothing locks *)
(* the configuration; the order of setState and sendInitialNalus does it.  *)
(***************************************************************************)
RtpConfigOwned == main.at = "nalus" => main.client \notin tracks

(* The handler sends only to clients both of whose tracks have opened. *)
SendsToOpenTracks == \A i \in tracks : opened[i] = Kind

(***************************************************************************)
(* A registered client whose peer connection is gone has an erase of its   *)
(* id ahead of it: no such client is left in the map for good.             *)
(***************************************************************************)
EraseScheduled ==
    \A i \in Registered : Gone(i) =>
        \E k \in DOMAIN mq : mq[k].op = "erase" /\ mq[k].id = clientId[i]

(***************************************************************************)
(* What an erase does keep to: a client that is not gone loses its entry   *)
(* only to the end of another peer connection made for the same id.        *)
(***************************************************************************)
ErasesLiveOnlyByReuse ==
    [][\A p \in Id : clients[p] # NoPc /\ clients'[p] = NoPc /\ ~Gone(clients[p])
          => \E i \in Created \ {clients[p]} : clientId[i] = p /\ Gone(i)]_vars

(***************************************************************************)
(* What ends the process.  Two failures any single viewer can meet: a      *)
(* message that is malformed, and the iteration over a map that changes.   *)
(* Otherwise, sendInitialNalus, when another client has been Ready before: *)
(* with the RTSP input (the cast of its source gives a null pointer) or    *)
(* because the tracks have closed since they opened; the stop of an RTSP   *)
(* stream, when nobody is registered any more; and an answer, under an id  *)
(* that two connections were made for.                                     *)
(***************************************************************************)
EndsOnlyWhen ==
    [][Running /\ ~Running' =>
         \/ OnMalformed
         \/ IterationFails
         \/ /\ main.at = "nalus"
            /\ \E j \in Created \ {main.client} : clientState[j] = "Ready"
            /\ inputType = "RtspSource" \/ pcState[main.client] = "closed"
         \/ main.at = "stop" /\ inputType = "RtspSource" /\ Registered = {}
         \/ /\ main = Idle /\ First.op = "message"
            /\ \E i, j \in Created : i # j /\ clientId[i] = First.id /\ clientId[j] = First.id]_vars

(***************************************************************************)
(* A registered client both of whose tracks have opened, in either order,  *)
(* becomes Ready unless it is removed before or the process ends.          *)
(***************************************************************************)
OpenedIsAdmitted ==
    \A i \in Pc : (i \in Registered /\ opened[i] = Kind)
                   ~> (clientState[i] = "Ready" \/ i \notin Registered \/ ~Running)

(***************************************************************************)
(* When every viewer has gone for good the map is emptied, and the stream  *)
(* stops or cannot be stopped: MainThread waits in stop for a mutex that   *)
(* others get first, or the RTSP source keeps it and delivers nothing.     *)
(***************************************************************************)
StreamStopsAtLast ==
    <>[](Running /\ \A i \in Created : Gone(i))
        => <>[](Registered = {} /\ (~isRunning \/ main.at = "stop" \/ handler = "load"))
-----------------------------------------------------------------------------
(***************************************************************************)
(* "remove disconnected client" (a comment in main.cpp) is what an erase   *)
(* does not keep to: it removes whichever client has the id by then, and   *)
(* the client removed may be connected.                                    *)
(***************************************************************************)
ErasesOnlyGoneClients ==
    [][\A p \in Id : clients[p] # NoPc /\ clients'[p] = NoPc => Gone(clients[p])]_vars
=============================================================================
