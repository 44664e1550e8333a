--------------------------- MODULE StreamerProofs ---------------------------
(***************************************************************************)
(* Proofs about Streamer, for any set of pages, any number of requests and *)
(* either input.                                                           *)
(***************************************************************************)
EXTENDS Streamer, TLAPS

(* The operations of MainThread have the fields their kind calls for. *)
LEMMA OpFields ==
  ASSUME NEW o \in Op
  PROVE  /\ o.op = "message" => o.id \in Id /\ o.message \in Message
         /\ o.op = "erase" => o.id \in Id
         /\ o.op = "open" => o.client \in Pc /\ o.kind \in Kind
<1>1. CASE o \in [op : {"message"}, id : Id, message : Message]
  BY <1>1
<1>2. CASE o \in [op : {"erase"}, id : Id]
  BY <1>2
<1>3. CASE o \in [op : {"open"}, client : Pc, kind : Kind]
  BY <1>3
<1>4. CASE o \in [op : {"check"}]
  BY <1>4
<1> QED
  BY <1>1, <1>2, <1>3, <1>4 DEF Op

LEMMA OpsAreOps ==
  /\ \A p \in Id, m \in Message : [op |-> "message", id |-> p, message |-> m] \in Op
  /\ \A p \in Id : [op |-> "erase", id |-> p] \in Op
  /\ \A i \in Pc, k \in Kind : [op |-> "open", client |-> i, kind |-> k] \in Op
  /\ [op |-> "check"] \in Op
BY DEF Op

(* What a taken operation leaves behind and what it is. *)
LEMMA TakeFacts ==
  ASSUME mq \in Seq(Op), NEW kind, Take(kind)
  PROVE  /\ mq' \in Seq(Op)
         /\ First \in Op
         /\ First.op = kind
         /\ main.at = "idle"
<1>1. mq # <<>> /\ mq' = Tail(mq) /\ First = Head(mq) /\ First.op = kind
  BY DEF Take, First
<1>2. Head(mq) \in Op /\ Tail(mq) \in Seq(Op)
  BY <1>1
<1>3. main.at = "idle"
  BY DEF Take, Idle
<1> QED
  BY <1>1, <1>2, <1>3

LEMMA DispatchFacts ==
  ASSUME mq \in Seq(Op), NEW o \in Op, Dispatch(o)
  PROVE  mq' \in Seq(Op)
BY DEF Dispatch

LEMMA CheckDispatched ==
  ASSUME SendSample \/ DispatchCheck
  PROVE  UNCHANGED mq \/ Dispatch([op |-> "check"])
BY DEF SendSample, DispatchCheck

(* What a step does that is neither an operation nor the handler's. *)
Aside == OnMalformed \/ IterationFails \/ LoadNextSample

LEMMA AsideFacts ==
  ASSUME Aside
  PROVE  /\ UNCHANGED <<requests, started, pagePc, answering, pageClosed, up, down, mq, clients,
                        clientId, alive, clientState, pcState, gathered, opened, avStream,
                        isRunning, tracks, mutated, inputType>>
         /\ handler' \in {handler, "idle"}
         /\ UNCHANGED main \/ main' = [at |-> "ended", client |-> NoPc]
BY DEF Aside, OnMalformed, IterationFails, LoadNextSample, Crash, pageVars, clientVars, pcVars,
       streamVars, handlerVars

LEMMA NoPcIsNone == NoPc \notin Pc
BY DEF NoPc, Pc
-----------------------------------------------------------------------------
(* The pages keep their types. *)
LEMMA PageTypes ==
  ASSUME PageTypeOK, NEW p \in Id, PageStep(p)
  PROVE  PageTypeOK'
<1> USE DEF PageTypeOK
<1>m. Request \in Message /\ \A i \in Pc : Answer(i) \in Message
  BY DEF Message
<1>1. CASE Start(p)
  <2>1. Append(up[p], Request) \in Seq(Message)
    BY <1>m
  <2>2. up' \in [Id -> Seq(Message)]
    BY <1>1, <2>1 DEF Start, Send
  <2>3. requests' \in 0..MaxRequests
    BY <1>1, RequestsAssumption DEF Start
  <2> QED
    BY <1>1, <2>2, <2>3 DEF Start
<1>2. CASE Stop(p)
  BY <1>2 DEF Stop
<1>3. CASE ReceiveOffer(p)
  <2>1. down[p] \in Seq(Pc) /\ down[p] # <<>>
    BY <1>3 DEF ReceiveOffer
  <2>2. Head(down[p]) \in Pc /\ Tail(down[p]) \in Seq(Pc)
    BY <2>1
  <2> QED
    BY <1>3, <2>2 DEF ReceiveOffer
<1>4. ASSUME NEW i \in Pc, SendAnswer(p, i)
      PROVE  PageTypeOK'
  <2>1. Append(up[p], Answer(i)) \in Seq(Message)
    BY <1>m
  <2>2. up' \in [Id -> Seq(Message)]
    BY <1>4, <2>1 DEF SendAnswer, Send
  <2> QED
    BY <1>4, <2>2 DEF SendAnswer
<1> QED
  BY <1>1, <1>2, <1>3, <1>4 DEF PageStep
-----------------------------------------------------------------------------
(***************************************************************************)
(* Type correctness.  Two parts of it are not about one variable: the      *)
(* registered clients exist and have the id they are registered under.     *)
(* For a new client this takes that its number was not in use; for an erase*)
(* that whoever dispatches it was created for some page.                   *)
(***************************************************************************)
RegistryInv ==
  /\ alive \subseteq Created
  /\ \A i \in Created : clientId[i] \in Id

TypeInv == TypeOK /\ RegistryInv

LEMMA TypeInvInit == Init => TypeInv
<1> SUFFICES ASSUME Init
             PROVE  TypeInv
  OBVIOUS
<1>1. mq \in Seq(Op)
  BY DEF Init
<1>2. PageTypeOK
  <2>1. up \in [Id -> Seq(Message)] /\ down \in [Id -> Seq(Pc)]
    BY DEF Init, PageInit
  <2> QED
    BY <2>1, RequestsAssumption DEF Init, PageInit, PageTypeOK
<1>3. main \in [at : {"idle", "nalus", "ready", "start", "stop", "ended"}, client : Pc \cup {NoPc}]
  BY DEF Init
<1> QED
  BY <1>1, <1>2, <1>3 DEF Init, TypeInv, TypeOK, RegistryInv, Created

(* A message is executed. *)
LEMMA TypeInvMessage ==
  ASSUME TypeInv, OnRequest \/ OnAnswer
  PROVE  TypeInv'
<1> USE DEF TypeInv, TypeOK, RegistryInv, Created, pageVars, clientVars, pcVars, streamVars,
            handlerVars, PageTypeOK
<1>1. CASE OnRequest
  <2>1. mq' \in Seq(Op) /\ First \in Op /\ First.op = "message"
    BY <1>1, TakeFacts DEF OnRequest
  <2>2. First.id \in Id
    BY <2>1, OpFields
  <2>3. PICK i \in Pc : CreatePeerConnection(i, First.id)
                       /\ \/ /\ clients[First.id] = NoPc
                             /\ clients' = [clients EXCEPT ![First.id] = i]
                             /\ alive' = alive \cup {i}
                             /\ Mutate
                          \/ UNCHANGED <<clients, alive, mutated>>
    BY <1>1 DEF OnRequest
  <2>a. i # NoPc
    BY NoPcIsNone
  <2>4. /\ i \notin Created
        /\ pcState' = [pcState EXCEPT ![i] = "offering"]
        /\ clientId' = [clientId EXCEPT ![i] = First.id]
    BY <2>3 DEF CreatePeerConnection
  <2>5. mutated' \in BOOLEAN
    BY <2>3 DEF Mutate
  <2>b. i \notin alive /\ \A j \in alive : clientId'[j] = clientId[j]
    BY <2>4
  <2>c. Created' = Created \cup {i}
    BY <2>4 DEF None
  <2>6. \A p \in Id : clients'[p] # NoPc =>
          clients'[p] \in alive' /\ clientId'[clients'[p]] = p
    <3>1. CASE UNCHANGED clients /\ UNCHANGED alive
      BY <2>b, <3>1
    <3>2. CASE clients' = [clients EXCEPT ![First.id] = i] /\ alive' = alive \cup {i}
      BY <2>2, <2>4, <2>b, <3>2
    <3> QED
      BY <2>3, <3>1, <3>2
  <2>7. alive' \subseteq Created'
    BY <2>3, <2>c
  <2>d. \A j \in Created' : clientId'[j] \in Id
    BY <2>2, <2>4, <2>c
  <2>8. clients' \in [Id -> Pc \cup {NoPc}] /\ alive' \subseteq Pc
    <3>1. CASE UNCHANGED clients /\ UNCHANGED alive
      BY <3>1
    <3>2. CASE clients' = [clients EXCEPT ![First.id] = i] /\ alive' = alive \cup {i}
      BY <2>2, <3>2
    <3> QED
      BY <2>3, <3>1, <3>2
  <2> QED
    BY <1>1, <2>1, <2>2, <2>4, <2>5, <2>6, <2>7, <2>d, <2>8 DEF OnRequest
<1>2. CASE OnAnswer
  <2>1. mq' \in Seq(Op)
    BY <1>2, TakeFacts DEF OnAnswer
  <2>2. main' \in [at : {"idle", "nalus", "ready", "start", "stop", "ended"}, client : Pc \cup {NoPc}]
    BY <1>2 DEF OnAnswer, Crash
  <2>3. \/ UNCHANGED pcState
        \/ \E i \in Pc, s \in {"answered", "mismatched"} :
              pcState[i] = "offering" /\ pcState' = [pcState EXCEPT ![i] = s]
    <3>1. First.id \in Id
      BY <1>2, TakeFacts, OpFields DEF OnAnswer
    <3>2. clients[First.id] \in Pc \cup {NoPc}
      BY <3>1
    <3> QED
      BY <1>2, <3>2 DEF OnAnswer
  <2>4. /\ pcState' \in [Pc -> {None, "offering", "answered", "mismatched", "connected",
                                "disconnected", "closed"}]
        /\ Created' = Created
    <3>1. CASE UNCHANGED pcState
      BY <3>1
    <3>2. ASSUME NEW i \in Pc, NEW s \in {"answered", "mismatched"}, pcState[i] = "offering",
                 pcState' = [pcState EXCEPT ![i] = s]
          PROVE  /\ pcState' \in [Pc -> {None, "offering", "answered", "mismatched",
                                         "connected", "disconnected", "closed"}]
                 /\ \A j \in Pc : (pcState'[j] # None) <=> (pcState[j] # None)
      BY <3>2 DEF None
    <3> QED
      BY <2>3, <3>1, <3>2
  <2>5. UNCHANGED <<pageVars, clientVars, gathered, opened, streamVars, handlerVars, inputType>>
    BY <1>2 DEF OnAnswer
  <2>6. PageTypeOK'
    BY <2>5
  <2>7. TypeOK'
    BY <2>1, <2>2, <2>4, <2>5, <2>6
  <2>8. RegistryInv'
    BY <2>4, <2>5
  <2> QED
    BY <2>7, <2>8
<1> QED
  BY <1>1, <1>2

(* An erase, the steps of addToStream, and a check are executed. *)
LEMMA TypeInvOperation ==
  ASSUME TypeInv, MainThread, ~OnRequest, ~OnAnswer
  PROVE  TypeInv'
<1> USE DEF TypeInv, TypeOK, RegistryInv, Created, pageVars, clientVars, pcVars, streamVars,
            handlerVars, PageTypeOK
<1>1. CASE Erase
  <2>1. mq' \in Seq(Op) /\ First \in Op /\ First.op = "erase"
    BY <1>1, TakeFacts DEF Erase
  <2>2. First.id \in Id
    BY <2>1, OpFields
  <2>3. mutated' \in BOOLEAN
    BY <1>1 DEF Erase, Mutate
  <2>4. \A p \in Id : clients'[p] # NoPc =>
          p # First.id /\ clients[p] # NoPc /\ clients'[p] = clients[p]
    BY <1>1, <2>2 DEF Erase
  <2>5. \A p \in Id : p # First.id /\ clients[p] # NoPc => clients[p] # clients[First.id]
    BY <2>2
  <2>6. \A p \in Id : clients'[p] # NoPc =>
          clients'[p] \in alive' /\ clientId'[clients'[p]] = p
    BY <1>1, <2>4, <2>5 DEF Erase
  <2> QED
    BY <1>1, <2>1, <2>2, <2>3, <2>6 DEF Erase
<1>2. CASE OpenTooLate
  BY <1>2, TakeFacts DEF OpenTooLate
<1>3. CASE FirstTrack
  <2>1. mq' \in Seq(Op)
    BY <1>3, TakeFacts DEF FirstTrack
  <2> QED
    BY <1>3, <2>1 DEF FirstTrack
<1>4. CASE SecondTrack
  <2>1. mq' \in Seq(Op) /\ First \in Op /\ First.op = "open"
    BY <1>4, TakeFacts DEF SecondTrack
  <2>2. First.client \in Pc
    BY <2>1, OpFields
  <2> QED
    BY <1>4, <2>1, <2>2 DEF SecondTrack
<1>5. CASE SendInitialNalus
  <2>1. main'.at \in {"ready", "ended"} /\ main' = [at |-> main'.at, client |-> main'.client]
        /\ main'.client \in {main.client, NoPc}
    BY <1>5 DEF SendInitialNalus, Crash
  <2> QED
    BY <1>5, <2>1 DEF SendInitialNalus
<1>6. CASE SetReady
  BY <1>6 DEF SetReady
<1>7. CASE StartStream
  <2>1. \A p \in Id : clients[p] # NoPc => clients[p] \in alive'
    BY <1>7 DEF StartStream, Release, Registered
  <2>2. alive' \subseteq alive
    BY <1>7 DEF StartStream, Release
  <2> QED
    BY <1>7, <2>1, <2>2 DEF StartStream, Idle
<1>8. CASE CheckClients
  <2>1. mq' \in Seq(Op)
    BY <1>8, TakeFacts DEF CheckClients
  <2> QED
    BY <1>8, <2>1 DEF CheckClients, Idle
<1>9. CASE StopStream
  <2>1. \E at \in {"idle", "ended"} : main' = [at |-> at, client |-> NoPc]
    BY <1>9 DEF StopStream, Idle, Crash
  <2>2. isRunning' \in BOOLEAN
    BY <1>9 DEF StopStream
  <2> QED
    BY <1>9, <2>1, <2>2 DEF StopStream
<1> QED
  BY <1>1, <1>2, <1>3, <1>4, <1>5, <1>6, <1>7, <1>8, <1>9 DEF MainThread

(* The sample handler takes a step. *)
LEMMA TypeInvHandler ==
  ASSUME TypeInv, StreamQueue
  PROVE  TypeInv'
<1> USE DEF TypeInv, TypeOK, RegistryInv, Created, pageVars, clientVars, pcVars, streamVars,
            handlerVars, PageTypeOK
<1>1. CASE BeginCollect
  <2>1. tracks' \subseteq Pc
    BY <1>1 DEF BeginCollect, ReadyClients, Registered
  <2> QED
    BY <1>1, <2>1 DEF BeginCollect
<1>2. CASE EndCollect
  <2>1. \A p \in Id : clients[p] # NoPc => clients[p] \in alive'
    BY <1>2 DEF EndCollect, Registered
  <2> QED
    BY <1>2, <2>1 DEF EndCollect
<1>3. CASE SendSample
  <2>1. mq' \in Seq(Op)
    BY <1>3, OpsAreOps, DispatchFacts, CheckDispatched
  <2> QED
    BY <1>3, <2>1 DEF SendSample
<1> QED
  BY <1>1, <1>2, <1>3 DEF StreamQueue

(* A peer connection reports something. *)
LEMMA TypeInvPeerConnection ==
  ASSUME TypeInv, NEW i \in Pc, PeerConnection(i)
  PROVE  TypeInv'
<1> USE DEF TypeInv, TypeOK, RegistryInv, Created, pageVars, clientVars, pcVars, streamVars,
            handlerVars, PageTypeOK
<1>1. CASE OnGathered(i)
  <2>0. clientId[i] \in Id
    BY <1>1 DEF OnGathered
  <2>1. down' \in [Id -> Seq(Pc)]
    BY <1>1, <2>0 DEF OnGathered
  <2> QED
    BY <1>1, <2>1 DEF OnGathered
<1>2. CASE Connect(i)
  BY <1>2 DEF Connect, None
<1>3. CASE Lose(i)
  <2>1. i \in Created /\ OnStateChange(i, "disconnected")
    BY <1>3 DEF Lose, None
  <2>2. mq' \in Seq(Op)
    BY <2>1, OpsAreOps, DispatchFacts DEF OnStateChange
  <2>3. pcState' = [pcState EXCEPT ![i] = "disconnected"] /\ Created' = Created
    BY <2>1 DEF OnStateChange, None
  <2> QED
    BY <1>3, <2>2, <2>3 DEF Lose
<1>4. CASE Close(i)
  <2>1. i \in Created /\ OnStateChange(i, "closed")
    BY <1>4 DEF Close
  <2>2. mq' \in Seq(Op)
    BY <2>1, OpsAreOps, DispatchFacts DEF OnStateChange
  <2>3. pcState' = [pcState EXCEPT ![i] = "closed"] /\ Created' = Created
    BY <2>1 DEF OnStateChange, None
  <2> QED
    BY <1>4, <2>2, <2>3 DEF Close
<1>5. ASSUME NEW kind \in Kind, OnOpen(i, kind)
      PROVE  TypeInv'
  <2>1. mq' \in Seq(Op)
    BY <1>5, OpsAreOps, DispatchFacts DEF OnOpen
  <2> QED
    BY <1>5, <2>1 DEF OnOpen
<1> QED
  BY <1>1, <1>2, <1>3, <1>4, <1>5 DEF PeerConnection

(* A message arrives, or a page takes a step. *)
LEMMA TypeInvPage ==
  ASSUME TypeInv, NEW p \in Id, OnMessage(p) \/ PageOnly(p)
  PROVE  TypeInv'
<1> USE DEF TypeInv, TypeOK, RegistryInv, Created, clientVars, pcVars, streamVars, handlerVars
<1>1. CASE OnMessage(p)
  <2>1. up[p] \in Seq(Message) /\ up[p] # <<>>
    BY <1>1 DEF OnMessage, PageTypeOK
  <2>2. Head(up[p]) \in Message /\ Tail(up[p]) \in Seq(Message)
    BY <2>1
  <2>3. mq' \in Seq(Op)
    BY <1>1, <2>2, OpsAreOps, DispatchFacts DEF OnMessage
  <2>4. PageTypeOK'
    BY <1>1, <2>2 DEF OnMessage, PageTypeOK
  <2> QED
    BY <1>1, <2>3, <2>4 DEF OnMessage
<1>2. CASE PageOnly(p)
  <2>1. PageTypeOK'
    BY <1>2, PageTypes DEF PageOnly
  <2> QED
    BY <1>2, <2>1 DEF PageOnly
<1> QED
  BY <1>1, <1>2

LEMMA TypeInvStep == TypeInv /\ [Next]_vars => TypeInv'
<1> SUFFICES ASSUME TypeInv, [Next]_vars
             PROVE  TypeInv'
  OBVIOUS
<1>1. CASE MainThread
  BY <1>1, TypeInvMessage, TypeInvOperation
<1>2. CASE StreamQueue
  BY <1>2, TypeInvHandler
<1>3. ASSUME NEW p \in Id, OnMessage(p) \/ PageOnly(p)
      PROVE  TypeInv'
  BY <1>3, TypeInvPage
<1>4. ASSUME NEW i \in Pc, PeerConnection(i)
      PROVE  TypeInv'
  BY <1>4, TypeInvPeerConnection
<1>5. CASE UNCHANGED vars
  BY <1>5 DEF vars, pageVars, clientVars, pcVars, streamVars, handlerVars, TypeInv, TypeOK,
              RegistryInv, Created, PageTypeOK
<1>6. CASE Aside
  BY <1>6, AsideFacts DEF TypeInv, TypeOK, RegistryInv, Created, PageTypeOK
<1> QED
  BY <1>1, <1>2, <1>3, <1>4, <1>5, <1>6 DEF Next, Aside

(* The variables keep their types; a registered client exists and is        *)
(* registered under the id it was created for.                              *)
THEOREM TypeCorrect == Spec => []TypeOK
<1>1. TypeInv => TypeOK
  BY DEF TypeInv
<1> QED
  BY <1>1, TypeInvInit, TypeInvStep, PTL DEF Spec
-----------------------------------------------------------------------------
(***************************************************************************)
(* What addToStream relies on: an operation for a track exists only once   *)
(* the track has opened.                                                   *)
(***************************************************************************)
OpensInv == \A k \in DOMAIN mq : mq[k].op = "open" => mq[k].kind \in opened[mq[k].client]

LEMMA OpensAfterTake ==
  ASSUME TypeInv, OpensInv, NEW kind, Take(kind), UNCHANGED opened
  PROVE  OpensInv'
<1>1. mq \in Seq(Op) /\ mq # <<>> /\ mq' = Tail(mq)
  BY DEF TypeInv, TypeOK, Take
<1>2. \A k \in DOMAIN mq' : k + 1 \in DOMAIN mq /\ mq'[k] = mq[k + 1]
  BY <1>1
<1> QED
  BY <1>2 DEF OpensInv

LEMMA OpensAfterDispatch ==
  ASSUME TypeInv, OpensInv, NEW o \in Op, Dispatch(o),
         \A i \in Pc : opened[i] \subseteq opened'[i],
         o.op = "open" => o.kind \in opened'[o.client]
  PROVE  OpensInv'
<1>1. mq \in Seq(Op) /\ mq' = Append(mq, o)
  BY DEF TypeInv, TypeOK, Dispatch
<1>2. \A k \in DOMAIN mq' : (k \in DOMAIN mq /\ mq'[k] = mq[k]) \/ mq'[k] = o
  BY <1>1
<1>3. \A k \in DOMAIN mq : mq[k].op = "open" => mq[k].client \in Pc
  BY <1>1, OpFields
<1>4. \A k \in DOMAIN mq : mq[k].op = "open" => mq[k].kind \in opened'[mq[k].client]
  BY <1>3 DEF OpensInv
<1> QED
  BY <1>2, <1>4 DEF OpensInv

LEMMA OpensStep == TypeInv /\ OpensInv /\ [Next]_vars => OpensInv'
<1> SUFFICES ASSUME TypeInv, OpensInv, [Next]_vars
             PROVE  OpensInv'
  OBVIOUS
<1>t. opened \in [Pc -> SUBSET Kind]
  BY DEF TypeInv, TypeOK
<1>1. CASE MainThread
  <2>1. UNCHANGED opened
    BY <1>1 DEF MainThread, OnRequest, OnAnswer, Erase, OpenTooLate, FirstTrack, SecondTrack,
                SendInitialNalus, SetReady, StartStream, CheckClients, StopStream, pcVars
  <2>2. UNCHANGED mq \/ \E kind : Take(kind)
    BY <1>1 DEF MainThread, OnRequest, OnAnswer, Erase, OpenTooLate, FirstTrack, SecondTrack,
                SendInitialNalus, SetReady, StartStream, CheckClients, StopStream
  <2> QED
    BY <2>1, <2>2, OpensAfterTake DEF OpensInv
<1>2. CASE StreamQueue
  <2>1. UNCHANGED opened
    BY <1>2 DEF StreamQueue, BeginCollect, EndCollect, SendSample, pcVars
  <2>2. UNCHANGED mq \/ Dispatch([op |-> "check"])
    BY <1>2, CheckDispatched DEF StreamQueue, BeginCollect, EndCollect
  <2> QED
    BY <2>1, <2>2, OpsAreOps, OpensAfterDispatch DEF OpensInv
<1>3. ASSUME NEW p \in Id, OnMessage(p) \/ PageOnly(p)
      PROVE  OpensInv'
  <2>1. CASE OnMessage(p)
    <3>1. Head(up[p]) \in Message
      BY <2>1 DEF OnMessage, TypeInv, TypeOK, PageTypeOK
    <3>2. UNCHANGED opened /\ Dispatch([op |-> "message", id |-> p, message |-> Head(up[p])])
      BY <2>1 DEF OnMessage, pcVars
    <3> QED
      BY <3>1, <3>2, OpsAreOps, OpensAfterDispatch
  <2>2. CASE PageOnly(p)
    BY <2>2 DEF PageOnly, pcVars, OpensInv
  <2> QED
    BY <1>3, <2>1, <2>2
<1>4. ASSUME NEW i \in Pc, PeerConnection(i)
      PROVE  OpensInv'
  <2>1. CASE OnGathered(i) \/ Connect(i)
    BY <2>1 DEF OnGathered, Connect, OpensInv
  <2>2. CASE Lose(i) \/ Close(i)
    <3>1. i \in Created
      BY <2>2 DEF Lose, Close, Created, None
    <3>2. clientId[i] \in Id
      BY <3>1 DEF TypeInv, RegistryInv
    <3>3. UNCHANGED opened /\ Dispatch([op |-> "erase", id |-> clientId[i]])
      BY <2>2 DEF Lose, Close, OnStateChange
    <3> QED
      BY <3>2, <3>3, OpsAreOps, OpensAfterDispatch
  <2>3. ASSUME NEW kind \in Kind, OnOpen(i, kind)
        PROVE  OpensInv'
    <3>1. opened' = [opened EXCEPT ![i] = @ \cup {kind}]
      BY <2>3 DEF OnOpen
    <3>2. Dispatch([op |-> "open", client |-> i, kind |-> kind])
      BY <2>3 DEF OnOpen
    <3>3. kind \in opened'[i] /\ \A j \in Pc : opened[j] \subseteq opened'[j]
      BY <1>t, <3>1
    <3> QED
      BY <3>2, <3>3, OpsAreOps, OpensAfterDispatch
  <2> QED
    BY <1>4, <2>1, <2>2, <2>3 DEF PeerConnection
<1>5. CASE UNCHANGED vars
  BY <1>5 DEF vars, pcVars, OpensInv
<1>6. CASE Aside
  BY <1>6, AsideFacts DEF OpensInv
<1> QED
  BY <1>1, <1>2, <1>3, <1>4, <1>5, <1>6 DEF Next, Aside
-----------------------------------------------------------------------------
(***************************************************************************)
(* Admission.  The state of a client says which of its tracks have opened; *)
(* the client that MainThread admits is not Ready yet; the handler has     *)
(* collected only clients that are.                                        *)
(***************************************************************************)
Admitting == main.at \in {"nalus", "ready"}

AdmissionInv ==
  /\ \A i \in Pc :
       /\ clientState[i] = "WaitingForAudio" => "video" \in opened[i]
       /\ clientState[i] = "WaitingForVideo" => "audio" \in opened[i]
       /\ clientState[i] = "Ready" => opened[i] = Kind
       /\ clientState[i] # "Waiting" => i \in Created
  /\ Admitting => /\ main.client \in Created
                  /\ opened[main.client] = Kind
                  /\ clientState[main.client] \in {"WaitingForAudio", "WaitingForVideo"}
  /\ \A i \in tracks : clientState[i] = "Ready"

LEMMA AdmissionInit == Init => OpensInv /\ AdmissionInv
<1> SUFFICES ASSUME Init
             PROVE  OpensInv /\ AdmissionInv
  OBVIOUS
<1>1. OpensInv
  BY DEF Init, OpensInv
<1> QED
  BY <1>1 DEF Init, AdmissionInv, Admitting

(* Steps that have to do with something else. *)
LEMMA AdmissionKept ==
  ASSUME TypeInv, AdmissionInv, UNCHANGED clientState,
         \A i \in Pc : opened[i] \subseteq opened'[i] /\ opened'[i] \subseteq Kind,
         Created \subseteq Created',
         ~Admitting' \/ (Admitting /\ main'.client = main.client),
         tracks' \subseteq {i \in Pc : clientState[i] = "Ready"}
  PROVE  AdmissionInv'
<1>1. \A i \in Pc : opened[i] = Kind => opened'[i] = Kind
  OBVIOUS
<1>2. Created \subseteq Pc
  BY DEF Created
<1>3. \A i \in Pc :
        /\ clientState'[i] = "WaitingForAudio" => "video" \in opened'[i]
        /\ clientState'[i] = "WaitingForVideo" => "audio" \in opened'[i]
        /\ clientState'[i] = "Ready" => opened'[i] = Kind
        /\ clientState'[i] # "Waiting" => i \in Created'
  BY <1>1 DEF AdmissionInv
<1>4. Admitting' => /\ main'.client \in Created'
                   /\ opened'[main'.client] = Kind
                   /\ clientState'[main'.client] \in {"WaitingForAudio", "WaitingForVideo"}
  BY <1>1, <1>2 DEF AdmissionInv
<1>5. \A i \in tracks' : clientState'[i] = "Ready"
  OBVIOUS
<1> QED
  BY <1>3, <1>4, <1>5 DEF AdmissionInv

(* The steps of addToStream. *)
LEMMA AdmissionOpen ==
  ASSUME TypeInv, OpensInv, AdmissionInv, FirstTrack \/ SecondTrack
  PROVE  AdmissionInv'
<1>1. Take("open") /\ mq \in Seq(Op)
  BY DEF FirstTrack, SecondTrack, TypeInv, TypeOK
<1>2. First \in Op /\ First.op = "open"
  BY <1>1, TakeFacts
<1>3. First.client \in Pc /\ First.kind \in Kind
  BY <1>2, OpFields
<1>4. First.kind \in opened[First.client]
  <2>1. 1 \in DOMAIN mq /\ First = mq[1]
    BY <1>1 DEF Take, First
  <2> QED
    BY <1>2, <2>1 DEF OpensInv
<1>5. First.client \in Created
  BY DEF FirstTrack, SecondTrack, TypeInv, RegistryInv
<1>6. UNCHANGED <<opened, Created, tracks>>
  BY DEF FirstTrack, SecondTrack, pcVars, handlerVars, Created
<1>t. clientState \in [Pc -> {"Waiting", "WaitingForVideo", "WaitingForAudio", "Ready"}]
      /\ opened \in [Pc -> SUBSET Kind] /\ tracks \subseteq Pc
  BY DEF TypeInv, TypeOK
<1>7. CASE FirstTrack
  <2>1. /\ clientState[First.client] = "Waiting"
        /\ clientState' = [clientState EXCEPT ![First.client] =
                              IF First.kind = "video" THEN "WaitingForAudio" ELSE "WaitingForVideo"]
        /\ UNCHANGED main /\ main.at = "idle"
    BY <1>7, <1>1, TakeFacts DEF FirstTrack
  <2>2. First.kind = "video" \/ First.kind = "audio"
    BY <1>3 DEF Kind
  <2> QED
    BY <1>3, <1>4, <1>5, <1>6, <1>t, <2>1, <2>2 DEF AdmissionInv, Admitting
<1>8. CASE SecondTrack
  <2>1. /\ WaitsFor(First.client, First.kind)
        /\ main'.client = First.client
        /\ UNCHANGED clientState
    BY <1>8 DEF SecondTrack, clientVars
  <2>2. clientState[First.client] \in {"WaitingForAudio", "WaitingForVideo"}
    BY <2>1 DEF WaitsFor
  <2>3. opened[First.client] = Kind
    BY <1>3, <1>4, <1>t, <2>1 DEF WaitsFor, AdmissionInv, Kind
  <2> QED
    BY <1>5, <1>6, <2>1, <2>2, <2>3 DEF AdmissionInv
<1> QED
  BY <1>7, <1>8

LEMMA AdmissionReady ==
  ASSUME TypeInv, AdmissionInv, SetReady
  PROVE  AdmissionInv'
<1>1. /\ main.client \in Created /\ opened[main.client] = Kind
      /\ clientState' = [clientState EXCEPT ![main.client] = "Ready"]
      /\ main'.at = "start"
      /\ UNCHANGED <<opened, Created, tracks>>
  BY DEF SetReady, AdmissionInv, Admitting, pcVars, handlerVars, Created, TypeInv, TypeOK
<1>2. main.client \in Pc
  BY <1>1 DEF Created
<1> QED
  BY <1>1, <1>2 DEF AdmissionInv, Admitting, TypeInv, TypeOK

LEMMA AdmissionStep == TypeInv /\ OpensInv /\ AdmissionInv /\ [Next]_vars => AdmissionInv'
<1> SUFFICES ASSUME TypeInv, OpensInv, AdmissionInv, [Next]_vars
             PROVE  AdmissionInv'
  OBVIOUS
<1>t. /\ opened \in [Pc -> SUBSET Kind] /\ tracks \subseteq Pc /\ clients \in [Id -> Pc \cup {NoPc}]
      /\ tracks \subseteq {i \in Pc : clientState[i] = "Ready"}
      /\ pcState \in [Pc -> {None, "offering", "answered", "mismatched", "connected",
                             "disconnected", "closed"}]
  BY DEF TypeInv, TypeOK, AdmissionInv
<1>1. CASE OnRequest
  <2>1. Take("message") /\ \E i \in Pc : pcState' = [pcState EXCEPT ![i] = "offering"]
    BY <1>1 DEF OnRequest, CreatePeerConnection
  <2>2. Created \subseteq Created'
    BY <1>t, <2>1 DEF Created, None
  <2>3. UNCHANGED <<main, clientState, opened, tracks>>
    BY <1>1 DEF OnRequest
  <2> QED
    BY <1>t, <2>2, <2>3, AdmissionKept DEF Admitting
<1>2. CASE OnAnswer
  <2>1. UNCHANGED <<clientState, opened, tracks>>
    BY <1>2 DEF OnAnswer, clientVars, handlerVars
  <2>2. ~Admitting'
    BY <1>2 DEF OnAnswer, Crash, Take, Idle, Admitting
  <2>3. UNCHANGED pcState \/ \E i \in Pc, s \in {"answered", "mismatched"} :
                                pcState' = [pcState EXCEPT ![i] = s]
    <3>1. First.id \in Id
      BY <1>2, TakeFacts, OpFields DEF OnAnswer, TypeInv, TypeOK
    <3>2. clients[First.id] \in Pc \cup {NoPc}
      BY <1>t, <3>1
    <3> QED
      BY <1>2, <3>2 DEF OnAnswer
  <2>4. Created \subseteq Created'
    BY <1>t, <2>3 DEF Created, None
  <2> QED
    BY <1>t, <2>1, <2>2, <2>4, AdmissionKept
<1>3. CASE FirstTrack \/ SecondTrack
  BY <1>3, AdmissionOpen
<1>4. CASE SetReady
  BY <1>4, AdmissionReady
<1>5. CASE Erase \/ OpenTooLate \/ SendInitialNalus \/ StartStream \/ CheckClients \/ StopStream
  <2>1. UNCHANGED <<clientState, opened, tracks, pcState>>
    BY <1>5 DEF Erase, OpenTooLate, SendInitialNalus, StartStream, CheckClients, StopStream,
                clientVars, pcVars, handlerVars
  <2>2. ~Admitting' \/ (Admitting /\ main'.client = main.client)
    <3>1. CASE Erase \/ OpenTooLate
      BY <3>1 DEF Erase, OpenTooLate, Take, Idle, Admitting
    <3>2. CASE SendInitialNalus
      BY <3>2 DEF SendInitialNalus, Crash, Admitting, TypeInv, TypeOK
    <3>3. CASE StartStream \/ CheckClients \/ StopStream
      BY <3>3 DEF StartStream, CheckClients, StopStream, Idle, Crash, Admitting
    <3> QED
      BY <1>5, <3>1, <3>2, <3>3
  <2>3. Created \subseteq Created'
    BY <2>1 DEF Created
  <2> QED
    BY <1>t, <2>1, <2>2, <2>3, AdmissionKept
<1>6. CASE StreamQueue
  <2>1. UNCHANGED <<clientState, opened, main, pcState>>
    BY <1>6 DEF StreamQueue, BeginCollect, EndCollect, SendSample, clientVars, pcVars
  <2>2. tracks' \subseteq {i \in Pc : clientState[i] = "Ready"}
    <3>1. CASE BeginCollect
      BY <1>t, <3>1 DEF BeginCollect, ReadyClients, Registered
    <3>2. CASE EndCollect
      BY <3>2 DEF EndCollect, TypeInv, TypeOK
    <3>3. CASE SendSample
      BY <3>3 DEF SendSample
    <3> QED
      BY <1>6, <3>1, <3>2, <3>3 DEF StreamQueue
  <2>3. Created \subseteq Created'
    BY <2>1 DEF Created
  <2> QED
    BY <1>t, <2>1, <2>2, <2>3, AdmissionKept DEF Admitting
<1>7. ASSUME NEW p \in Id, OnMessage(p) \/ PageOnly(p)
      PROVE  AdmissionInv'
  <2>1. UNCHANGED <<clientState, opened, main, pcState, tracks>>
    BY <1>7 DEF OnMessage, PageOnly, clientVars, pcVars, handlerVars
  <2>2. Created \subseteq Created'
    BY <2>1 DEF Created
  <2> QED
    BY <1>t, <2>1, <2>2, AdmissionKept DEF Admitting
<1>8. ASSUME NEW i \in Pc, PeerConnection(i)
      PROVE  AdmissionInv'
  <2>1. UNCHANGED <<clientState, main, tracks>>
    BY <1>8 DEF PeerConnection, OnGathered, Connect, Lose, Close, OnOpen, clientVars, handlerVars
  <2>2. \A j \in Pc : opened[j] \subseteq opened'[j] /\ opened'[j] \subseteq Kind
    <3>1. UNCHANGED opened \/ \E kind \in Kind : opened' = [opened EXCEPT ![i] = @ \cup {kind}]
      BY <1>8 DEF PeerConnection, OnGathered, Connect, Lose, Close, OnOpen
    <3> QED
      BY <3>1, <1>t
  <2>3. UNCHANGED pcState \/ \E s \in {"connected", "disconnected", "closed"} :
                                pcState' = [pcState EXCEPT ![i] = s]
    BY <1>8 DEF PeerConnection, OnGathered, Connect, Lose, Close, OnOpen, OnStateChange
  <2>4. Created \subseteq Created'
    BY <1>t, <2>3 DEF Created, None
  <2> QED
    BY <1>t, <2>1, <2>2, <2>4, AdmissionKept DEF Admitting
<1>9. CASE UNCHANGED vars
  <2>1. UNCHANGED <<clientState, opened, main, pcState, tracks>>
    BY <1>9 DEF vars, clientVars, pcVars, handlerVars
  <2>2. Created \subseteq Created'
    BY <2>1 DEF Created
  <2> QED
    BY <1>t, <2>1, <2>2, AdmissionKept DEF Admitting
<1>10. CASE Aside
  <2>1. UNCHANGED <<clientState, opened, pcState, tracks>>
    BY <1>10, AsideFacts
  <2>2. ~Admitting' \/ (Admitting /\ main'.client = main.client)
    BY <1>10, AsideFacts DEF Admitting
  <2>3. Created \subseteq Created'
    BY <2>1 DEF Created
  <2> QED
    BY <1>t, <2>1, <2>2, <2>3, AdmissionKept
<1> QED
  BY <1>1, <1>2, <1>3, <1>4, <1>5, <1>6, <1>7, <1>8, <1>9, <1>10 DEF Next, MainThread, Aside

(* The handler sends only to clients both of whose tracks have opened: the *)
(* two onOpen callbacks have run, in whatever order, before setState(Ready)*)
(* and the handler collects only clients that are Ready.                   *)
THEOREM OpenTracksOnly == Spec => []SendsToOpenTracks
<1>1. TypeInv /\ AdmissionInv => SendsToOpenTracks
  BY DEF TypeInv, TypeOK, AdmissionInv, SendsToOpenTracks
<1> QED
  BY <1>1, TypeInvInit, TypeInvStep, AdmissionInit, OpensStep, AdmissionStep, PTL DEF Spec

(* sendInitialNalus and the handler never use the RTP configuration of one *)
(* client at a time.                                                       *)
THEOREM ConfigOwned == Spec => []RtpConfigOwned
<1>1. AdmissionInv => RtpConfigOwned
  BY DEF AdmissionInv, Admitting, RtpConfigOwned
<1> QED
  BY <1>1, TypeInvInit, TypeInvStep, AdmissionInit, OpensStep, AdmissionStep, PTL DEF Spec
-----------------------------------------------------------------------------
(***************************************************************************)
(* Who is Ready is served.  In mid-operation the promise has two           *)
(* exceptions: a client is Ready one step before startStream, and          *)
(* MainThread goes to stop the stream only when nobody is registered,      *)
(* which no other thread can change before it has.                         *)
(***************************************************************************)
ServedInv ==
  /\ main.at = "stop" => Registered = {}
  /\ ReadyClients # {} /\ ~isRunning => main.at \in {"start", "ended"}

LEMMA ServedInit == Init => ServedInv
BY DEF Init, ServedInv, ReadyClients, Registered

(* Steps that make nobody Ready, register nobody who is, and neither stop  *)
(* the stream nor go to stop it.                                           *)
LEMMA ServedKept ==
  ASSUME ServedInv, ReadyClients' \subseteq ReadyClients,
         isRunning => isRunning',
         main'.at = main.at \/ (main'.at # "stop" /\ (main.at # "start" \/ main'.at = "ended")),
         main.at = "ended" => main' = main,
         main'.at = "stop" => Registered' = Registered
  PROVE  ServedInv'
BY DEF ServedInv

LEMMA ServedStep == TypeInv /\ AdmissionInv /\ ServedInv /\ [Next]_vars => ServedInv'
<1> SUFFICES ASSUME TypeInv, AdmissionInv, ServedInv, [Next]_vars
             PROVE  ServedInv'
  OBVIOUS
<1>t. clients \in [Id -> Pc \cup {NoPc}]
      /\ clientState \in [Pc -> {"Waiting", "WaitingForVideo", "WaitingForAudio", "Ready"}]
  BY DEF TypeInv, TypeOK
<1>1. CASE OnRequest
  <2>1. /\ First.id \in Id
        /\ main.at = "idle"
    BY <1>1, TakeFacts, OpFields DEF OnRequest, TypeInv, TypeOK
  <2>2. PICK i \in Pc : /\ i \notin Created
                        /\ UNCHANGED clients \/ clients' = [clients EXCEPT ![First.id] = i]
    BY <1>1 DEF OnRequest, CreatePeerConnection
  <2>3. clientState[i] # "Ready"
    BY <2>2 DEF AdmissionInv
  <2>4. UNCHANGED <<main, clientState, isRunning>>
    BY <1>1 DEF OnRequest, streamVars
  <2>5. Registered' \subseteq Registered \cup {i}
    <3>1. CASE UNCHANGED clients
      BY <3>1 DEF Registered
    <3>2. CASE clients' = [clients EXCEPT ![First.id] = i]
      BY <1>t, <2>1, <3>2 DEF Registered
    <3> QED
      BY <2>2, <3>1, <3>2
  <2>6. ReadyClients' \subseteq ReadyClients
    BY <2>3, <2>4, <2>5 DEF ReadyClients
  <2> QED
    BY <2>1, <2>4, <2>6, ServedKept
<1>2. CASE Erase
  <2>1. First.id \in Id /\ main.at = "idle"
    BY <1>2, TakeFacts, OpFields DEF Erase, TypeInv, TypeOK
  <2>2. UNCHANGED <<main, clientState, isRunning>>
    BY <1>2 DEF Erase, streamVars
  <2>3. clients' = [clients EXCEPT ![First.id] = NoPc]
    BY <1>2 DEF Erase
  <2>4. Registered' \subseteq Registered
    BY <1>t, <2>1, <2>3 DEF Registered
  <2>5. ReadyClients' \subseteq ReadyClients
    BY <2>2, <2>4 DEF ReadyClients
  <2> QED
    BY <2>1, <2>2, <2>5, ServedKept
<1>3. CASE FirstTrack
  <2>1. First.client \in Pc
    BY <1>3, TakeFacts, OpFields DEF FirstTrack, TypeInv, TypeOK
  <2>2. \A i \in Pc : clientState'[i] = "Ready" => clientState[i] = "Ready"
    BY <1>3, <1>t, <2>1 DEF FirstTrack
  <2>3. UNCHANGED <<main, clients, isRunning, Registered>>
    BY <1>3 DEF FirstTrack, streamVars, Registered
  <2>4. Registered \subseteq Pc
    BY <1>t DEF Registered
  <2> QED
    BY <2>2, <2>3, <2>4, ServedKept DEF ReadyClients
<1>4. CASE SetReady
  BY <1>4 DEF SetReady, ServedInv, TypeInv, TypeOK
<1>5. CASE StopStream
  <2>1. ReadyClients = {}
    BY <1>5 DEF StopStream, ServedInv, ReadyClients
  <2>2. UNCHANGED ReadyClients /\ main'.at \in {"idle", "ended"}
    BY <1>5 DEF StopStream, Idle, Crash, clientVars, ReadyClients, Registered
  <2> QED
    BY <2>1, <2>2 DEF ServedInv
<1>6. CASE CheckClients
  <2>1. UNCHANGED <<Registered, ReadyClients, isRunning>> /\ main.at = "idle"
    BY <1>6 DEF CheckClients, Take, Idle, clientVars, streamVars, Registered, ReadyClients
  <2>2. (main'.at = "stop" /\ Registered = {}) \/ main'.at = "idle"
    BY <1>6 DEF CheckClients, Idle
  <2> QED
    BY <2>1, <2>2 DEF ServedInv, ReadyClients
<1>7. CASE StartStream
  <2>1. isRunning' /\ main'.at = "idle"
    BY <1>7 DEF StartStream, streamVars, Idle
  <2> QED
    BY <2>1 DEF ServedInv
<1>8. CASE OnAnswer \/ OpenTooLate \/ SecondTrack \/ SendInitialNalus
  <2>1. UNCHANGED <<Registered, ReadyClients, isRunning>>
    BY <1>8 DEF OnAnswer, OpenTooLate, SecondTrack, SendInitialNalus, clientVars, streamVars,
                Registered, ReadyClients
  <2>2. main.at \notin {"start", "ended"}
    BY <1>8 DEF OnAnswer, OpenTooLate, SecondTrack, SendInitialNalus, Take, Idle
  <2>3. main' = main \/ main'.at # "stop"
    BY <1>8 DEF OnAnswer, OpenTooLate, SecondTrack, SendInitialNalus, Crash, TypeInv, TypeOK
  <2> QED
    BY <2>1, <2>2, <2>3, ServedKept
<1>9. CASE StreamQueue \/ (\E p \in Id : OnMessage(p) \/ PageOnly(p))
           \/ (\E i \in Pc : PeerConnection(i)) \/ UNCHANGED vars
  <2>1. UNCHANGED <<clients, clientState, isRunning, main>>
    <3>1. CASE StreamQueue
      BY <3>1 DEF StreamQueue, BeginCollect, EndCollect, SendSample, clientVars, streamVars
    <3>2. CASE \E p \in Id : OnMessage(p) \/ PageOnly(p)
      BY <3>2 DEF OnMessage, PageOnly, clientVars, streamVars
    <3>3. CASE \E i \in Pc : PeerConnection(i)
      BY <3>3 DEF PeerConnection, OnGathered, Connect, Lose, Close, OnOpen, clientVars, streamVars
    <3>4. CASE UNCHANGED vars
      BY <3>4 DEF vars, clientVars, streamVars
    <3> QED
      BY <1>9, <3>1, <3>2, <3>3, <3>4
  <2> QED
    BY <2>1, ServedKept DEF ReadyClients, Registered
<1>10. CASE Aside
  <2>1. UNCHANGED <<clients, clientState, isRunning, tracks>>
        /\ (UNCHANGED main \/ main' = [at |-> "ended", client |-> NoPc])
    BY <1>10, AsideFacts
  <2>2. main.at # "ended" \/ UNCHANGED main
    BY <1>10 DEF Aside, OnMalformed, IterationFails, LoadNextSample, Running, Idle
  <2> QED
    BY <2>1, <2>2, ServedKept DEF ReadyClients, Registered
<1> QED
  BY <1>1, <1>2, <1>3, <1>4, <1>5, <1>6, <1>7, <1>8, <1>9, <1>10 DEF Next, MainThread, Aside

(* Whenever MainThread is between two operations and a registered client   *)
(* is Ready the stream is running: no check for clients that was dispatched*)
(* for viewers of the past stops it.                                       *)
THEOREM Served == Spec => []ReadyIsServed
<1>1. ServedInv => ReadyIsServed
  BY DEF ServedInv, ReadyIsServed, Idle
<1> QED
  BY <1>1, TypeInvInit, TypeInvStep, AdmissionInit, OpensStep, AdmissionStep, ServedInit,
     ServedStep, PTL DEF Spec
-----------------------------------------------------------------------------
(***************************************************************************)
(* Whoever is gone is erased.  The argument follows the erases in the      *)
(* queue: onStateChange adds one, and the only step that takes one away    *)
(* also removes whoever is registered under its id.                        *)
(***************************************************************************)
EraseAhead(p) == \E k \in DOMAIN mq : mq[k].op = "erase" /\ mq[k].id = p

LEMMA EraseAfterTake ==
  ASSUME TypeInv, NEW kind, Take(kind), NEW p, EraseAhead(p),
         kind = "erase" => First.id # p
  PROVE  EraseAhead(p)'
<1>1. mq \in Seq(Op) /\ mq # <<>> /\ mq' = Tail(mq) /\ First = mq[1] /\ First.op = kind
  BY DEF TypeInv, TypeOK, Take, First
<1>2. PICK k \in DOMAIN mq : mq[k].op = "erase" /\ mq[k].id = p
  BY DEF EraseAhead
<1>3. k # 1
  BY <1>1, <1>2
<1>4. k - 1 \in DOMAIN mq' /\ mq'[k - 1] = mq[k]
  BY <1>1, <1>3
<1> QED
  BY <1>2, <1>4 DEF EraseAhead

LEMMA EraseAfterDispatch ==
  ASSUME TypeInv, NEW o \in Op, Dispatch(o), NEW p,
         EraseAhead(p) \/ (o.op = "erase" /\ o.id = p)
  PROVE  EraseAhead(p)'
<1>1. mq \in Seq(Op) /\ mq' = Append(mq, o)
  BY DEF TypeInv, TypeOK, Dispatch
<1>2. /\ \A k \in DOMAIN mq : k \in DOMAIN mq' /\ mq'[k] = mq[k]
      /\ Len(mq) + 1 \in DOMAIN mq' /\ mq'[Len(mq) + 1] = o
  BY <1>1
<1> QED
  BY <1>2 DEF EraseAhead

LEMMA EraseInit == Init => EraseScheduled
BY DEF Init, EraseScheduled, Registered

(* Steps that register nobody and after which nobody else is gone. *)
LEMMA EraseKept ==
  ASSUME TypeInv, EraseScheduled, UNCHANGED <<clients, clientId>>,
         \A i \in Pc : Gone(i)' => Gone(i),
         \A p \in Id : EraseAhead(p) => EraseAhead(p)'
  PROVE  EraseScheduled'
<1>1. \A i \in Registered : i \in Pc /\ clientId[i] \in Id
  BY DEF Registered, TypeInv, TypeOK
<1>2. UNCHANGED Registered
  BY DEF Registered
<1> QED
  BY <1>1, <1>2 DEF EraseScheduled, EraseAhead

LEMMA EraseStep == TypeInv /\ EraseScheduled /\ [Next]_vars => EraseScheduled'
<1> SUFFICES ASSUME TypeInv, EraseScheduled, [Next]_vars
             PROVE  EraseScheduled'
  OBVIOUS
<1>t. /\ clients \in [Id -> Pc \cup {NoPc}]
      /\ clientId \in [Pc -> Id \cup {None}]
      /\ pcState \in [Pc -> {None, "offering", "answered", "mismatched", "connected",
                             "disconnected", "closed"}]
      /\ \A p \in Id : clients[p] # NoPc => clientId[clients[p]] = p /\ clients[p] \in Created
  BY DEF TypeInv, TypeOK, RegistryInv
<1>a. \A p \in Id : clients[p] # NoPc /\ Gone(clients[p]) => EraseAhead(p)
  BY <1>t DEF EraseScheduled, EraseAhead, Registered
<1>1. CASE OnRequest
  <2>1. Take("message") /\ First.id \in Id
    BY <1>1, TakeFacts, OpFields DEF OnRequest, TypeInv, TypeOK
  <2>2. PICK i \in Pc : /\ i \notin Created
                        /\ pcState' = [pcState EXCEPT ![i] = "offering"]
                        /\ UNCHANGED clients \/ clients' = [clients EXCEPT ![First.id] = i]
    BY <1>1 DEF OnRequest, CreatePeerConnection
  <2>3. \A p \in Id : EraseAhead(p) => EraseAhead(p)'
    BY <2>1, EraseAfterTake
  <2>4. \A p \in Id : clients'[p] = clients[p] \/ clients'[p] = i
    BY <1>t, <2>1, <2>2
  <2>5. \A j \in Pc : Gone(j)' => Gone(j) /\ j # i
    BY <1>t, <2>2 DEF Gone
  <2>6. \A p \in Id : clients'[p] # NoPc /\ pcState'[clients'[p]] \in {"disconnected", "closed"}
          => EraseAhead(p)'
    <3> SUFFICES ASSUME NEW p \in Id, clients'[p] # NoPc,
                        pcState'[clients'[p]] \in {"disconnected", "closed"}
                 PROVE  EraseAhead(p)'
      OBVIOUS
    <3>1. clients'[p] = clients[p]
      BY <1>t, <2>2, <2>4
    <3>2. clients[p] \in Pc /\ Gone(clients[p])
      BY <1>t, <2>2, <3>1 DEF Gone
    <3> QED
      BY <1>a, <2>3, <3>1, <3>2
  <2>7. TypeInv'
    BY <1>1, TypeInvMessage
  <2>8. \A j \in Registered' : \E p \in Id : j = clients'[p] /\ clientId'[j] = p /\ j # NoPc
    BY <2>7 DEF Registered, TypeInv, TypeOK
  <2> QED
    BY <2>6, <2>8 DEF EraseScheduled, EraseAhead, Gone
<1>2. CASE Erase
  <2>1. Take("erase") /\ First.id \in Id
    BY <1>2, TakeFacts, OpFields DEF Erase, TypeInv, TypeOK
  <2>2. clients' = [clients EXCEPT ![First.id] = NoPc] /\ UNCHANGED <<clientId, pcState>>
    BY <1>2 DEF Erase, pcVars
  <2>3. \A p \in Id : clients'[p] # NoPc => p # First.id /\ clients'[p] = clients[p]
    BY <1>t, <2>1, <2>2
  <2>4. \A p \in Id : p # First.id /\ EraseAhead(p) => EraseAhead(p)'
    BY <2>1, EraseAfterTake
  <2>5. \A i \in Registered' : \E p \in Id : p # First.id /\ i = clients[p] /\ i # NoPc
    BY <2>3 DEF Registered
  <2>6. \A i \in Registered' : Gone(i)' => EraseAhead(clientId[i])'
    BY <1>t, <1>a, <2>2, <2>4, <2>5 DEF Gone
  <2> QED
    BY <2>2, <2>6 DEF EraseScheduled, EraseAhead
<1>3. CASE OnAnswer
  <2>1. Take("message") /\ First.id \in Id
    BY <1>3, TakeFacts, OpFields DEF OnAnswer, TypeInv, TypeOK
  <2>2. clients[First.id] \in Pc \cup {NoPc}
    BY <1>t, <2>1
  <2>3. UNCHANGED pcState \/ \E i \in Pc, s \in {"answered", "mismatched"} :
                                pcState' = [pcState EXCEPT ![i] = s]
    BY <1>3, <2>2 DEF OnAnswer
  <2>4. \A i \in Pc : Gone(i)' => Gone(i)
    BY <1>t, <2>3 DEF Gone
  <2>5. UNCHANGED <<clients, clientId>>
    BY <1>3 DEF OnAnswer, clientVars
  <2> QED
    BY <2>1, <2>4, <2>5, EraseAfterTake, EraseKept
<1>4. CASE OpenTooLate \/ FirstTrack \/ SecondTrack \/ CheckClients
  <2>1. UNCHANGED <<clients, clientId, pcState>>
    BY <1>4 DEF OpenTooLate, FirstTrack, SecondTrack, CheckClients, clientVars, pcVars
  <2>2. Take("open") \/ Take("check")
    BY <1>4 DEF OpenTooLate, FirstTrack, SecondTrack, CheckClients
  <2>3. \A p \in Id : EraseAhead(p) => EraseAhead(p)'
    BY <2>2, EraseAfterTake
  <2> QED
    BY <2>1, <2>3, EraseKept DEF Gone
<1>5. CASE SendInitialNalus \/ SetReady \/ StartStream \/ StopStream \/ BeginCollect \/ EndCollect
           \/ (\E p \in Id : PageOnly(p)) \/ Aside \/ UNCHANGED vars
  <2>1. UNCHANGED <<clients, clientId, pcState, mq>>
    BY <1>5, AsideFacts DEF SendInitialNalus, SetReady, StartStream, StopStream, BeginCollect, EndCollect,
                PageOnly, vars, clientVars, pcVars
  <2> QED
    BY <2>1, EraseKept DEF Gone, EraseAhead
<1>6. CASE SendSample
  <2>1. UNCHANGED <<clients, clientId, pcState>>
    BY <1>6 DEF SendSample, clientVars, pcVars
  <2>2. CASE UNCHANGED mq
    BY <2>1, <2>2, EraseKept DEF Gone, EraseAhead
  <2>3. CASE Dispatch([op |-> "check"])
    BY <2>1, <2>3, OpsAreOps, EraseAfterDispatch, EraseKept DEF Gone
  <2> QED
    BY <1>6, <2>2, <2>3, CheckDispatched
<1>7. ASSUME NEW p \in Id, OnMessage(p)
      PROVE  EraseScheduled'
  <2>1. Head(up[p]) \in Message
    BY <1>7 DEF OnMessage, TypeInv, TypeOK, PageTypeOK
  <2>2. /\ UNCHANGED <<clients, clientId, pcState>>
        /\ Dispatch([op |-> "message", id |-> p, message |-> Head(up[p])])
    BY <1>7 DEF OnMessage, clientVars, pcVars
  <2> QED
    BY <2>1, <2>2, OpsAreOps, EraseAfterDispatch, EraseKept DEF Gone
<1>8. ASSUME NEW i \in Pc, OnGathered(i) \/ Connect(i)
      PROVE  EraseScheduled'
  <2>1. UNCHANGED <<clients, clientId, mq>>
    BY <1>8 DEF OnGathered, Connect, clientVars
  <2>2. \A j \in Pc : Gone(j)' => Gone(j)
    BY <1>8, <1>t DEF OnGathered, Connect, Gone
  <2> QED
    BY <2>1, <2>2, EraseKept DEF EraseAhead
<1>9. ASSUME NEW i \in Pc, NEW kind \in Kind, OnOpen(i, kind)
      PROVE  EraseScheduled'
  <2>1. /\ UNCHANGED <<clients, clientId, pcState>>
        /\ Dispatch([op |-> "open", client |-> i, kind |-> kind])
    BY <1>9 DEF OnOpen, clientVars
  <2> QED
    BY <2>1, OpsAreOps, EraseAfterDispatch, EraseKept DEF Gone
<1>10. ASSUME NEW i \in Pc, Lose(i) \/ Close(i)
       PROVE  EraseScheduled'
  <2>1. i \in Created
    BY <1>10 DEF Lose, Close, Created, None
  <2>2. clientId[i] \in Id
    BY <2>1 DEF TypeInv, RegistryInv
  <2>3. /\ UNCHANGED <<clients, clientId>>
        /\ Dispatch([op |-> "erase", id |-> clientId[i]])
    BY <1>10 DEF Lose, Close, OnStateChange, clientVars
  <2>4. \A j \in Pc : Gone(j)' => Gone(j) \/ j = i
    BY <1>10, <1>t DEF Lose, Close, OnStateChange, Gone
  <2>5. \A p \in Id : EraseAhead(p) => EraseAhead(p)'
    BY <2>2, <2>3, OpsAreOps, EraseAfterDispatch
  <2>6. EraseAhead(clientId[i])'
    BY <2>2, <2>3, OpsAreOps, EraseAfterDispatch
  <2>7. Registered' = Registered /\ Registered \subseteq Pc /\ \A j \in Registered : clientId[j] \in Id
    BY <1>t, <2>3 DEF Registered
  <2>8. \A j \in Registered' : Gone(j)' => EraseAhead(clientId[j])'
    BY <2>3, <2>4, <2>5, <2>6, <2>7 DEF EraseScheduled, EraseAhead
  <2> QED
    BY <2>8 DEF EraseScheduled, EraseAhead
<1> QED
  BY <1>1, <1>2, <1>3, <1>4, <1>5, <1>6, <1>7, <1>8, <1>9, <1>10
     DEF Next, MainThread, StreamQueue, Aside, PeerConnection

(* A registered client whose peer connection has reported Disconnected,    *)
(* Failed or Closed has an erase of its id in the queue of MainThread.     *)
THEOREM EraseAlwaysScheduled == Spec => []EraseScheduled
<1> QED
  BY TypeInvInit, TypeInvStep, EraseInit, EraseStep, PTL DEF Spec
-----------------------------------------------------------------------------
(***************************************************************************)
(* What an erase removes.  Every erase in the queue was dispatched at the  *)
(* end of a peer connection made for its id, and an end is final; so when  *)
(* it removes a client that is not gone, that was another client's.        *)
(***************************************************************************)
CausedBy(p) == \E i \in Pc : clientId[i] = p /\ Gone(i)

CauseInv == \A k \in DOMAIN mq : mq[k].op = "erase" => CausedBy(mq[k].id)

LEMMA CauseInit == Init => CauseInv
BY DEF Init, CauseInv

(* Steps that leave the queue alone or shorten it. *)
LEMMA CauseAfterTake ==
  ASSUME TypeInv, CauseInv, UNCHANGED mq \/ \E kind : Take(kind),
         \A p : CausedBy(p) => CausedBy(p)'
  PROVE  CauseInv'
<1>1. mq \in Seq(Op)
  BY DEF TypeInv, TypeOK
<1>2. CASE UNCHANGED mq
  BY <1>2 DEF CauseInv, CausedBy
<1>3. ASSUME NEW kind, Take(kind)
      PROVE  CauseInv'
  <2>1. mq # <<>> /\ mq' = Tail(mq)
    BY <1>3 DEF Take
  <2>2. \A k \in DOMAIN mq' : k + 1 \in DOMAIN mq /\ mq'[k] = mq[k + 1]
    BY <1>1, <2>1
  <2>3. \A k \in DOMAIN mq' : mq'[k].op = "erase" => CausedBy(mq'[k].id)
    BY <2>2 DEF CauseInv
  <2> QED
    BY <2>3 DEF CauseInv, CausedBy
<1> QED
  BY <1>2, <1>3

LEMMA CauseAfterDispatch ==
  ASSUME TypeInv, CauseInv, NEW o \in Op, Dispatch(o),
         \A p : CausedBy(p) => CausedBy(p)',
         o.op = "erase" => CausedBy(o.id)'
  PROVE  CauseInv'
<1>1. mq \in Seq(Op) /\ mq' = Append(mq, o)
  BY DEF TypeInv, TypeOK, Dispatch
<1>2. \A k \in DOMAIN mq' : (k \in DOMAIN mq /\ mq'[k] = mq[k]) \/ mq'[k] = o
  BY <1>1
<1>3. \A p : \A k \in DOMAIN mq : mq[k].op = "erase" /\ mq[k].id = p => CausedBy(p)'
  BY DEF CauseInv
<1>4. \A p : \A k \in DOMAIN mq' : mq'[k].op = "erase" /\ mq'[k].id = p => CausedBy(p)'
  BY <1>2, <1>3
<1> QED
  BY <1>4 DEF CauseInv, CausedBy

LEMMA CauseStep == TypeInv /\ CauseInv /\ [Next]_vars => CauseInv'
<1> SUFFICES ASSUME TypeInv, CauseInv, [Next]_vars
             PROVE  CauseInv'
  OBVIOUS
<1>t. /\ clientId \in [Pc -> Id \cup {None}]
      /\ pcState \in [Pc -> {None, "offering", "answered", "mismatched", "connected",
                             "disconnected", "closed"}]
  BY DEF TypeInv, TypeOK
<1>1. CASE OnRequest
  <2>1. PICK i \in Pc : CreatePeerConnection(i, First.id)
    BY <1>1 DEF OnRequest
  <2>2. \A j \in Pc : Gone(j) => j # i /\ pcState'[j] = pcState[j] /\ clientId'[j] = clientId[j]
    BY <1>t, <2>1 DEF CreatePeerConnection, Created, Gone, None
  <2>3. \A p : CausedBy(p) => CausedBy(p)'
    BY <2>2 DEF CausedBy, Gone
  <2>4. Take("message")
    BY <1>1 DEF OnRequest
  <2> QED
    BY <2>3, <2>4, CauseAfterTake
<1>2. CASE OnAnswer
  <2>1. UNCHANGED clientId /\ Take("message")
    BY <1>2 DEF OnAnswer, clientVars
  <2>2. \A j \in Pc : Gone(j) => Gone(j)'
    BY <1>2, <1>t DEF OnAnswer, Gone
  <2>3. \A p : CausedBy(p) => CausedBy(p)'
    BY <2>1, <2>2 DEF CausedBy
  <2> QED
    BY <2>1, <2>3, CauseAfterTake
<1>3. CASE Erase \/ OpenTooLate \/ FirstTrack \/ SecondTrack \/ CheckClients
           \/ SendInitialNalus \/ SetReady \/ StartStream \/ StopStream
           \/ BeginCollect \/ EndCollect \/ (\E p \in Id : PageOnly(p)) \/ Aside \/ UNCHANGED vars
  <2>1. UNCHANGED <<clientId, pcState>>
    BY <1>3, AsideFacts DEF Erase, OpenTooLate, FirstTrack, SecondTrack, CheckClients, SendInitialNalus,
                SetReady, StartStream, StopStream, BeginCollect, EndCollect, PageOnly, vars,
                clientVars, pcVars
  <2>2. UNCHANGED mq \/ \E kind : Take(kind)
    BY <1>3, AsideFacts DEF Erase, OpenTooLate, FirstTrack, SecondTrack, CheckClients, SendInitialNalus,
                SetReady, StartStream, StopStream, BeginCollect, EndCollect, PageOnly, vars
  <2>3. \A p : CausedBy(p) => CausedBy(p)'
    BY <2>1 DEF CausedBy, Gone
  <2> QED
    BY <2>2, <2>3, CauseAfterTake
<1>4. CASE SendSample
  <2>1. UNCHANGED <<clientId, pcState>>
    BY <1>4 DEF SendSample, clientVars, pcVars
  <2>2. \A p : CausedBy(p) => CausedBy(p)'
    BY <2>1 DEF CausedBy, Gone
  <2>3. UNCHANGED mq \/ Dispatch([op |-> "check"])
    BY <1>4, CheckDispatched
  <2> QED
    BY <2>2, <2>3, OpsAreOps, CauseAfterTake, CauseAfterDispatch
<1>5. ASSUME NEW p \in Id, OnMessage(p)
      PROVE  CauseInv'
  <2>1. Head(up[p]) \in Message
    BY <1>5 DEF OnMessage, TypeInv, TypeOK, PageTypeOK
  <2>2. /\ UNCHANGED <<clientId, pcState>>
        /\ Dispatch([op |-> "message", id |-> p, message |-> Head(up[p])])
    BY <1>5 DEF OnMessage, clientVars, pcVars
  <2>3. \A q : CausedBy(q) => CausedBy(q)'
    BY <2>2 DEF CausedBy, Gone
  <2> QED
    BY <2>1, <2>2, <2>3, OpsAreOps, CauseAfterDispatch
<1>6. ASSUME NEW i \in Pc, OnGathered(i) \/ Connect(i)
      PROVE  CauseInv'
  <2>1. UNCHANGED <<clientId, mq>>
    BY <1>6 DEF OnGathered, Connect, clientVars
  <2>2. \A j \in Pc : Gone(j) => Gone(j)'
    BY <1>6, <1>t DEF OnGathered, Connect, Gone
  <2>3. \A p : CausedBy(p) => CausedBy(p)'
    BY <2>1, <2>2 DEF CausedBy
  <2> QED
    BY <2>1, <2>3, CauseAfterTake
<1>7. ASSUME NEW i \in Pc, NEW kind \in Kind, OnOpen(i, kind)
      PROVE  CauseInv'
  <2>1. /\ UNCHANGED <<clientId, pcState>>
        /\ Dispatch([op |-> "open", client |-> i, kind |-> kind])
    BY <1>7 DEF OnOpen, clientVars
  <2>2. \A p : CausedBy(p) => CausedBy(p)'
    BY <2>1 DEF CausedBy, Gone
  <2> QED
    BY <2>1, <2>2, OpsAreOps, CauseAfterDispatch
<1>8. ASSUME NEW i \in Pc, Lose(i) \/ Close(i)
      PROVE  CauseInv'
  <2>1. i \in Created
    BY <1>8 DEF Lose, Close, Created, None
  <2>2. clientId[i] \in Id
    BY <2>1 DEF TypeInv, RegistryInv
  <2>3. UNCHANGED clientId /\ Dispatch([op |-> "erase", id |-> clientId[i]])
    BY <1>8 DEF Lose, Close, OnStateChange, clientVars
  <2>4. Gone(i)' /\ \A j \in Pc : Gone(j) => Gone(j)'
    BY <1>8, <1>t DEF Lose, Close, OnStateChange, Gone
  <2>5. CausedBy(clientId[i])' /\ \A p : CausedBy(p) => CausedBy(p)'
    BY <2>3, <2>4 DEF CausedBy
  <2> QED
    BY <2>2, <2>3, <2>5, OpsAreOps, CauseAfterDispatch
<1> QED
  BY <1>1, <1>2, <1>3, <1>4, <1>5, <1>6, <1>7, <1>8
     DEF Next, MainThread, StreamQueue, Aside, PeerConnection

(* Entries are removed by erases only. *)
LEMMA ErasesOnly ==
  ASSUME TypeInv, [Next]_vars, NEW p \in Id, clients[p] # NoPc, clients'[p] = NoPc
  PROVE  Take("erase") /\ First.id = p
<1>t. clients \in [Id -> Pc \cup {NoPc}]
  BY DEF TypeInv, TypeOK
<1>1. CASE OnRequest
  BY <1>1, <1>t, NoPcIsNone DEF OnRequest
<1>2. CASE Erase
  BY <1>2, <1>t DEF Erase
<1>3. CASE OnAnswer \/ OpenTooLate \/ FirstTrack \/ SecondTrack \/ CheckClients
           \/ SendInitialNalus \/ SetReady \/ StartStream \/ StopStream
           \/ StreamQueue \/ UNCHANGED vars
  BY <1>3 DEF OnAnswer, OpenTooLate, FirstTrack, SecondTrack, CheckClients, SendInitialNalus,
              SetReady, StartStream, StopStream, StreamQueue, BeginCollect, EndCollect,
              SendSample, vars, clientVars
<1>4. CASE (\E q \in Id : OnMessage(q) \/ PageOnly(q)) \/ (\E i \in Pc : PeerConnection(i))
  BY <1>4 DEF OnMessage, PageOnly, PeerConnection, OnGathered, Connect, Lose, Close, OnOpen,
              clientVars
<1>5. CASE Aside
  BY <1>5, AsideFacts
<1> QED
  BY <1>1, <1>2, <1>3, <1>4, <1>5 DEF Next, MainThread, Aside

(* A client that is connected, or may still become so, loses its entry     *)
(* only to the end of another peer connection of the same id.              *)
THEOREM LiveErasedByReuse == Spec => ErasesLiveOnlyByReuse
<1>1. ASSUME TypeInv, CauseInv, [Next]_vars, NEW p \in Id,
             clients[p] # NoPc, clients'[p] = NoPc, ~Gone(clients[p])
      PROVE  \E i \in Created \ {clients[p]} : clientId[i] = p /\ Gone(i)
  <2>1. Take("erase") /\ First.id = p
    BY <1>1, ErasesOnly
  <2>2. 1 \in DOMAIN mq /\ mq[1] = First /\ First.op = "erase"
    BY <1>1, <2>1 DEF Take, First, TypeInv, TypeOK
  <2>3. PICK i \in Pc : clientId[i] = p /\ Gone(i)
    BY <1>1, <2>1, <2>2 DEF CauseInv, CausedBy
  <2>4. i \in Created /\ i # clients[p]
    BY <1>1, <2>3 DEF Gone, Created, None
  <2> QED
    BY <2>3, <2>4
<1>2. TypeInv /\ CauseInv /\ [Next]_vars =>
        [\A p \in Id : clients[p] # NoPc /\ clients'[p] = NoPc /\ ~Gone(clients[p])
           => \E i \in Created \ {clients[p]} : clientId[i] = p /\ Gone(i)]_vars
  BY <1>1
<1> QED
  BY <1>2, TypeInvInit, TypeInvStep, CauseInit, CauseStep, PTL DEF Spec, ErasesLiveOnlyByReuse
-----------------------------------------------------------------------------
(***************************************************************************)
(* What ends the process.  The argument follows the answer to an offer on  *)
(* its way: the offer to the page, what the page makes of it, the answer   *)
(* to the streamer and the operation for it.                               *)
(***************************************************************************)
In(q, m) == \E k \in DOMAIN q : q[k] = m
Once(q, m) == \A j, k \in DOMAIN q : q[j] = m /\ q[k] = m => j = k

Arrived(p, i) == [op |-> "message", id |-> p, message |-> Answer(i)]

Place == {"down", "page", "up", "mq"}

Pending(x, p, i) ==
    \/ x = "down" /\ In(down[p], i)
    \/ x = "page" /\ i \in answering[p]
    \/ x = "up" /\ In(up[p], Answer(i))
    \/ x = "mq" /\ In(mq, Arrived(p, i))

Quiet(p, i) == \A x \in Place : ~Pending(x, p, i)

(* There is at most one answer for client i, and it is under its id. *)
OneAnswer(p, i) ==
    /\ ~Quiet(p, i) => i \in gathered /\ i \in Created /\ clientId[i] = p
    /\ \A x, y \in Place : Pending(x, p, i) /\ Pending(y, p, i) => x = y
    /\ Once(down[p], i) /\ Once(up[p], Answer(i)) /\ Once(mq, Arrived(p, i))

Shared(i) == \E j \in Created \ {i} : clientId[j] = clientId[i]

AnswerInv == \A p \in Id, i \in Pc : OneAnswer(p, i)

(* A client with an id of its own that has had an answer gets no other. *)
AnsweredInv ==
    \A i \in alive : pcState[i] # "offering" =>
        Shared(i) \/ (i \in gathered /\ Quiet(clientId[i], i))

LEMMA InTail ==
  ASSUME NEW S, NEW q \in Seq(S), q # <<>>, NEW m
  PROVE  /\ In(Tail(q), m) => In(q, m)
         /\ Once(q, m) => Once(Tail(q), m)
         /\ Once(q, m) /\ Head(q) = m => ~In(Tail(q), m)
         /\ Head(q) = m => In(q, m)
<1>1. \A k \in DOMAIN Tail(q) : k \in Nat /\ k + 1 \in DOMAIN q /\ Tail(q)[k] = q[k + 1]
  OBVIOUS
<1>2. 1 \in DOMAIN q /\ Head(q) = q[1]
  OBVIOUS
<1>3. In(Tail(q), m) => In(q, m)
  BY <1>1 DEF In
<1>4. ASSUME Once(q, m) PROVE Once(Tail(q), m)
  <2>1. \A j, k \in DOMAIN Tail(q) : Tail(q)[j] = m /\ Tail(q)[k] = m => j + 1 = k + 1
    BY <1>1, <1>4 DEF Once
  <2> QED
    BY <1>1, <2>1 DEF Once
<1>5. ASSUME Once(q, m), Head(q) = m PROVE ~In(Tail(q), m)
  <2>1. \A k \in DOMAIN Tail(q) : q[k + 1] = m => k + 1 = 1
    BY <1>1, <1>2, <1>5 DEF Once
  <2> QED
    BY <1>1, <2>1 DEF In
<1> QED
  BY <1>2, <1>3, <1>4, <1>5 DEF In

LEMMA InAppend ==
  ASSUME NEW S, NEW q \in Seq(S), NEW x \in S, NEW m
  PROVE  /\ In(Append(q, x), m) => In(q, m) \/ x = m
         /\ Once(q, m) /\ (x = m => ~In(q, m)) => Once(Append(q, x), m)
<1>1. \A k \in DOMAIN Append(q, x) : \/ k \in DOMAIN q /\ Append(q, x)[k] = q[k]
                                     \/ k = Len(q) + 1 /\ Append(q, x)[k] = x
  OBVIOUS
<1>2. In(Append(q, x), m) => In(q, m) \/ x = m
  BY <1>1 DEF In
<1>3. ASSUME Once(q, m), x = m => ~In(q, m)
      PROVE  Once(Append(q, x), m)
  <2>1. CASE x = m
    <3>1. \A k \in DOMAIN Append(q, x) : Append(q, x)[k] = m => k = Len(q) + 1
      BY <1>1, <1>3, <2>1 DEF In
    <3> QED
      BY <3>1 DEF Once
  <2>2. CASE x # m
    BY <1>1, <1>3, <2>2 DEF Once
  <2> QED
    BY <2>1, <2>2
<1> QED
  BY <1>2, <1>3

LEMMA MessagesDiffer ==
  /\ \A i : Request # Answer(i)
  /\ \A i, j : Answer(i) = Answer(j) => i = j
  /\ \A p, q, i, m : [op |-> "message", id |-> q, message |-> m] = Arrived(p, i)
                       => q = p /\ m = Answer(i)
BY DEF Request, Answer, Arrived

(* The clients that exist, and their ids, stay. *)
ClientsStay ==
    /\ gathered \subseteq gathered'
    /\ \A i \in Created : i \in Created' /\ clientId'[i] = clientId[i]

Onces(p, i) == Once(down[p], i) /\ Once(up[p], Answer(i)) /\ Once(mq, Arrived(p, i))

(* An answer stays where it is or is lost. *)
LEMMA FewerPlaces ==
  ASSUME NEW p, NEW i, OneAnswer(p, i), ClientsStay, Onces(p, i)',
         \A x \in Place : Pending(x, p, i)' => Pending(x, p, i)
  PROVE  OneAnswer(p, i)' /\ (Quiet(p, i) => Quiet(p, i)')
<1>1. Quiet(p, i) => Quiet(p, i)'
  BY DEF Quiet
<1>2. \A x, y \in Place : Pending(x, p, i)' /\ Pending(y, p, i)' => x = y
  BY DEF OneAnswer
<1>3. ~Quiet(p, i)' => i \in gathered' /\ i \in Created' /\ clientId'[i] = p
  BY <1>1 DEF OneAnswer, ClientsStay
<1> QED
  BY <1>1, <1>2, <1>3 DEF OneAnswer, Onces

(* It moves on. *)
LEMMA MovedPlace ==
  ASSUME NEW p, NEW i, OneAnswer(p, i), ClientsStay, Onces(p, i)',
         NEW from \in Place, NEW to \in Place, Pending(from, p, i), ~Pending(from, p, i)',
         \A x \in Place \ {to} : Pending(x, p, i)' => Pending(x, p, i)
  PROVE  OneAnswer(p, i)' /\ ~Quiet(p, i)
<1>1. \A x \in Place : Pending(x, p, i) => x = from
  BY DEF OneAnswer
<1>2. \A x \in Place : Pending(x, p, i)' => x = to
  BY <1>1
<1>3. ~Quiet(p, i)
  BY DEF Quiet
<1>4. i \in gathered' /\ i \in Created' /\ clientId'[i] = p
  BY <1>3 DEF OneAnswer, ClientsStay
<1> QED
  BY <1>2, <1>3, <1>4 DEF OneAnswer, Onces

(* No answer that was dealt with comes back. *)
QuietKept == \A p \in Id, i \in Pc : i \in gathered /\ Quiet(p, i) => Quiet(p, i)'

(* Operations that are taken, or are not messages, bring no answer. *)
LEMMA NoAnswerDispatched ==
  ASSUME TypeInv, NEW p \in Id, NEW i \in Pc,
         \/ UNCHANGED mq
         \/ \E kind : Take(kind)
         \/ \E o \in Op : o.op # "message" /\ Dispatch(o)
  PROVE  /\ In(mq', Arrived(p, i)) => In(mq, Arrived(p, i))
         /\ Once(mq, Arrived(p, i)) => Once(mq', Arrived(p, i))
<1>t. mq \in Seq(Op)
  BY DEF TypeInv, TypeOK
<1>1. CASE UNCHANGED mq
  BY <1>1
<1>2. CASE \E kind : Take(kind)
  <2>1. mq # <<>> /\ mq' = Tail(mq)
    BY <1>2 DEF Take
  <2> QED
    BY <1>t, <2>1, InTail
<1>3. ASSUME NEW o \in Op, o.op # "message", Dispatch(o)
      PROVE  /\ In(mq', Arrived(p, i)) => In(mq, Arrived(p, i))
             /\ Once(mq, Arrived(p, i)) => Once(mq', Arrived(p, i))
  <2>1. mq' = Append(mq, o)
    BY <1>3 DEF Dispatch
  <2>2. o # Arrived(p, i)
    BY <1>3 DEF Arrived
  <2> QED
    BY <1>t, <2>1, <2>2, InAppend
<1> QED
  BY <1>1, <1>2, <1>3

LEMMA AnswerUnmoved ==
  ASSUME TypeInv, AnswerInv, ClientsStay, UNCHANGED <<up, down, answering>>,
         \/ UNCHANGED mq
         \/ \E kind : Take(kind)
         \/ \E o \in Op : o.op # "message" /\ Dispatch(o)
  PROVE  AnswerInv' /\ QuietKept
<1>1. ASSUME NEW p \in Id, NEW i \in Pc
      PROVE  OneAnswer(p, i)' /\ (Quiet(p, i) => Quiet(p, i)')
  <2>0. OneAnswer(p, i)
    BY DEF AnswerInv
  <2>1. /\ In(mq', Arrived(p, i)) => In(mq, Arrived(p, i))
        /\ Once(mq, Arrived(p, i)) => Once(mq', Arrived(p, i))
    BY NoAnswerDispatched
  <2>2. Onces(p, i)'
    <3>1. Onces(p, i)
      BY <2>0 DEF OneAnswer, Onces
    <3> QED
      BY <2>1, <3>1 DEF Onces, Arrived
  <2>3. \A x \in Place : Pending(x, p, i)' => Pending(x, p, i)
    BY <2>1 DEF Pending, Place, Arrived
  <2> QED
    BY <2>0, <2>2, <2>3, FewerPlaces
<1> QED
  BY <1>1 DEF AnswerInv, QuietKept

(* The channels of the other pages. *)
LEMMA AnswerElsewhere ==
  ASSUME AnswerInv, ClientsStay, NEW q \in Id, NEW i \in Pc,
         up'[q] = up[q], down'[q] = down[q], answering'[q] = answering[q],
         In(mq', Arrived(q, i)) => In(mq, Arrived(q, i)),
         Once(mq, Arrived(q, i)) => Once(mq', Arrived(q, i))
  PROVE  OneAnswer(q, i)' /\ (Quiet(q, i) => Quiet(q, i)')
<1>0. OneAnswer(q, i)
  BY DEF AnswerInv
<1>1. Onces(q, i)'
  <2>1. Onces(q, i)
    BY <1>0 DEF OneAnswer, Onces
  <2> QED
    BY <2>1 DEF Onces, Arrived
<1>2. \A x \in Place : Pending(x, q, i)' => Pending(x, q, i)
  BY DEF Pending, Place, Arrived
<1> QED
  BY <1>0, <1>1, <1>2, FewerPlaces

(* The page: an offer becomes an answer in the making, and that is sent. *)
LEMMA AnswerOnPage ==
  ASSUME TypeInv, AnswerInv, NEW p \in Id, PageOnly(p)
  PROVE  AnswerInv' /\ QuietKept /\ ClientsStay
<1>1. PageStep(p) /\ UNCHANGED <<mq, gathered, pcState, clientId>>
  BY DEF PageOnly, clientVars, pcVars
<1>2. ClientsStay
  BY <1>1 DEF ClientsStay, Created
<1>t. /\ up \in [Id -> Seq(Message)] /\ down \in [Id -> Seq(Pc)]
      /\ answering \in [Id -> SUBSET Pc]
  BY DEF TypeInv, TypeOK, PageTypeOK
<1>o. \A q \in Id, i \in Pc : OneAnswer(q, i) /\ Onces(q, i)
  BY DEF AnswerInv, OneAnswer, Onces
<1>e. \A q \in Id : q # p => up'[q] = up[q] /\ down'[q] = down[q] /\ answering'[q] = answering[q]
  BY <1>1, <1>t DEF PageStep, Start, Stop, ReceiveOffer, SendAnswer, Send
<1>3. ASSUME NEW q \in Id, NEW i \in Pc, q # p
      PROVE  OneAnswer(q, i)' /\ (Quiet(q, i) => Quiet(q, i)')
  BY <1>1, <1>2, <1>3, <1>e, AnswerElsewhere
<1>4. ASSUME NEW i \in Pc
      PROVE  OneAnswer(p, i)' /\ (Quiet(p, i) => Quiet(p, i)')
  <2>1. CASE Start(p)
    <3>1. up'[p] = Append(up[p], Request) /\ UNCHANGED <<down, answering>>
      BY <2>1, <1>t DEF Start, Send
    <3>2. Request \in Message /\ Request # Answer(i)
      BY MessagesDiffer DEF Message
    <3>3. /\ In(up'[p], Answer(i)) => In(up[p], Answer(i))
          /\ Once(up'[p], Answer(i))
      BY <1>t, <1>o, <3>1, <3>2, InAppend DEF Onces
    <3>4. Onces(p, i)'
      BY <1>1, <1>o, <3>1, <3>3 DEF Onces, Arrived, Answer
    <3>5. \A x \in Place : Pending(x, p, i)' => Pending(x, p, i)
      BY <1>1, <3>1, <3>3 DEF Pending, Place, Arrived, Answer
    <3> QED
      BY <1>2, <1>o, <3>4, <3>5, FewerPlaces
  <2>2. CASE Stop(p)
    <3>1. UNCHANGED <<up, down, answering>>
      BY <2>2 DEF Stop
    <3> QED
      BY <1>1, <1>2, <3>1, AnswerElsewhere
  <2>3. CASE ReceiveOffer(p)
    <3>1. /\ down[p] # <<>> /\ down'[p] = Tail(down[p]) /\ UNCHANGED up
          /\ answering'[p] = answering[p] \cup {Head(down[p])}
      BY <2>3, <1>t DEF ReceiveOffer
    <3>2. /\ In(down'[p], i) => In(down[p], i)
          /\ Once(down'[p], i)
          /\ Head(down[p]) = i => In(down[p], i) /\ ~In(down'[p], i)
      BY <1>t, <1>o, <3>1, InTail DEF Onces
    <3>3. Onces(p, i)'
      BY <1>1, <1>o, <3>1, <3>2 DEF Onces, Arrived, Answer
    <3>4. CASE Head(down[p]) = i
      <4>1. Pending("down", p, i) /\ ~Pending("down", p, i)'
        BY <3>2, <3>4 DEF Pending
      <4>2. \A x \in Place \ {"page"} : Pending(x, p, i)' => Pending(x, p, i)
        BY <1>1, <3>1, <3>2 DEF Pending, Place, Arrived, Answer
      <4>3. "down" \in Place /\ "page" \in Place
        BY DEF Place
      <4> QED
        BY <1>2, <1>o, <3>3, <4>1, <4>2, <4>3, MovedPlace
    <3>5. CASE Head(down[p]) # i
      <4>1. \A x \in Place : Pending(x, p, i)' => Pending(x, p, i)
        BY <1>1, <3>1, <3>2, <3>5 DEF Pending, Place, Arrived, Answer
      <4> QED
        BY <1>2, <1>o, <3>3, <4>1, FewerPlaces
    <3> QED
      BY <3>4, <3>5
  <2>4. ASSUME NEW j \in Pc, SendAnswer(p, j)
        PROVE  OneAnswer(p, i)' /\ (Quiet(p, i) => Quiet(p, i)')
    <3>1. /\ j \in answering[p] /\ answering'[p] = answering[p] \ {j} /\ UNCHANGED down
          /\ up'[p] = up[p] \/ up'[p] = Append(up[p], Answer(j))
      BY <2>4, <1>t DEF SendAnswer, Send
    <3>2. Answer(j) \in Message
      BY DEF Message
    <3>3. i = j => Pending("page", p, i) /\ ~Pending("page", p, i)' /\ ~In(up[p], Answer(i))
      <4>1. i = j => Pending("page", p, i) /\ ~Pending("page", p, i)'
        BY <3>1 DEF Pending
      <4>2. "page" \in Place /\ "up" \in Place /\ "page" # "up"
        BY DEF Place
      <4>3. i = j => ~Pending("up", p, i)
        BY <1>o, <4>1, <4>2 DEF OneAnswer
      <4> QED
        BY <4>1, <4>3 DEF Pending
    <3>4. /\ In(up'[p], Answer(i)) => In(up[p], Answer(i)) \/ i = j
          /\ Once(up'[p], Answer(i))
      <4>1. Answer(j) = Answer(i) => i = j
        BY MessagesDiffer
      <4>2. CASE up'[p] = up[p]
        BY <1>o, <4>2 DEF Onces
      <4>3. CASE up'[p] = Append(up[p], Answer(j))
        <5>1. up[p] \in Seq(Message) /\ Once(up[p], Answer(i))
          BY <1>t, <1>o DEF Onces
        <5>2. Answer(j) = Answer(i) => ~In(up[p], Answer(i))
          BY <3>3, <4>1
        <5> QED
          BY <3>2, <4>1, <4>3, <5>1, <5>2, InAppend
      <4> QED
        BY <3>1, <4>2, <4>3
    <3>5. Onces(p, i)'
      BY <1>1, <1>o, <3>1, <3>4 DEF Onces, Arrived, Answer
    <3>6. CASE i = j
      <4>1. \A x \in Place \ {"up"} : Pending(x, p, i)' => Pending(x, p, i)
        BY <1>1, <3>1 DEF Pending, Place, Arrived, Answer
      <4>2. "page" \in Place /\ "up" \in Place
        BY DEF Place
      <4> QED
        BY <1>2, <1>o, <3>3, <3>5, <3>6, <4>1, <4>2, MovedPlace
    <3>7. CASE i # j
      <4>1. \A x \in Place : Pending(x, p, i)' => Pending(x, p, i)
        BY <1>1, <3>1, <3>4, <3>7 DEF Pending, Place, Arrived, Answer
      <4> QED
        BY <1>2, <1>o, <3>5, <4>1, FewerPlaces
    <3> QED
      BY <3>6, <3>7
  <2> QED
    BY <1>1, <2>1, <2>2, <2>3, <2>4 DEF PageStep
<1> QED
  BY <1>2, <1>3, <1>4 DEF AnswerInv, QuietKept

(* The answer reaches the streamer. *)
LEMMA AnswerArrives ==
  ASSUME TypeInv, AnswerInv, NEW p \in Id, OnMessage(p)
  PROVE  AnswerInv' /\ QuietKept /\ ClientsStay
<1> DEFINE m == Head(up[p])
<1>t. up \in [Id -> Seq(Message)] /\ mq \in Seq(Op)
  BY DEF TypeInv, TypeOK, PageTypeOK
<1>1. /\ up[p] # <<>> /\ up' = [up EXCEPT ![p] = Tail(up[p])]
      /\ mq' = Append(mq, [op |-> "message", id |-> p, message |-> m])
      /\ UNCHANGED <<down, answering, gathered, pcState, clientId>>
  BY DEF OnMessage, Dispatch, clientVars, pcVars
<1>2. ClientsStay
  BY <1>1 DEF ClientsStay, Created
<1>o. \A q \in Id, i \in Pc : OneAnswer(q, i) /\ Onces(q, i)
  BY DEF AnswerInv, OneAnswer, Onces
<1>m. m \in Message /\ [op |-> "message", id |-> p, message |-> m] \in Op
  <2>1. m \in Message
    BY <1>t, <1>1
  <2> QED
    BY <2>1, OpsAreOps
<1> HIDE DEF m
<1>3. ASSUME NEW q \in Id, NEW i \in Pc, ~(q = p /\ m = Answer(i))
      PROVE  OneAnswer(q, i)' /\ (Quiet(q, i) => Quiet(q, i)')
  <2>1. [op |-> "message", id |-> p, message |-> m] # Arrived(q, i)
    BY <1>3, MessagesDiffer
  <2>2. /\ In(mq', Arrived(q, i)) => In(mq, Arrived(q, i))
        /\ Once(mq', Arrived(q, i))
    BY <1>t, <1>1, <1>m, <1>o, <2>1, InAppend DEF Onces
  <2>3. /\ In(up'[q], Answer(i)) => In(up[q], Answer(i))
        /\ Once(up'[q], Answer(i))
    <3>1. CASE q = p
      <4>1. up'[q] = Tail(up[q]) /\ up[q] \in Seq(Message) /\ up[q] # <<>>
        BY <1>t, <1>1, <3>1
      <4> QED
        BY <1>o, <4>1, InTail DEF Onces
    <3>2. CASE q # p
      <4>1. up'[q] = up[q]
        BY <1>t, <1>1, <3>2
      <4> QED
        BY <1>o, <4>1 DEF Onces
    <3> QED
      BY <3>1, <3>2
  <2>4. Onces(q, i)'
    BY <1>1, <1>o, <2>2, <2>3 DEF Onces, Arrived, Answer
  <2>5. \A x \in Place : Pending(x, q, i)' => Pending(x, q, i)
    BY <1>1, <2>2, <2>3 DEF Pending, Place, Arrived, Answer
  <2> QED
    BY <1>2, <1>o, <2>4, <2>5, FewerPlaces
<1>4. ASSUME NEW i \in Pc, m = Answer(i)
      PROVE  OneAnswer(p, i)' /\ ~Quiet(p, i)
  <2>1. up'[p] = Tail(up[p]) /\ up[p] \in Seq(Message) /\ up[p] # <<>> /\ Head(up[p]) = Answer(i)
    BY <1>t, <1>1, <1>4 DEF m
  <2>2. In(up[p], Answer(i)) /\ ~In(up'[p], Answer(i)) /\ Once(up'[p], Answer(i))
    BY <1>o, <2>1, InTail DEF Onces
  <2>3. Pending("up", p, i) /\ ~Pending("up", p, i)'
    BY <2>2 DEF Pending, Answer
  <2>4. "up" \in Place /\ "mq" \in Place /\ "up" # "mq"
    BY DEF Place
  <2>5. ~In(mq, Arrived(p, i))
    BY <1>o, <2>3, <2>4 DEF OneAnswer, Pending
  <2>6. Once(mq', Arrived(p, i))
    BY <1>t, <1>1, <1>m, <1>o, <2>5, InAppend DEF Onces
  <2>7. Onces(p, i)'
    BY <1>1, <1>o, <2>2, <2>6 DEF Onces, Arrived, Answer
  <2>8. \A x \in Place \ {"mq"} : Pending(x, p, i)' => Pending(x, p, i)
    BY <1>1, <2>2 DEF Pending, Place, Arrived, Answer
  <2> QED
    BY <1>2, <1>o, <2>3, <2>4, <2>7, <2>8, MovedPlace
<1> QED
  BY <1>2, <1>3, <1>4 DEF AnswerInv, QuietKept

(* The offer of a client is sent once. *)
LEMMA AnswerOffered ==
  ASSUME TypeInv, AnswerInv, NEW j \in Pc, OnGathered(j)
  PROVE  AnswerInv' /\ QuietKept /\ ClientsStay
<1>t. down \in [Id -> Seq(Pc)]
  BY DEF TypeInv, TypeOK, PageTypeOK
<1>3. j \in alive /\ j \in Created /\ clientId[j] \in Id
  BY DEF OnGathered, TypeInv, RegistryInv
<1>p. PICK p \in Id : p = clientId[j]
  BY <1>3
<1>1. /\ j \notin gathered /\ gathered' = gathered \cup {j}
      /\ down' = [down EXCEPT ![p] = Append(@, j)]
      /\ UNCHANGED <<up, answering, mq, pcState, clientId>>
  BY <1>p DEF OnGathered, clientVars
<1>2. ClientsStay
  BY <1>1 DEF ClientsStay, Created
<1>o. \A q \in Id, i \in Pc : OneAnswer(q, i) /\ Onces(q, i)
  BY DEF AnswerInv, OneAnswer, Onces
<1>4. \A q \in Id : Quiet(q, j)
  BY <1>1, <1>o DEF OneAnswer
<1>5. ASSUME NEW q \in Id, NEW i \in Pc, ~(q = p /\ i = j)
      PROVE  OneAnswer(q, i)' /\ (Quiet(q, i) => Quiet(q, i)')
  <2>1. /\ In(down'[q], i) => In(down[q], i)
        /\ Once(down'[q], i)
    <3>1. CASE q = p
      <4>1. down'[q] = Append(down[q], j) /\ down[q] \in Seq(Pc)
        BY <1>t, <1>1, <3>1
      <4> QED
        BY <1>o, <1>5, <3>1, <4>1, InAppend DEF Onces
    <3>2. CASE q # p
      <4>1. down'[q] = down[q]
        BY <1>t, <1>1, <3>2
      <4> QED
        BY <1>o, <4>1 DEF Onces
    <3> QED
      BY <3>1, <3>2
  <2>2. Onces(q, i)'
    BY <1>1, <1>o, <2>1 DEF Onces, Arrived, Answer
  <2>3. \A x \in Place : Pending(x, q, i)' => Pending(x, q, i)
    BY <1>1, <2>1 DEF Pending, Place, Arrived, Answer
  <2> QED
    BY <1>2, <1>o, <2>2, <2>3, FewerPlaces
<1>6. OneAnswer(p, j)'
  <2>1. down'[p] = Append(down[p], j) /\ down[p] \in Seq(Pc)
    BY <1>t, <1>1, <1>3
  <2>2. \A x \in Place : ~Pending(x, p, j)
    BY <1>3, <1>4 DEF Quiet
  <2>3. ~In(down[p], j)
    BY <2>2 DEF Pending, Place
  <2>4. Once(down'[p], j)
    BY <1>3, <1>o, <2>1, <2>3, InAppend DEF Onces
  <2>5. Onces(p, j)'
    BY <1>1, <1>3, <1>o, <2>4 DEF Onces, Arrived, Answer
  <2>6. \A x \in Place : Pending(x, p, j)' => x = "down"
    BY <1>1, <2>2 DEF Pending, Place, Arrived, Answer
  <2>7. j \in gathered' /\ j \in Created' /\ clientId'[j] = p
    BY <1>1, <1>2, <1>3, <1>p DEF ClientsStay
  <2> QED
    BY <2>5, <2>6, <2>7 DEF OneAnswer, Onces
<1> QED
  BY <1>1, <1>2, <1>5, <1>6 DEF AnswerInv, QuietKept

LEMMA ClientsStayStep == TypeInv /\ [Next]_vars => ClientsStay
<1> SUFFICES ASSUME TypeInv, [Next]_vars
             PROVE  ClientsStay
  OBVIOUS
<1>t. /\ pcState \in [Pc -> {None, "offering", "answered", "mismatched", "connected",
                             "disconnected", "closed"}]
      /\ clientId \in [Pc -> Id \cup {None}] /\ clients \in [Id -> Pc \cup {NoPc}]
  BY DEF TypeInv, TypeOK
<1>1. CASE OnRequest
  <2>1. PICK i \in Pc : CreatePeerConnection(i, First.id)
    BY <1>1 DEF OnRequest
  <2>2. UNCHANGED gathered
    BY <1>1 DEF OnRequest
  <2> QED
    BY <1>t, <2>1, <2>2 DEF CreatePeerConnection, ClientsStay, Created, None
<1>2. CASE OnAnswer
  <2>1. UNCHANGED <<gathered, clientId>>
    BY <1>2 DEF OnAnswer, clientVars
  <2>2. First.id \in Id
    BY <1>2, TakeFacts, OpFields DEF OnAnswer, TypeInv, TypeOK
  <2>3. UNCHANGED pcState \/ \E i \in Pc, s \in {"answered", "mismatched"} :
                                pcState' = [pcState EXCEPT ![i] = s]
    BY <1>2, <1>t, <2>2 DEF OnAnswer
  <2> QED
    BY <1>t, <2>1, <2>3 DEF ClientsStay, Created, None
<1>3. CASE MainThread /\ ~OnRequest /\ ~OnAnswer
  <2>1. UNCHANGED <<gathered, clientId, pcState>>
    BY <1>3 DEF MainThread, Erase, OpenTooLate, FirstTrack, SecondTrack, SendInitialNalus,
                SetReady, StartStream, CheckClients, StopStream, clientVars, pcVars
  <2> QED
    BY <2>1 DEF ClientsStay, Created
<1>4. CASE StreamQueue
  <2>1. UNCHANGED <<gathered, clientId, pcState>>
    BY <1>4 DEF StreamQueue, BeginCollect, EndCollect, SendSample, clientVars, pcVars
  <2> QED
    BY <2>1 DEF ClientsStay, Created
<1>5. ASSUME NEW p \in Id, OnMessage(p) \/ PageOnly(p)
      PROVE  ClientsStay
  <2>1. UNCHANGED <<gathered, clientId, pcState>>
    BY <1>5 DEF OnMessage, PageOnly, clientVars, pcVars
  <2> QED
    BY <2>1 DEF ClientsStay, Created
<1>6. ASSUME NEW i \in Pc, PeerConnection(i)
      PROVE  ClientsStay
  <2>1. UNCHANGED clientId /\ gathered \subseteq gathered'
    BY <1>6 DEF PeerConnection, OnGathered, Connect, Lose, Close, OnOpen, clientVars
  <2>2. UNCHANGED pcState \/ \E s \in {"connected", "disconnected", "closed"} :
                                pcState' = [pcState EXCEPT ![i] = s]
    BY <1>6 DEF PeerConnection, OnGathered, Connect, Lose, Close, OnOpen, OnStateChange
  <2> QED
    BY <1>t, <2>1, <2>2 DEF ClientsStay, Created, None
<1>7. CASE UNCHANGED vars
  BY <1>7 DEF vars, clientVars, pcVars, ClientsStay, Created
<1>8. CASE Aside
  BY <1>8, AsideFacts DEF ClientsStay, Created
<1> QED
  BY <1>1, <1>2, <1>3, <1>4, <1>5, <1>6, <1>7, <1>8 DEF Next, Aside

LEMMA AnswerStep == TypeInv /\ AnswerInv /\ [Next]_vars => AnswerInv' /\ QuietKept
<1> SUFFICES ASSUME TypeInv, AnswerInv, [Next]_vars
             PROVE  AnswerInv' /\ QuietKept
  OBVIOUS
<1>s. ClientsStay
  BY ClientsStayStep
<1>1. CASE MainThread
  <2>1. UNCHANGED <<up, down, answering>>
    BY <1>1 DEF MainThread, OnRequest, OnAnswer, Erase, OpenTooLate, FirstTrack, SecondTrack,
                SendInitialNalus, SetReady, StartStream, CheckClients, StopStream, pageVars
  <2>2. UNCHANGED mq \/ \E kind : Take(kind)
    BY <1>1 DEF MainThread, OnRequest, OnAnswer, Erase, OpenTooLate, FirstTrack, SecondTrack,
                SendInitialNalus, SetReady, StartStream, CheckClients, StopStream
  <2> QED
    BY <1>s, <2>1, <2>2, AnswerUnmoved
<1>2. CASE StreamQueue
  <2>1. UNCHANGED <<up, down, answering>>
    BY <1>2 DEF StreamQueue, BeginCollect, EndCollect, SendSample, pageVars
  <2>2. UNCHANGED mq \/ Dispatch([op |-> "check"])
    BY <1>2, CheckDispatched DEF StreamQueue, BeginCollect, EndCollect
  <2>3. [op |-> "check"] \in Op /\ [op |-> "check"].op # "message"
    BY OpsAreOps
  <2> QED
    BY <1>s, <2>1, <2>2, <2>3, AnswerUnmoved
<1>3. ASSUME NEW p \in Id, OnMessage(p) \/ PageOnly(p)
      PROVE  AnswerInv' /\ QuietKept
  BY <1>3, AnswerArrives, AnswerOnPage
<1>4. ASSUME NEW i \in Pc, PeerConnection(i)
      PROVE  AnswerInv' /\ QuietKept
  <2>1. CASE OnGathered(i)
    BY <2>1, AnswerOffered
  <2>2. CASE ~OnGathered(i)
    <3>1. UNCHANGED <<up, down, answering>>
      BY <1>4, <2>2 DEF PeerConnection, Connect, Lose, Close, OnOpen, pageVars
    <3>2. CASE Connect(i)
      <4>1. UNCHANGED mq
        BY <3>2 DEF Connect
      <4> QED
        BY <1>s, <3>1, <4>1, AnswerUnmoved
    <3>3. CASE Lose(i) \/ Close(i)
      <4>1. i \in Created
        BY <3>3 DEF Lose, Close, Created, None
      <4>2. clientId[i] \in Id
        BY <4>1 DEF TypeInv, RegistryInv
      <4> DEFINE o == [op |-> "erase", id |-> clientId[i]]
      <4>3. o \in Op /\ o.op # "message" /\ Dispatch(o)
        BY <3>3, <4>2, OpsAreOps DEF Lose, Close, OnStateChange
      <4> HIDE DEF o
      <4> QED
        BY <1>s, <3>1, <4>3, AnswerUnmoved
    <3>4. ASSUME NEW kind \in Kind, OnOpen(i, kind)
          PROVE  AnswerInv' /\ QuietKept
      <4> DEFINE o == [op |-> "open", client |-> i, kind |-> kind]
      <4>1. o \in Op /\ o.op # "message" /\ Dispatch(o)
        BY <3>4, OpsAreOps DEF OnOpen
      <4> HIDE DEF o
      <4> QED
        BY <1>s, <3>1, <4>1, AnswerUnmoved
    <3> QED
      BY <1>4, <2>2, <3>2, <3>3, <3>4 DEF PeerConnection
  <2> QED
    BY <2>1, <2>2
<1>5. CASE UNCHANGED vars
  <2>1. UNCHANGED <<up, down, answering, mq>>
    BY <1>5 DEF vars, pageVars
  <2> QED
    BY <1>s, <2>1, AnswerUnmoved
<1>6. CASE Aside
  <2>1. UNCHANGED <<up, down, answering, mq>>
    BY <1>6, AsideFacts
  <2> QED
    BY <1>s, <2>1, AnswerUnmoved
<1> QED
  BY <1>1, <1>2, <1>3, <1>4, <1>5, <1>6 DEF Next, Aside

LEMMA SharedStays ==
  ASSUME ClientsStay, NEW i \in Created, Shared(i)
  PROVE  Shared(i)'
<1>1. PICK j \in Created \ {i} : clientId[j] = clientId[i]
  BY DEF Shared
<1>2. j \in Created' \ {i} /\ clientId'[j] = clientId'[i]
  BY <1>1 DEF ClientsStay
<1> QED
  BY <1>2 DEF Shared

(* An answer that is applied to a client with an id of its own is for it,  *)
(* and it is the only one.                                                 *)
LEMMA AnswerIsForClient ==
  ASSUME TypeInv, AnswerInv, OnAnswer, NEW i \in Pc, clients[First.id] = i, ~Shared(i)
  PROVE  /\ clientId[i] \in Id
         /\ i \in gathered
         /\ ~Quiet(clientId[i], i)
         /\ Quiet(clientId[i], i)'
<1>1. /\ Take("message") /\ First.message # Request
      /\ UNCHANGED <<up, down, answering>>
  BY DEF OnAnswer, pageVars
<1>2. mq \in Seq(Op) /\ mq # <<>> /\ First = Head(mq) /\ mq' = Tail(mq)
  BY <1>1 DEF TypeInv, TypeOK, Take, First
<1>3. First \in Op /\ First.op = "message"
  BY <1>1, <1>2, TakeFacts
<1>4. First.id \in Id /\ First.message \in Message
  BY <1>3, OpFields
<1>5. PICK p \in Id : p = First.id
  BY <1>4
<1>6. PICK k \in Pc : First.message = Answer(k)
  BY <1>1, <1>4 DEF Message
<1>7. Head(mq) = Arrived(p, k)
  <2>1. First \in [op : {"message"}, id : Id, message : Message]
    BY <1>3 DEF Op
  <2> QED
    BY <1>2, <1>5, <1>6, <2>1 DEF Arrived
<1>8. clientId[i] = p
  BY <1>5, NoPcIsNone DEF TypeInv, TypeOK
<1>o. OneAnswer(p, k)
  BY DEF AnswerInv
<1>9. /\ In(mq, Arrived(p, k)) /\ ~In(mq', Arrived(p, k))
      /\ "mq" \in Place /\ Pending("mq", p, k)
  BY <1>2, <1>7, <1>o, InTail DEF OneAnswer, Pending, Place
<1>10. ~Quiet(p, k) /\ k \in gathered /\ k \in Created /\ clientId[k] = p
  BY <1>9, <1>o DEF OneAnswer, Quiet
<1>11. k = i
  BY <1>8, <1>10 DEF Shared
<1>12. Quiet(p, k)'
  <2>1. \A x \in Place : Pending(x, p, k) => x = "mq"
    BY <1>9, <1>o DEF OneAnswer
  <2>2. \A x \in Place : ~Pending(x, p, k)'
    BY <1>1, <1>9, <2>1 DEF Pending, Place, Arrived, Answer
  <2> QED
    BY <2>2 DEF Quiet
<1>13. Quiet(clientId[i], i)'
  <2>1. UNCHANGED clientId
    BY DEF OnAnswer, clientVars
  <2> QED
    BY <1>8, <1>11, <1>12, <2>1
<1> QED
  BY <1>8, <1>10, <1>11, <1>13

(* A client stops waiting for its answer when one is applied to it. *)
LEMMA FirstAnswer ==
  ASSUME TypeInv, [Next]_vars, NEW i \in alive', pcState'[i] # "offering",
         ~(i \in alive /\ pcState[i] # "offering")
  PROVE  i \in Pc /\ OnAnswer /\ clients[First.id] = i
<1>t. /\ pcState \in [Pc -> {None, "offering", "answered", "mismatched", "connected",
                             "disconnected", "closed"}]
      /\ alive \subseteq Pc /\ clients \in [Id -> Pc \cup {NoPc}]
  BY DEF TypeInv, TypeOK
<1>1. CASE OnRequest
  <2>1. PICK j \in Pc : /\ pcState' = [pcState EXCEPT ![j] = "offering"]
                        /\ alive' = alive \cup {j} \/ alive' = alive
    BY <1>1 DEF OnRequest, CreatePeerConnection
  <2> QED
    BY <1>t, <2>1
<1>2. CASE OnAnswer
  <2>1. UNCHANGED alive
    BY <1>2 DEF OnAnswer, clientVars
  <2> QED
    BY <1>2, <1>t, <2>1 DEF OnAnswer
<1>3. CASE MainThread /\ ~OnRequest /\ ~OnAnswer
  <2>1. UNCHANGED pcState /\ alive' \subseteq alive
    BY <1>3 DEF MainThread, Erase, OpenTooLate, FirstTrack, SecondTrack, SendInitialNalus,
                SetReady, StartStream, Release, CheckClients, StopStream, clientVars, pcVars
  <2> QED
    BY <2>1
<1>4. CASE StreamQueue
  <2>1. UNCHANGED pcState /\ alive' \subseteq alive
    BY <1>4 DEF StreamQueue, BeginCollect, EndCollect, SendSample, clientVars, pcVars
  <2> QED
    BY <2>1
<1>5. ASSUME NEW p \in Id, OnMessage(p) \/ PageOnly(p)
      PROVE  FALSE
  <2>1. UNCHANGED <<pcState, alive>>
    BY <1>5 DEF OnMessage, PageOnly, clientVars, pcVars
  <2> QED
    BY <2>1
<1>6. ASSUME NEW j \in Pc, PeerConnection(j)
      PROVE  FALSE
  <2>1. UNCHANGED alive
    BY <1>6 DEF PeerConnection, OnGathered, Connect, Lose, Close, OnOpen, clientVars
  <2>2. \/ UNCHANGED pcState
        \/ /\ \E s : pcState' = [pcState EXCEPT ![j] = s]
           /\ j \notin alive \/ pcState[j] # "offering"
    BY <1>6 DEF PeerConnection, OnGathered, Connect, Lose, Close, OnOpen, OnStateChange
  <2> QED
    BY <1>t, <2>1, <2>2
<1>7. CASE UNCHANGED vars
  BY <1>7 DEF vars, clientVars, pcVars
<1>8. CASE Aside
  BY <1>8, AsideFacts
<1> QED
  BY <1>1, <1>2, <1>3, <1>4, <1>5, <1>6, <1>7, <1>8 DEF Next, Aside

LEMMA AnsweredStep == TypeInv /\ AnswerInv /\ AnsweredInv /\ [Next]_vars => AnsweredInv'
<1> SUFFICES ASSUME TypeInv, AnswerInv, AnsweredInv, [Next]_vars,
                    NEW i \in alive', pcState'[i] # "offering", ~Shared(i)'
             PROVE  (i \in gathered /\ Quiet(clientId[i], i))'
  BY DEF AnsweredInv
<1>s. ClientsStay /\ QuietKept
  BY ClientsStayStep, AnswerStep
<1>1. CASE i \in alive /\ pcState[i] # "offering"
  <2>1. i \in Created /\ i \in Pc /\ clientId[i] \in Id
    BY <1>1 DEF TypeInv, RegistryInv, Created
  <2>2. ~Shared(i)
    BY <1>s, <2>1, SharedStays
  <2>3. i \in gathered /\ Quiet(clientId[i], i)
    BY <1>1, <2>2 DEF AnsweredInv
  <2>4. PICK p \in Id : p = clientId[i]
    BY <2>1
  <2>5. Quiet(p, i)' /\ clientId'[i] = p /\ i \in gathered'
    BY <1>s, <2>1, <2>3, <2>4 DEF QuietKept, ClientsStay
  <2> QED
    BY <2>5
<1>2. CASE ~(i \in alive /\ pcState[i] # "offering")
  <2>1. i \in Pc /\ OnAnswer /\ clients[First.id] = i
    BY <1>2, FirstAnswer
  <2>2. i \in Created
    <3>1. First.id \in Id
      BY <2>1, TakeFacts, OpFields DEF OnAnswer, TypeInv, TypeOK
    <3>2. i \in alive
      BY <2>1, <3>1, NoPcIsNone DEF TypeInv, TypeOK
    <3> QED
      BY <3>2 DEF TypeInv, RegistryInv
  <2>3. ~Shared(i)
    BY <1>s, <2>2, SharedStays
  <2>4. i \in gathered /\ Quiet(clientId[i], i)'
    BY <2>1, <2>3, AnswerIsForClient
  <2> QED
    BY <1>s, <2>4 DEF ClientsStay
<1> QED
  BY <1>1, <1>2

(* A stream is there only once somebody has been admitted. *)
StreamInv ==
    /\ avStream => \E j \in Pc : clientState[j] = "Ready"
    /\ main.at = "nalus" => avStream
    /\ main.at = "start" => main.client \in Pc /\ clientState[main.client] = "Ready"

LEMMA StreamInvStep == TypeInv /\ AdmissionInv /\ StreamInv /\ [Next]_vars => StreamInv'
<1> SUFFICES ASSUME TypeInv, AdmissionInv, StreamInv, [Next]_vars
             PROVE  StreamInv'
  OBVIOUS
<1>t. /\ clientState \in [Pc -> {"Waiting", "WaitingForVideo", "WaitingForAudio", "Ready"}]
      /\ main \in [at : {"idle", "nalus", "ready", "start", "stop", "ended"}, client : Pc \cup {NoPc}]
  BY DEF TypeInv, TypeOK
<1>1. CASE FirstTrack
  <2>1. /\ UNCHANGED <<main, avStream>>
        /\ clientState[First.client] = "Waiting"
        /\ \E s : clientState' = [clientState EXCEPT ![First.client] = s]
    BY <1>1 DEF FirstTrack, streamVars
  <2>2. \A j \in Pc : clientState[j] = "Ready" => clientState'[j] = "Ready"
    BY <1>t, <2>1
  <2> QED
    BY <2>1, <2>2 DEF StreamInv
<1>2. CASE SetReady
  <2>1. /\ UNCHANGED avStream
        /\ main' = [main EXCEPT !.at = "start"]
        /\ clientState' = [clientState EXCEPT ![main.client] = "Ready"]
        /\ main.client \in Pc
    BY <1>2 DEF SetReady, streamVars, AdmissionInv, Admitting, Created
  <2>2. \A j \in Pc : clientState[j] = "Ready" => clientState'[j] = "Ready"
    BY <1>t, <2>1
  <2>3. main'.at = "start" /\ main'.client = main.client /\ clientState'[main.client] = "Ready"
    BY <1>t, <2>1
  <2> QED
    BY <2>1, <2>2, <2>3 DEF StreamInv
<1>3. CASE StartStream
  <2>1. main.at = "start" /\ main' = Idle /\ UNCHANGED clientState
    BY <1>3 DEF StartStream
  <2> QED
    BY <2>1 DEF StreamInv, Idle
<1>4. CASE SecondTrack
  BY <1>4 DEF SecondTrack, StreamInv, streamVars, clientVars
<1>5. CASE OnAnswer \/ CheckClients \/ SendInitialNalus \/ StopStream
  <2>1. UNCHANGED <<clientState, avStream>>
    BY <1>5 DEF OnAnswer, CheckClients, SendInitialNalus, StopStream, clientVars, streamVars
  <2>2. UNCHANGED main \/ main'.at \notin {"nalus", "start"}
    BY <1>5, <1>t DEF OnAnswer, CheckClients, SendInitialNalus, StopStream, Crash, Idle
  <2> QED
    BY <2>1, <2>2 DEF StreamInv
<1>6. CASE UNCHANGED <<main, clientState, avStream>>
  BY <1>6 DEF StreamInv
<1>7. \/ UNCHANGED <<main, clientState, avStream>>
      \/ Aside
      \/ MainThread /\ ~(OnRequest \/ Erase \/ OpenTooLate)
  BY DEF Aside, Next, MainThread, OnRequest, Erase, OpenTooLate, StreamQueue, BeginCollect, EndCollect,
         SendSample, OnMessage, PageOnly, PeerConnection, OnGathered, Connect, Lose, Close,
         OnOpen, vars, clientVars, streamVars
<1>8. CASE Aside
  BY <1>8, AsideFacts DEF StreamInv
<1> QED
  BY <1>1, <1>2, <1>3, <1>4, <1>5, <1>6, <1>7, <1>8 DEF MainThread

EndInv == AnswerInv /\ AnsweredInv /\ StreamInv

LEMMA EndInvInit == Init => EndInv
<1> SUFFICES ASSUME Init
             PROVE  EndInv
  OBVIOUS
<1>1. AnswerInv
  <2>1. ASSUME NEW p \in Id, NEW i \in Pc
        PROVE  OneAnswer(p, i)
    <3>1. down[p] = <<>> /\ answering[p] = {} /\ up[p] = <<>> /\ mq = <<>>
      BY DEF Init, PageInit
    <3> QED
      BY <3>1 DEF OneAnswer, Quiet, Pending, In, Once
  <2> QED
    BY <2>1 DEF AnswerInv
<1>2. AnsweredInv
  BY DEF Init, AnsweredInv
<1>3. StreamInv
  BY DEF Init, StreamInv
<1> QED
  BY <1>1, <1>2, <1>3 DEF EndInv

(* The places where the process may end. *)
LEMMA EndingStep ==
  ASSUME TypeInv, [Next]_vars, Running, ~Running'
  PROVE  \/ OnMalformed \/ IterationFails
         \/ StopStream /\ inputType = "RtspSource"
         \/ OnAnswer /\ \E i \in Pc : clients[First.id] = i /\ pcState[i] # "offering"
         \/ SendInitialNalus /\ (inputType # "FileSource" \/ pcState[main.client] = "closed")
<1>t. /\ main \in [at : {"idle", "nalus", "ready", "start", "stop", "ended"}, client : Pc \cup {NoPc}]
      /\ clients \in [Id -> Pc \cup {NoPc}]
  BY DEF TypeInv, TypeOK
<1>1. CASE UNCHANGED main
  BY <1>1 DEF Running
<1>2. CASE OnAnswer
  <2>1. First.id \in Id
    BY <1>2, TakeFacts, OpFields DEF OnAnswer, TypeInv, TypeOK
  <2> QED
    BY <1>t, <1>2, <2>1 DEF OnAnswer, Running
<1>3. CASE SendInitialNalus
  <2>1. main' # [main EXCEPT !.at = "ready"]
    BY <1>t DEF Running
  <2> QED
    BY <1>3, <2>1 DEF SendInitialNalus
<1>4. CASE SecondTrack \/ SetReady \/ StartStream \/ CheckClients
  BY <1>4, <1>t DEF SecondTrack, SetReady, StartStream, CheckClients, Idle, Running
<1>5. CASE StopStream
  BY <1>5 DEF StopStream, Idle, Running
<1>6. \/ UNCHANGED main
      \/ OnMalformed \/ IterationFails \/ OnAnswer \/ SendInitialNalus
      \/ SecondTrack \/ SetReady \/ StartStream \/ CheckClients \/ StopStream
  BY DEF Next, MainThread, OnRequest, Erase, OpenTooLate, FirstTrack, StreamQueue, BeginCollect,
         EndCollect, SendSample, LoadNextSample, OnMessage, PageOnly, PeerConnection, OnGathered,
         Connect, Lose, Close, OnOpen, vars
<1> QED
  BY <1>1, <1>2, <1>3, <1>4, <1>5, <1>6

(* An answer that cannot be applied comes under an id that two connections *)
(* were made for.                                                          *)
LEMMA RefusedAnswer ==
  ASSUME TypeInv, EndInv, OnAnswer,
         NEW i \in Pc, clients[First.id] = i, pcState[i] # "offering"
  PROVE  \E j \in Created : i \in Created /\ i # j /\ clientId[i] = First.id /\ clientId[j] = First.id
<1>1. First.id \in Id
  BY TakeFacts, OpFields DEF OnAnswer, TypeInv, TypeOK
<1>2. i \in alive /\ clientId[i] = First.id
  BY <1>1, NoPcIsNone DEF TypeInv, TypeOK
<1>3. i \in Created
  BY <1>2 DEF TypeInv, RegistryInv
<1>4. Shared(i) \/ (i \in gathered /\ Quiet(clientId[i], i))
  BY <1>2 DEF EndInv, AnsweredInv
<1>5. Shared(i)
  BY <1>4, AnswerIsForClient DEF EndInv
<1> QED
  BY <1>2, <1>3, <1>5 DEF Shared

(* The process ends only where EndsOnlyWhen says: an answer that MainThread*)
(* cannot apply comes under an id that was used again, sendInitialNalus    *)
(* fails only once another client has been Ready, and the stop of an RTSP  *)
(* stream only when nobody is registered.                                  *)
THEOREM EndsForKnownReasons == Spec => EndsOnlyWhen
<1> DEFINE Reason ==
         \/ OnMalformed
         \/ IterationFails
         \/ /\ main.at = "nalus"
            /\ \E j \in Created \ {main.client} : clientState[j] = "Ready"
            /\ inputType = "RtspSource" \/ pcState[main.client] = "closed"
         \/ main.at = "stop" /\ inputType = "RtspSource" /\ Registered = {}
         \/ /\ main = Idle /\ First.op = "message"
            /\ \E i, j \in Created : i # j /\ clientId[i] = First.id /\ clientId[j] = First.id
<1>1. ASSUME TypeInv, AdmissionInv, ServedInv, EndInv, [Next]_vars, Running, ~Running'
      PROVE  Reason
  <2>1. CASE StopStream /\ inputType = "RtspSource"
    BY <1>1, <2>1 DEF StopStream, ServedInv
  <2>2. CASE OnAnswer /\ \E i \in Pc : clients[First.id] = i /\ pcState[i] # "offering"
    <3>1. main = Idle /\ First.op = "message"
      BY <2>2 DEF OnAnswer, Take, First
    <3> QED
      BY <1>1, <2>2, <3>1, RefusedAnswer
  <2>3. CASE SendInitialNalus /\ (inputType # "FileSource" \/ pcState[main.client] = "closed")
    <3>1. main.at = "nalus"
      BY <2>3 DEF SendInitialNalus
    <3>2. clientState[main.client] # "Ready"
      BY <1>1, <3>1 DEF AdmissionInv, Admitting
    <3>3. PICK j \in Pc : clientState[j] = "Ready"
      BY <1>1, <3>1 DEF EndInv, StreamInv
    <3>4. j \in Created \ {main.client}
      BY <1>1, <3>2, <3>3 DEF AdmissionInv
    <3>5. inputType = "RtspSource" \/ pcState[main.client] = "closed"
      BY <1>1, <2>3, InputAssumption DEF TypeInv, TypeOK
    <3> QED
      BY <3>1, <3>3, <3>4, <3>5
  <2> QED
    BY <1>1, <2>1, <2>2, <2>3, EndingStep
<1>2. TypeInv /\ AdmissionInv /\ ServedInv /\ EndInv /\ [Next]_vars
        => [Running /\ ~Running' => Reason]_vars
  BY <1>1
<1>3. Init => TypeInv /\ OpensInv /\ AdmissionInv /\ ServedInv /\ EndInv
  BY TypeInvInit, AdmissionInit, ServedInit, EndInvInit
<1>4. TypeInv /\ OpensInv /\ AdmissionInv /\ ServedInv /\ EndInv /\ [Next]_vars
        => (TypeInv /\ OpensInv /\ AdmissionInv /\ ServedInv /\ EndInv)'
  BY TypeInvStep, OpensStep, AdmissionStep, ServedStep, AnswerStep, AnsweredStep, StreamInvStep
     DEF EndInv
<1> QED
  BY <1>2, <1>3, <1>4, PTL DEF Spec, EndsOnlyWhen
=============================================================================
