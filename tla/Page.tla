-------------------------------- MODULE Page --------------------------------
(***************************************************************************)
(* The page in the browser (src/client.js) and the signaling between it    *)
(* and the streamer.  A page is named by the id it draws when it is loaded *)
(* and keeps for all its connections.  A peer connection is named by the   *)
(* number of the offer it is made from; the streamer numbers its offers.   *)
(*                                                                         *)
(* The signaling server only forwards: a FIFO channel from each page to    *)
(* the streamer and one back.  Streamer extends this module.               *)
(***************************************************************************)
EXTENDS Naturals, Sequences, FiniteSets

CONSTANTS Id,           \* the pages
          MaxRequests   \* bound: how often start is clicked, on all pages together

ASSUME RequestsAssumption == MaxRequests \in Nat \ {0}

VARIABLES requests,     \* clicks on start so far
          started,      \* the pages that show their stop button
          pagePc,       \* the variable pc of each page, 0 is null
          answering,    \* offers that handleOffer is working on
          pageClosed,   \* peer connections the page has closed
          up,           \* messages of each page to the streamer
          down          \* offers of the streamer to each page

pageVars == <<requests, started, pagePc, answering, pageClosed, up, down>>

Pc == 1..MaxRequests
NoPc == 0

Request == [type |-> "request", pc |-> NoPc]
Answer(i) == [type |-> "answer", pc |-> i]
Message == {Request} \cup {Answer(i) : i \in Pc}

PageTypeOK ==
    /\ requests \in 0..MaxRequests
    /\ started \subseteq Id
    /\ pagePc \in [Id -> Pc \cup {NoPc}]
    /\ answering \in [Id -> SUBSET Pc]
    /\ pageClosed \subseteq Pc
    /\ up \in [Id -> Seq(Message)]
    /\ down \in [Id -> Seq(Pc)]

PageInit ==
    /\ requests = 0
    /\ started = {}
    /\ pagePc = [p \in Id |-> NoPc]
    /\ answering = [p \in Id |-> {}]
    /\ pageClosed = {}
    /\ up = [p \in Id |-> <<>>]
    /\ down = [p \in Id |-> <<>>]

Send(p, m) == up' = [up EXCEPT ![p] = Append(@, m)]

\* start(): the buttons change places and the request is sent
Start(p) ==
    /\ p \notin started
    /\ requests < MaxRequests
    /\ requests' = requests + 1
    /\ started' = started \cup {p}
    /\ Send(p, Request)
    /\ UNCHANGED <<pagePc, answering, pageClosed, down>>

\* stop(): the buttons change places, then the connection is closed; when
\* there is none (pc is null) the function ends with a TypeError there
Stop(p) ==
    /\ p \in started
    /\ started' = started \ {p}
    /\ pagePc' = [pagePc EXCEPT ![p] = NoPc]
    /\ pageClosed' = pageClosed \cup ({pagePc[p]} \ {NoPc})
    /\ UNCHANGED <<requests, answering, up, down>>

\* onmessage and handleOffer: a connection is made for every offer, whatever
\* the buttons show; the one pc referred to before is not closed
ReceiveOffer(p) ==
    /\ down[p] # <<>>
    /\ down' = [down EXCEPT ![p] = Tail(@)]
    /\ pagePc' = [pagePc EXCEPT ![p] = Head(down[p])]
    /\ answering' = [answering EXCEPT ![p] = @ \cup {Head(down[p])}]
    /\ UNCHANGED <<requests, started, pageClosed, up>>

\* Mutated form: waitGatheringComplete resolves more than once.
SendAnswerAgain(p, i) ==
    /\ i \in answering[p]
    /\ Len(up[p]) < 2
    /\ IF i \in pageClosed THEN UNCHANGED up ELSE Send(p, Answer(i))
    /\ UNCHANGED <<requests, started, pagePc, answering, pageClosed, down>>

\* sendAnswer, once the candidates are gathered; on a connection closed
\* meanwhile it is rejected and sends nothing
SendAnswer(p, i) ==
    /\ i \in answering[p]
    /\ answering' = [answering EXCEPT ![p] = @ \ {i}]
    /\ IF i \in pageClosed THEN UNCHANGED up ELSE Send(p, Answer(i))
    /\ UNCHANGED <<requests, started, pagePc, pageClosed, down>>

PageStep(p) ==
    \/ Start(p) \/ Stop(p) \/ ReceiveOffer(p)
    \/ \E i \in Pc : SendAnswer(p, i)
=============================================================================
