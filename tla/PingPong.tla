------------------------------ MODULE PingPong ------------------------------
(***************************************************************************)
(* The data channels of one page: the streamer answers every message with  *)
(* a Ping (src/main.cpp), the page every Ping with a Pong one second later *)
(* (src/client.js).  The timer sends on the channel that is in the global  *)
(* variable dc when it fires, which may be a later one than the channel of *)
(* the Ping; and a channel that closes clears the timer of its last Ping   *)
(* only.  Channels are numbered in the order in which the page meets them. *)
(***************************************************************************)
EXTENDS Naturals, FiniteSets

CONSTANTS NumChannels   \* bound: connections the page makes

ASSUME ChannelAssumption == NumChannels \in Nat \ {0}

VARIABLES dc,         \* the global variable dc, 0 is null
          channel,    \* state of each channel
          pings,      \* messages on their way to the page, per channel
          pongs,      \* messages on their way to the streamer, per channel
          timeouts,   \* timers that have not fired, per channel of their Ping
          dcTimeout,  \* the channels whose last timer has not fired
          late        \* history: last timers that sent on another channel
                      \* than that of their Ping, before its onclose

pingVars == <<dc, channel, pings, pongs, timeouts, dcTimeout, late>>

Channel == 1..NumChannels

(* Numbers of channels, messages and timers. *)
PingTypeOK ==
    /\ dc \in Channel \cup {0}
    /\ channel \in [Channel -> {"none", "connecting", "open", "closed"}]
    /\ pings \in [Channel -> Nat] /\ pongs \in [Channel -> Nat]
    /\ timeouts \in [Channel -> Nat]
    /\ dcTimeout \subseteq Channel
    /\ late \in Nat

PingInit ==
    /\ dc = 0
    /\ channel = [c \in Channel |-> "none"]
    /\ pings = [c \in Channel |-> 0] /\ pongs = [c \in Channel |-> 0]
    /\ timeouts = [c \in Channel |-> 0]
    /\ dcTimeout = {} /\ late = 0
-----------------------------------------------------------------------------
Add(f, c) == [f EXCEPT ![c] = @ + 1]
Remove(f, c) == [f EXCEPT ![c] = @ - 1]

\* pc.ondatachannel: dc refers to the new channel from now on
OnDataChannel(c) ==
    /\ channel[c] = "none"
    /\ \A b \in 1 .. c - 1 : channel[b] # "none"
    /\ channel' = [channel EXCEPT ![c] = "connecting"]
    /\ dc' = c
    /\ UNCHANGED <<pings, pongs, timeouts, dcTimeout, late>>

\* dc->onOpen of the streamer sends the first Ping
OnOpen(c) ==
    /\ channel[c] = "connecting"
    /\ channel' = [channel EXCEPT ![c] = "open"]
    /\ pings' = Add(pings, c)
    /\ UNCHANGED <<dc, pongs, timeouts, dcTimeout, late>>

\* dc.onmessage of the page sets a timer
OnPing(c) ==
    /\ channel[c] = "open" /\ pings[c] > 0
    /\ pings' = Remove(pings, c)
    /\ timeouts' = Add(timeouts, c)
    /\ dcTimeout' = dcTimeout \cup {c}
    /\ UNCHANGED <<dc, channel, pongs, late>>

\* A timer fires.  There may be no channel any more, or a new one; send throws
\* when that one is not open.
Timeout(c) ==
    /\ timeouts[c] > 0
    /\ timeouts' = Remove(timeouts, c)
    /\ \/ timeouts[c] = 1 /\ dcTimeout' = dcTimeout \ {c}
       \/ timeouts[c] > 1 /\ UNCHANGED dcTimeout
    /\ IF dc # 0 /\ channel[dc] = "open"
       THEN /\ pongs' = Add(pongs, dc)
            /\ late' = IF dc # c /\ dcTimeout' # dcTimeout THEN late + 1 ELSE late
       ELSE UNCHANGED <<pongs, late>>
    /\ UNCHANGED <<dc, channel, pings>>

\* dc->onMessage of the streamer
OnPong(c) ==
    /\ channel[c] = "open" /\ pongs[c] > 0
    /\ pongs' = Remove(pongs, c)
    /\ pings' = Add(pings, c)
    /\ UNCHANGED <<dc, channel, timeouts, dcTimeout, late>>

\* A channel that is closed delivers nothing more.
CloseChannel(c) ==
    /\ channel' = [channel EXCEPT ![c] = "closed"]
    /\ pings' = [pings EXCEPT ![c] = 0]
    /\ pongs' = [pongs EXCEPT ![c] = 0]

\* stop() of the page
Stop ==
    /\ dc # 0
    /\ CloseChannel(dc)
    /\ dc' = 0
    /\ UNCHANGED <<timeouts, dcTimeout, late>>

\* the connection is lost; dc goes on referring to the channel
Lose(c) ==
    /\ channel[c] \in {"connecting", "open"}
    /\ CloseChannel(c)
    /\ UNCHANGED <<dc, timeouts, dcTimeout, late>>

\* Mutated form: dcTimeout is null when the timer is to be cleared.
OnCloseForgetsFirst(c) ==
    /\ channel[c] = "closed" /\ c \in dcTimeout
    /\ dcTimeout' = dcTimeout \ {c}
    /\ UNCHANGED <<dc, channel, pings, pongs, timeouts, late>>

\* dc.onclose, which may come late: the last timer is cleared
OnClose(c) ==
    /\ channel[c] = "closed" /\ c \in dcTimeout
    /\ timeouts' = Remove(timeouts, c)
    /\ dcTimeout' = dcTimeout \ {c}
    /\ UNCHANGED <<dc, channel, pings, pongs, late>>

PingNext ==
    \/ Stop
    \/ \E c \in Channel :
        OnDataChannel(c) \/ OnOpen(c) \/ OnPing(c) \/ Timeout(c) \/ OnPong(c) \/ Lose(c) \/ OnClose(c)

PingSpec == PingInit /\ [][PingNext]_pingVars
-----------------------------------------------------------------------------
\* one token for each message or timer that f counts
Tokens(f) == UNION {{c} \X (1 .. f[c]) : c \in Channel}

(***************************************************************************)
(* Pings and Pongs multiply only by timers that outlive their channel: the *)
(* messages under way and the timers are never more than the channels that *)
(* are open or whose last timer is still to be cleared, and one for each   *)
(* timer that fired too early for that and found another channel.  So a    *)
(* closed channel leaves nothing behind once its onclose has come in time. *)
(***************************************************************************)
TokensBounded ==
    Cardinality(Tokens(pings)) + Cardinality(Tokens(pongs)) + Cardinality(Tokens(timeouts))
    <= Cardinality({c \in Channel : channel[c] = "open" \/ c \in dcTimeout}) + late
=============================================================================
