------------------------------ MODULE RtpClock ------------------------------
(***************************************************************************)
(* The time stamps and sender reports of one track (src/main.cpp, the      *)
(* sample handler and sendInitialNalus).  Time stamps are uint32_t, count  *)
(* ticks of the track's clock from a random start, and wrap; the time      *)
(* since the last report is a difference of two of them.                   *)
(*                                                                         *)
(* RtcpSrReporter is the library's: a packet that is sent when a report is *)
(* needed is followed by the report, whose time stamp is remembered (0     *)
(* before the first).  A sample that cannot be sent makes no report.       *)
(***************************************************************************)
EXTENDS Integers

CONSTANTS Modulus,    \* of a time stamp: 2^32
          Rate,       \* ticks in a second
          Frame,      \* ticks of a sample
          MaxLate     \* bound: samples before the viewer joins

ASSUME ClockAssumption ==
    /\ Modulus \in Nat /\ Rate \in Nat \ {0} /\ Frame \in Nat \ {0} /\ MaxLate \in Nat
    /\ Rate + Frame < Modulus

VARIABLES startTimestamp,
          timestamp,
          elapsed,        \* time of the next sample in ticks, modulo Modulus
          lastReported,   \* lastReportedTimestamp()
          needsToReport,
          phase,          \* of the viewer
          since           \* ticks since the last report, or since the first sample

clockVars == <<startTimestamp, timestamp, elapsed, lastReported, needsToReport, phase, since>>

Stamp == 0 .. Modulus - 1

\* uint32_t arithmetic
Plus(a, b) == (a + b) % Modulus
Minus(a, b) == (a - b + Modulus) % Modulus

(* Time stamps and their differences are of the width of Modulus. *)
ClockTypeOK ==
    /\ startTimestamp \in Stamp /\ timestamp \in Stamp
    /\ elapsed \in Stamp /\ lastReported \in Stamp
    /\ needsToReport \in BOOLEAN
    /\ phase \in {"opened", "shown", "ready", "served"}
    /\ since \in Nat

ClockInit ==
    /\ startTimestamp \in Stamp
    /\ timestamp = startTimestamp
    /\ elapsed \in {(n * Frame) % Modulus : n \in 0..MaxLate}
    /\ lastReported = 0
    /\ needsToReport = FALSE
    /\ phase = "opened"
    /\ since = 0
-----------------------------------------------------------------------------
\* Mutated form: the second copy of the key frame is sent at the start time
\* of the stream, like the first sample.
SendInitialNalusAtStart ==
    /\ phase = "opened"
    /\ phase' = "shown"
    /\ timestamp' = startTimestamp
    /\ UNCHANGED <<startTimestamp, elapsed, lastReported, needsToReport, since>>

\* sendInitialNalus: the key frame is sent two samples before the start time,
\* and again one sample before it
SendInitialNalus ==
    /\ phase = "opened"
    /\ phase' = "shown"
    /\ timestamp' = Plus(Minus(startTimestamp, Plus(Frame, Frame)), Frame)
    /\ UNCHANGED <<startTimestamp, elapsed, lastReported, needsToReport, since>>

\* the first viewer: there is no stream yet to take a key frame from
NoInitialNalus ==
    /\ phase = "opened" /\ elapsed = 0
    /\ phase' = "ready"
    /\ UNCHANGED <<startTimestamp, timestamp, elapsed, lastReported, needsToReport, since>>

\* Mutated form: the difference is not taken modulo 2^32.
ReportDueWide(t) == t - lastReported > Rate

\* timestampToSeconds(t - lastReportedTimestamp()) > 1
ReportDue(t) == Minus(t, lastReported) > Rate

\* the sample handler; with sent = FALSE, send throws and the handler goes on
\* (bound: this is not pursued for more than a second and two samples)
Handle(sent) ==
    LET t == Plus(startTimestamp, elapsed)
        due == needsToReport \/ ReportDue(t)
    IN  /\ phase # "opened"
        /\ ~sent => since <= Rate + Frame
        /\ phase' = "served"
        /\ timestamp' = t
        /\ elapsed' = Plus(elapsed, Frame)
        /\ needsToReport' = (due /\ ~sent)
        /\ lastReported' = IF due /\ sent THEN t ELSE lastReported
        /\ since' = IF due /\ sent THEN 0 ELSE IF phase # "served" THEN 0 ELSE since + Frame
        /\ UNCHANGED startTimestamp

ClockNext == SendInitialNalus \/ NoInitialNalus \/ \E sent \in BOOLEAN : Handle(sent)

ClockSpec == ClockInit /\ [][ClockNext]_clockVars
-----------------------------------------------------------------------------
(***************************************************************************)
(* Wherever the time stamps start and wrap, and whatever send refuses: a   *)
(* viewer that was sent a sample more than a second after the last report, *)
(* or after the first sample, was sent a report too.  A sample exactly a   *)
(* second after it brings none, though the comment in the handler says "at *)
(* least 1 second ago".                                                    *)
(***************************************************************************)
ReportedInTime == phase = "served" /\ ~needsToReport => since <= Rate

(***************************************************************************)
(* The key frame that a viewer is shown first is older than the sample     *)
(* that follows, as a receiver compares time stamps: by less than half     *)
(* their range.  A viewer who joins later than that (6.6 hours at 90 kHz)  *)
(* is not promised it.                                                     *)
(***************************************************************************)
KeyFrameIsOlder ==
    phase = "shown" /\ elapsed + 2 * Frame <= Modulus \div 2 =>
        Minus(Plus(startTimestamp, elapsed), timestamp) \in Frame .. Modulus \div 2
=============================================================================
