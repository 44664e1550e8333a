----------------------------- MODULE FileParser -----------------------------
(***************************************************************************)
(* FileParser (src/fileparser.cpp): the position in the directory and the  *)
(* time of the sample, with the widths of their types; what the parsers    *)
(* for H264 and opus construct.  The Stream calls start when it is not     *)
(* running, loadNextSample while it is, and stop.                          *)
(*                                                                         *)
(* loopTimestampOffset is written and never read, and left out.            *)
(***************************************************************************)
EXTENDS Integers

CONSTANTS NumFiles,         \* sample-0 .. sample-(NumFiles - 1) exist
          SamplesPerSecond,
          Loop,             \* the parameter loop
          MaxCounter,       \* counter is a uint32_t: 2^32 - 1
          TimeModulus       \* sampleTime_us is a uint64_t: 2^64

Second == 1000 * 1000

ASSUME FileParserAssumption ==
    /\ NumFiles \in Nat /\ MaxCounter \in Nat /\ NumFiles <= MaxCounter
    /\ Loop \in BOOLEAN
    /\ SamplesPerSecond \in 1..Second
    /\ TimeModulus \in Nat /\ TimeModulus > Second

VARIABLES sample,    \* number of the file that is loaded, -1 is an empty sample
          counter,
          time,      \* sampleTime_us
          started    \* between start and stop of the Stream

vars == <<sample, counter, time, started>>

\* uint32_t(-1)
Unset == MaxCounter

SampleDuration == Second \div SamplesPerSecond

TypeOK ==
    /\ sample \in -1 .. NumFiles - 1
    /\ counter \in 0..MaxCounter
    /\ time \in 0 .. TimeModulus - 1
    /\ started \in BOOLEAN

Init ==
    /\ sample = -1
    /\ counter = Unset
    /\ time = 0
    /\ started = FALSE
-----------------------------------------------------------------------------
Inc(c) == IF c = MaxCounter THEN 0 ELSE c + 1

\* ++counter, and counter = -1 with another ++counter when the file is missing
\* and the source loops; the second look is at sample-0 in any case
NextCounter ==
    IF Inc(counter) >= NumFiles /\ Loop /\ Inc(counter) > 0 THEN 0 ELSE Inc(counter)

\* Mutated form: the time begins anew with the loop.
LoadFromAtZero(t) ==
    /\ counter' = NextCounter
    /\ IF counter' < NumFiles
       THEN /\ sample' = counter'
            /\ time' = IF counter' = 0 THEN 0 ELSE (t + SampleDuration) % TimeModulus
       ELSE sample' = -1 /\ time' = t

\* Mutated form: the time does not wrap.
LoadFromWide(t) ==
    /\ counter' = NextCounter
    /\ IF counter' < NumFiles
       THEN sample' = counter' /\ time' = t + SampleDuration
       ELSE sample' = -1 /\ time' = t

\* loadNextSample when sampleTime_us is t; a file that is missing leaves the
\* sample empty and the time as it is
LoadFrom(t) ==
    /\ counter' = NextCounter
    /\ IF counter' < NumFiles
       THEN sample' = counter' /\ time' = (t + SampleDuration) % TimeModulus
       ELSE sample' = -1 /\ time' = t

\* the sample before the first one ends at time 0
Start ==
    /\ ~started
    /\ started' = TRUE
    /\ LoadFrom(TimeModulus - SampleDuration)

LoadNextSample ==
    /\ started
    /\ LoadFrom(time)
    /\ UNCHANGED started

Stop ==
    /\ started
    /\ started' = FALSE
    /\ sample' = -1
    /\ time' = 0
    /\ counter' = Unset

Next == Start \/ LoadNextSample \/ Stop

Spec == Init /\ [][Next]_vars
-----------------------------------------------------------------------------
(***************************************************************************)
(* A looping directory that has a sample is a source: the next sample      *)
(* every time, the first one after the last, times that go on through the  *)
(* loop and begin at 0 with every start.                                   *)
(***************************************************************************)
Src == INSTANCE Source WITH
         NumSamples <- NumFiles, Duration <- SampleDuration, current <- sample

ImplementsSource == Src!Spec
=============================================================================
