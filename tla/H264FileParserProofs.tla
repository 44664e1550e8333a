----------------------- MODULE H264FileParserProofs -----------------------
(***************************************************************************)
(* Proofs about FileParser, for any number of files, any rate and any      *)
(* width of the counter and the time; and about H264FileParser, for any    *)
(* directory whose samples are either key frames with their parameter sets *)
(* or single slices.                                                       *)
(***************************************************************************)
EXTENDS H264FileParser, TLAPS

(* What is taken modulo n is below n. *)
LEMMA ModRange ==
  ASSUME NEW n \in Nat \ {0}, NEW a \in Int
  PROVE  a % n \in 0 .. n - 1
OBVIOUS

(* One step further in a loop of n. *)
LEMMA ModNext ==
  ASSUME NEW n \in Nat \ {0}, NEW c \in 0 .. n - 1
  PROVE  (c + 1) % n = IF c + 1 = n THEN 0 ELSE c + 1
OBVIOUS

(* A part of a that b times fits into. *)
LEMMA QuotientRange ==
  ASSUME NEW a \in Nat, NEW b \in 1..a
  PROVE  a \div b \in 1..a
OBVIOUS

(* A sample lasts at least a microsecond and less than time is wide. *)
LEMMA DurationFacts ==
  /\ SampleDuration \in Nat \ {0}
  /\ TimeModulus \in Nat \ {0}
  /\ SampleDuration < TimeModulus
<1>1. Second \in Nat
  BY DEF Second
<1>2. SamplesPerSecond \in 1..Second /\ TimeModulus \in Nat /\ TimeModulus > Second
  BY FileParserAssumption
<1>3. SampleDuration \in 1..Second
  BY <1>1, <1>2, QuotientRange DEF SampleDuration
<1> QED
  BY <1>1, <1>2, <1>3

(* Before the first sample the time is one sample before 0. *)
LEMMA StartTime ==
  /\ TimeModulus - SampleDuration \in 0 .. TimeModulus - 1
  /\ (TimeModulus - SampleDuration + SampleDuration) % TimeModulus = 0
<1>1. TimeModulus - SampleDuration + SampleDuration = TimeModulus
  BY DurationFacts
<1>2. TimeModulus % TimeModulus = 0
  BY DurationFacts
<1> QED
  BY <1>1, <1>2, DurationFacts

(* The values of a parser at rest have their types. *)
LEMMA RestTypes ==
  /\ -1 \in -1 .. NumFiles - 1
  /\ Unset \in 0..MaxCounter
  /\ 0 \in 0 .. TimeModulus - 1
<1>1. NumFiles \in Nat /\ MaxCounter \in Nat
  BY FileParserAssumption
<1> QED
  BY <1>1, DurationFacts DEF Unset

(* Loading keeps the types, from any time. *)
LEMMA LoadTypes ==
  ASSUME TypeOK, NEW t \in 0 .. TimeModulus - 1, LoadFrom(t)
  PROVE  /\ sample' \in -1 .. NumFiles - 1
         /\ counter' \in 0..MaxCounter
         /\ time' \in 0 .. TimeModulus - 1
<1>1. counter' \in 0..MaxCounter
  BY FileParserAssumption DEF LoadFrom, NextCounter, Inc, TypeOK
<1>2. (t + SampleDuration) % TimeModulus \in 0 .. TimeModulus - 1
  BY DurationFacts, ModRange
<1> QED
  BY <1>1, <1>2, FileParserAssumption DEF LoadFrom
-----------------------------------------------------------------------------
(***************************************************************************)
(* The counter stays in its 32 bits and the time in its 64, whether the    *)
(* source loops or not and however many files there are (fileparser.cpp).  *)
(***************************************************************************)
THEOREM TypeCorrect == Spec => []TypeOK
<1>1. Init => TypeOK
  BY RestTypes DEF Init, TypeOK
<1>2. TypeOK /\ [Next]_vars => TypeOK'
  <2> SUFFICES ASSUME TypeOK, [Next]_vars PROVE TypeOK'
    OBVIOUS
  <2>1. CASE Start
    BY <2>1, StartTime, LoadTypes DEF Start, TypeOK
  <2>2. CASE LoadNextSample
    BY <2>2, LoadTypes DEF LoadNextSample, TypeOK
  <2>3. CASE Stop
    BY <2>3, RestTypes DEF Stop, TypeOK
  <2>4. CASE UNCHANGED vars
    BY <2>4 DEF vars, TypeOK
  <2> QED
    BY <2>1, <2>2, <2>3, <2>4 DEF Next
<1> QED
  BY <1>1, <1>2, PTL DEF Spec
-----------------------------------------------------------------------------
(***************************************************************************)
(* In a looping directory with a file the counter is the number of the     *)
(* file that is loaded, and it is unset when none is.                      *)
(***************************************************************************)
PositionInv ==
    /\ TypeOK
    /\ started => sample = counter /\ counter < NumFiles
    /\ ~started => sample = -1 /\ counter = Unset /\ time = 0

(* What LoadFrom does there. *)
LEMMA LoadLoops ==
  ASSUME Loop, NumFiles > 0, NEW t, LoadFrom(t),
         (counter = Unset /\ sample = -1) \/ (counter \in 0 .. NumFiles - 1 /\ sample = counter)
  PROVE  /\ sample' = (sample + 1) % NumFiles
         /\ counter' = sample'
         /\ counter' \in 0 .. NumFiles - 1
         /\ time' = (t + SampleDuration) % TimeModulus
<1> USE FileParserAssumption
<1>1. CASE counter = Unset /\ sample = -1
  <2>1. counter' = 0
    BY <1>1 DEF LoadFrom, NextCounter, Inc, Unset
  <2>2. (sample + 1) % NumFiles = 0
    BY <1>1
  <2> QED
    BY <2>1, <2>2 DEF LoadFrom
<1>2. CASE counter \in 0 .. NumFiles - 1 /\ sample = counter
  <2>1. counter' = IF counter + 1 = NumFiles THEN 0 ELSE counter + 1
    BY <1>2 DEF LoadFrom, NextCounter, Inc
  <2>2. (counter + 1) % NumFiles = IF counter + 1 = NumFiles THEN 0 ELSE counter + 1
    BY <1>2, ModNext
  <2> QED
    BY <1>2, <2>1, <2>2 DEF LoadFrom
<1> QED
  BY <1>1, <1>2

LEMMA PositionStep ==
  ASSUME Loop, NumFiles > 0, PositionInv, [Next]_vars
  PROVE  PositionInv' /\ [Src!Next]_(Src!vars)
<1> USE DEF PositionInv
<1>1. CASE Start
  <2>1. LoadFrom(TimeModulus - SampleDuration) /\ counter = Unset /\ sample = -1
    BY <1>1 DEF Start
  <2>2. counter' = sample' /\ counter' \in 0 .. NumFiles - 1 /\ sample' = (sample + 1) % NumFiles
    BY <2>1, LoadLoops
  <2>3. time' = 0
    BY <2>1, LoadLoops, StartTime
  <2>4. sample' = 0
    BY <2>1, <2>2, FileParserAssumption
  <2>5. TypeOK'
    BY <1>1, <2>1, StartTime, LoadTypes DEF Start, TypeOK
  <2>6. Src!Start
    BY <1>1, <2>3, <2>4 DEF Start, Src!Start
  <2>7. started' /\ sample' = counter' /\ counter' < NumFiles
    BY <1>1, <2>2, FileParserAssumption DEF Start
  <2> QED
    BY <2>5, <2>6, <2>7 DEF Src!Next
<1>2. CASE LoadNextSample
  <2>1. LoadFrom(time) /\ counter \in 0 .. NumFiles - 1 /\ sample = counter
    <3>1. counter \in 0..MaxCounter /\ NumFiles \in Nat /\ MaxCounter \in Nat
      BY FileParserAssumption DEF TypeOK
    <3> QED
      BY <1>2, <3>1 DEF LoadNextSample
  <2>2. /\ counter' = sample' /\ counter' \in 0 .. NumFiles - 1
        /\ sample' = (sample + 1) % NumFiles
        /\ time' = (time + SampleDuration) % TimeModulus
    BY <2>1, LoadLoops
  <2>3. TypeOK'
    BY <1>2, <2>1, LoadTypes DEF LoadNextSample, TypeOK
  <2>4. Src!Load
    BY <1>2, <2>2 DEF LoadNextSample, Src!Load
  <2>5. started' /\ sample' = counter' /\ counter' < NumFiles
    BY <1>2, <2>2, FileParserAssumption DEF LoadNextSample
  <2> QED
    BY <2>3, <2>4, <2>5 DEF Src!Next
<1>3. CASE Stop
  <2>1. TypeOK'
    BY <1>3, RestTypes DEF Stop, TypeOK
  <2> QED
    BY <1>3, <2>1 DEF Stop, Src!Stop, Src!Next, Unset
<1>4. CASE UNCHANGED vars
  BY <1>4 DEF vars, TypeOK, Unset, Src!vars
<1> QED
  BY <1>1, <1>2, <1>3, <1>4 DEF Next

(***************************************************************************)
(* A looping directory that has a file implements the source: the files in *)
(* order, for good, at times one sample apart that begin at 0              *)
(* (ImplementsSource is Src!Spec).                                         *)
(***************************************************************************)
THEOREM RefinesSource == Loop /\ NumFiles > 0 => (Spec => ImplementsSource)
<1> SUFFICES ASSUME Loop, NumFiles > 0 PROVE Spec => ImplementsSource
  OBVIOUS
<1>1. Init => PositionInv /\ Src!Init
  BY RestTypes DEF Init, PositionInv, TypeOK, Src!Init
<1>2. PositionInv /\ [Next]_vars => PositionInv' /\ [Src!Next]_(Src!vars)
  BY PositionStep
<1> QED
  BY <1>1, <1>2, PTL DEF Spec, ImplementsSource, Src!Spec
-----------------------------------------------------------------------------
LEMMA UnitsFacts ==
  /\ Len(Units) \in Nat /\ Len(Units) >= 1 /\ DOMAIN Units = 1..Len(Units)
  /\ \A k \in 1..Len(Units) : Units[k] = <<1>> \/ Units[k] = <<7, 8, 5>>
  /\ Units[1] = <<7, 8, 5>>
  /\ <<1>> # <<7, 8, 5>>
<1>1. Units \in Seq({<<1>>, <<7, 8, 5>>}) /\ Units # <<>> /\ Units[1] = <<7, 8, 5>>
  BY UnitsAssumption
<1>2. Len(Units) \in Nat /\ Len(Units) >= 1 /\ DOMAIN Units = 1..Len(Units)
  BY <1>1
<1>3. \A k \in 1..Len(Units) : Units[k] \in {<<1>>, <<7, 8, 5>>}
  BY <1>1, <1>2
<1>4. Len(<<1>>) = 1 /\ Len(<<7, 8, 5>>) = 3
  OBVIOUS
<1> QED
  BY <1>1, <1>2, <1>3, <1>4

(***************************************************************************)
(* An H264FileParser takes the steps of a FileParser, whatever it does to  *)
(* its cache; so it goes through its samples as one does.                  *)
(***************************************************************************)
LEMMA ParserStep == [H264Next]_h264Vars => [Next]_vars
<1>1. H264Start \/ H264Stop \/ BeginLoad => Next
  BY DEF H264Start, H264Stop, BeginLoad, Next
<1>2. BeginRead \/ ReadUnit \/ Send \/ SkipUnit \/ BeginStore \/ EndStore => UNCHANGED vars
  BY DEF BeginRead, ReadUnit, Send, SkipUnit, BeginStore, EndStore
<1> QED
  BY <1>1, <1>2 DEF H264Next, h264Vars

LEMMA PositionAlways == H264Spec => []PositionInv
<1>1. Loop /\ NumFiles > 0
  BY UnitsFacts, UnitsAssumption
<1>2. H264Init => PositionInv
  BY RestTypes DEF H264Init, Init, PositionInv, TypeOK
<1>3. PositionInv /\ [Next]_vars => PositionInv'
  BY <1>1, PositionStep
<1> QED
  BY <1>2, <1>3, ParserStep, PTL DEF H264Spec

(* H264FileParser implements what FileParser promises. *)
THEOREM IsFileParser == H264Spec => Spec
<1>1. H264Init => Init
  BY DEF H264Init
<1> QED
  BY <1>1, ParserStep, PTL DEF H264Spec, Spec

(* Sample j is a key frame, and the last one up to sample k. *)
IsKeyFrame(j, k) ==
    /\ j \in 1..k
    /\ Units[j] # <<1>>
    /\ \A m \in j+1 .. k : Units[m] = <<1>>

(* There is at most one, so KeyFrameAt is it. *)
LEMMA KeyFrameUnique ==
  ASSUME NEW k \in Nat, NEW j, IsKeyFrame(j, k)
  PROVE  KeyFrameAt(k) = j
<1>1. \A i : IsKeyFrame(i, k) => i = j
  <2> SUFFICES ASSUME NEW i, IsKeyFrame(i, k), i # j
               PROVE  FALSE
    OBVIOUS
  <2>1. i \in 1..k /\ j \in 1..k
    BY DEF IsKeyFrame
  <2>2. CASE i < j
    BY <2>1, <2>2 DEF IsKeyFrame
  <2>3. CASE j < i
    BY <2>1, <2>3 DEF IsKeyFrame
  <2> QED
    BY <2>1, <2>2, <2>3
<1> QED
  BY <1>1 DEF IsKeyFrame, KeyFrameAt

(* A single slice does not change it, a key frame is its own. *)
LEMMA KeyFrameNext ==
  ASSUME NEW k \in 1..Len(Units)
  PROVE  /\ Units[k] = <<7, 8, 5>> => IsKeyFrame(k, k)
         /\ \A j : IsKeyFrame(j, k - 1) /\ Units[k] = <<1>> => IsKeyFrame(j, k)
<1>1. k \in Nat /\ k >= 1
  BY UnitsFacts
<1>2. Units[k] = <<7, 8, 5>> => IsKeyFrame(k, k)
  BY <1>1, UnitsFacts DEF IsKeyFrame
<1>3. ASSUME NEW j, IsKeyFrame(j, k - 1)
      PROVE  Units[k] = <<1>> => IsKeyFrame(j, k)
  <2>1. j \in 1..k /\ Units[j] # <<1>>
    BY <1>1, <1>3 DEF IsKeyFrame
  <2>2. \A m \in j+1 .. k : m = k \/ m \in j+1 .. k - 1
    BY <1>1, <2>1
  <2> QED
    BY <1>3, <2>1, <2>2 DEF IsKeyFrame
<1> QED
  BY <1>2, <1>3
-----------------------------------------------------------------------------
(* How far loadNextSample has got with a sample. *)
Looked ==
    /\ storing = Nothing
    /\ todo = <<>> \/ (todo = <<1>> /\ Units[loaded] = <<1>>)
    /\ \A t \in KeyType : IsKeyFrame(cache[t], loaded)

Storing ==
    /\ Units[loaded] = <<7, 8, 5>>
    /\ \/ todo = <<7, 8, 5>> /\ storing \in {Nothing, 7}
       \/ todo = <<8, 5>> /\ storing \in {Nothing, 8} /\ cache[7] = loaded
       \/ todo = <<5>> /\ storing \in {Nothing, 5} /\ cache[7] = loaded /\ cache[8] = loaded

LoadInv ==
    /\ loaded \in 0..Len(Units)
    /\ cache \in [KeyType -> 0..Len(Units)]
    /\ loaded = 0 => ~started /\ ~Reading /\ todo = <<>> /\ storing = Nothing
    /\ loaded # 0 => Looked \/ (Storing /\ started)
    /\ ~started => todo = <<>>
    /\ started => loaded = sample + 1

(* The shapes of todo. *)
LEMMA TodoFacts ==
  /\ Head(<<1>>) = 1 /\ Tail(<<1>>) = <<>> /\ <<1>> # <<>>
  /\ Head(<<7, 8, 5>>) = 7 /\ Tail(<<7, 8, 5>>) = <<8, 5>> /\ <<7, 8, 5>> # <<>>
  /\ Head(<<8, 5>>) = 8 /\ Tail(<<8, 5>>) = <<5>> /\ <<8, 5>> # <<>>
  /\ Head(<<5>>) = 5 /\ Tail(<<5>>) = <<>> /\ <<5>> # <<>>
  /\ <<1>> # <<7, 8, 5>> /\ <<1>> # <<8, 5>> /\ <<1>> # <<5>>
OBVIOUS

(* The samples as FileParser loads them. *)
LEMMA NextLoaded ==
  ASSUME PositionInv
  PROVE  /\ Start => started' /\ sample' = 0
         /\ LoadNextSample => /\ started /\ started'
                              /\ sample' = IF sample + 1 = Len(Units) THEN 0 ELSE sample + 1
<1>1. Loop /\ NumFiles = Len(Units) /\ NumFiles \in Nat \ {0} /\ MaxCounter \in Nat
  BY UnitsFacts, UnitsAssumption, FileParserAssumption
<1>2. ASSUME Start PROVE started' /\ sample' = 0
  <2>1. LoadFrom(TimeModulus - SampleDuration) /\ counter = Unset /\ sample = -1 /\ started'
    BY <1>2 DEF Start, PositionInv
  <2>2. sample' = (sample + 1) % NumFiles
    BY <1>1, <2>1, LoadLoops
  <2> QED
    BY <1>1, <2>1, <2>2
<1>3. ASSUME LoadNextSample
      PROVE  /\ started /\ started'
             /\ sample' = IF sample + 1 = Len(Units) THEN 0 ELSE sample + 1
  <2>1. LoadFrom(time) /\ counter \in 0 .. NumFiles - 1 /\ sample = counter /\ started /\ started'
    BY <1>1, <1>3 DEF LoadNextSample, PositionInv, TypeOK
  <2>2. sample' = (sample + 1) % NumFiles
    BY <1>1, <2>1, LoadLoops
  <2> QED
    BY <1>1, <2>1, <2>2, ModNext
<1> QED
  BY <1>2, <1>3

LEMMA LoadStep == PositionInv /\ LoadInv /\ [H264Next]_h264Vars => LoadInv'
<1> SUFFICES ASSUME PositionInv, LoadInv, [H264Next]_h264Vars PROVE LoadInv'
  OBVIOUS
<1>u. Len(Units) \in Nat /\ Len(Units) >= 1
  BY UnitsFacts
<1>1. CASE H264Start
  <2>1. /\ started' /\ loaded' = sample' + 1 /\ loaded' = 1 /\ cache' = [t \in KeyType |-> 1]
        /\ UNCHANGED <<todo, storing>>
    BY <1>1, NextLoaded DEF H264Start
  <2>2. todo = <<>> /\ storing = Nothing
    BY <1>1 DEF H264Start, Start, LoadInv, Looked
  <2>3. IsKeyFrame(1, 1)
    <3>1. 1 \in 1..Len(Units) /\ Units[1] = <<7, 8, 5>>
      BY <1>u, UnitsFacts
    <3> QED
      BY <3>1, KeyFrameNext
  <2> QED
    BY <1>u, <2>1, <2>2, <2>3 DEF LoadInv, Looked
<1>2. CASE H264Stop \/ BeginRead \/ ReadUnit \/ Send
  <2>1. UNCHANGED <<loaded, todo, storing, cache>> /\ (Looked' <=> Looked) /\ (Storing' <=> Storing)
    BY <1>2 DEF H264Stop, BeginRead, ReadUnit, Send, Looked, Storing
  <2>2. loaded = 0 => ~started' /\ ~Reading'
    BY <1>2 DEF H264Stop, Stop, vars, BeginRead, ReadUnit, Send, LoadInv, Reading
  <2>3. todo = <<>> => ~Storing
    BY TodoFacts DEF Storing
  <2>4. UNCHANGED <<started, sample>> \/ (~started' /\ todo = <<>>)
    BY <1>2 DEF H264Stop, Stop, vars, BeginRead, ReadUnit, Send, Loading
  <2> QED
    BY <2>1, <2>2, <2>3, <2>4 DEF LoadInv
<1>3. CASE BeginLoad
  <2>1. started /\ todo = <<>> /\ loaded \in 1..Len(Units) /\ Looked
    BY <1>3, <1>u, TodoFacts, NextLoaded DEF BeginLoad, Loading, LoadInv, Storing
  <2>2. /\ started' /\ loaded' = sample' + 1 /\ todo' = Units[loaded']
        /\ UNCHANGED <<storing, cache, toRead, got>>
    BY <1>3, NextLoaded DEF BeginLoad
  <2>a. loaded = sample + 1 /\ sample' = IF sample + 1 = Len(Units) THEN 0 ELSE sample + 1
    BY <1>3, <2>1, NextLoaded DEF BeginLoad, LoadInv
  <2>3. loaded' = IF loaded = Len(Units) THEN 1 ELSE loaded + 1
    BY <1>u, <2>1, <2>2, <2>a
  <2>4. loaded' \in 1..Len(Units)
    BY <1>u, <2>1, <2>3
  <2>5. CASE Units[loaded'] = <<7, 8, 5>>
    BY <2>1, <2>2, <2>4, <2>5 DEF LoadInv, Looked, Storing
  <2>6. CASE Units[loaded'] = <<1>>
    <3>1. loaded' = loaded + 1
      BY <2>3, <2>6, UnitsFacts
    <3>2. \A t \in KeyType : IsKeyFrame(cache[t], loaded' - 1)
      BY <2>1, <3>1 DEF Looked
    <3>3. \A t \in KeyType : IsKeyFrame(cache'[t], loaded')
      BY <2>2, <2>4, <2>6, <3>2, KeyFrameNext
    <3> QED
      BY <2>1, <2>2, <2>4, <2>6, <3>3 DEF LoadInv, Looked
  <2> QED
    BY <2>4, <2>5, <2>6, UnitsFacts
<1>4. CASE SkipUnit
  <2>1. loaded # 0 /\ Looked /\ todo = <<1>>
    BY <1>4, TodoFacts DEF SkipUnit, Loading, LoadInv, Looked, Storing, KeyType
  <2> QED
    BY <1>4, <2>1, TodoFacts DEF SkipUnit, LoadInv, Looked, vars
<1>5. CASE BeginStore
  <2>1. loaded # 0 /\ Storing /\ started /\ storing' = Head(todo)
    BY <1>5, TodoFacts DEF BeginStore, Loading, LoadInv, Looked, KeyType
  <2> QED
    BY <1>5, <2>1, TodoFacts DEF BeginStore, LoadInv, Storing, vars
<1>6. CASE EndStore
  <2>1. loaded \in 1..Len(Units) /\ Storing /\ started
    BY <1>6, <1>u DEF EndStore, LoadInv, Looked
  <2>2. /\ cache' = [cache EXCEPT ![storing] = loaded] /\ storing' = Nothing /\ todo' = Tail(todo)
        /\ UNCHANGED <<vars, loaded, toRead, got>>
    BY <1>6 DEF EndStore
  <2>3. cache \in [KeyType -> 0..Len(Units)]
    BY DEF LoadInv
  <2>4. CASE todo = <<7, 8, 5>>
    <3>1. storing = 7
      BY <1>6, <2>1, <2>4, TodoFacts DEF EndStore, Storing
    <3> QED
      BY <1>u, <2>1, <2>2, <2>3, <2>4, <3>1, TodoFacts DEF LoadInv, Storing, KeyType, vars
  <2>5. CASE todo = <<8, 5>>
    <3>1. storing = 8 /\ cache[7] = loaded
      BY <1>6, <2>1, <2>5, TodoFacts DEF EndStore, Storing
    <3> QED
      BY <1>u, <2>1, <2>2, <2>3, <2>5, <3>1, TodoFacts DEF LoadInv, Storing, KeyType, vars
  <2>6. CASE todo = <<5>>
    <3>1. storing = 5 /\ cache[7] = loaded /\ cache[8] = loaded
      BY <1>6, <2>1, <2>6, TodoFacts DEF EndStore, Storing
    <3>2. \A t \in KeyType : cache'[t] = loaded
      BY <2>2, <2>3, <3>1 DEF KeyType
    <3>3. IsKeyFrame(loaded, loaded)
      BY <2>1, KeyFrameNext DEF Storing
    <3> QED
      BY <1>u, <2>1, <2>2, <2>3, <2>6, <3>2, <3>3, TodoFacts DEF LoadInv, Looked, vars
  <2> QED
    BY <2>1, <2>4, <2>5, <2>6 DEF Storing
<1>7. CASE UNCHANGED h264Vars
  BY <1>7 DEF h264Vars, vars, LoadInv, Looked, Storing, Reading
<1> QED
  BY <1>1, <1>2, <1>3, <1>4, <1>5, <1>6, <1>7 DEF H264Next

LEMMA LoadInvAlways == H264Spec => []LoadInv
<1>1. H264Init => LoadInv
  BY UnitsFacts DEF H264Init, Init, LoadInv, Reading
<1> QED
  BY <1>1, PositionAlways, LoadStep, PTL DEF H264Spec

(***************************************************************************)
(* Between two loads the cache of H264FileParser holds the last key frame  *)
(* that was loaded, whole, for any directory and through any number of     *)
(* loops, stops and starts.                                                *)
(***************************************************************************)
THEOREM CacheCorrect == H264Spec => []CacheIsKeyFrame
<1>1. LoadInv => CacheIsKeyFrame
  <2> SUFFICES ASSUME LoadInv, loaded # 0, ~Loading, NEW t \in KeyType
               PROVE  cache[t] = KeyFrameAt(loaded)
    BY DEF CacheIsKeyFrame
  <2>1. loaded \in Nat
    BY UnitsFacts DEF LoadInv
  <2>2. IsKeyFrame(cache[t], loaded)
    BY TodoFacts DEF LoadInv, Looked, Storing, Loading
  <2> QED
    BY <2>1, <2>2, KeyFrameUnique
<1> QED
  BY <1>1, LoadInvAlways, PTL
-----------------------------------------------------------------------------
(* What is read of a stream at rest is the one key frame of the cache. *)
ReadInv ==
    /\ toRead \in Seq(KeyType)
    /\ got \in Seq(Int)
    /\ Reading /\ ~started => \A n \in DOMAIN got : got[n] = cache[7]

(* All units of a stream at rest are of the same sample. *)
LEMMA RestIsWhole ==
  ASSUME LoadInv, ~started, loaded # 0, NEW t \in KeyType
  PROVE  storing = Nothing /\ cache[t] = cache[7] /\ cache[t] \in 1..Len(Units)
<1>1. loaded \in 1..Len(Units) /\ loaded \in Nat /\ Len(Units) \in Nat
  BY UnitsFacts DEF LoadInv
<1>2. Looked /\ 7 \in KeyType
  BY TodoFacts DEF LoadInv, KeyType
<1>3. IsKeyFrame(cache[t], loaded) /\ IsKeyFrame(cache[7], loaded)
  BY <1>2 DEF Looked
<1>4. cache[t] = KeyFrameAt(loaded) /\ cache[7] = KeyFrameAt(loaded)
  BY <1>1, <1>3, KeyFrameUnique
<1> QED
  BY <1>1, <1>2, <1>3, <1>4 DEF Looked, IsKeyFrame

LEMMA ReadStep == PositionInv /\ LoadInv /\ ReadInv /\ [H264Next]_h264Vars => ReadInv'
<1> SUFFICES ASSUME PositionInv, LoadInv, ReadInv, [H264Next]_h264Vars PROVE ReadInv'
  OBVIOUS
<1>1. CASE H264Start \/ H264Stop
  BY <1>1, NextLoaded DEF H264Start, H264Stop, Stop, Reading, ReadInv
<1>2. CASE BeginRead
  <2>1. got = <<>> /\ got' = got /\ DOMAIN got = {}
    BY <1>2 DEF BeginRead, Reading
  <2>2. toRead' \in Seq(KeyType)
    BY <1>2 DEF BeginRead, KeyType
  <2> QED
    BY <2>1, <2>2 DEF ReadInv
<1>3. CASE ReadUnit
  <2> DEFINE t == Head(toRead)
  <2>1. t \in KeyType /\ toRead' \in Seq(KeyType) /\ UNCHANGED <<vars, cache>> /\ Reading
    BY <1>3 DEF ReadUnit, ReadInv, Reading
  <2>2. PICK unit \in IF storing = t THEN {Torn, cache[t], loaded} ELSE {cache[t]} :
          got' = Append(got, unit)
    BY <1>3 DEF ReadUnit
  <2>3. loaded # 0 /\ unit \in Int
    BY <2>1, <2>2, UnitsFacts DEF LoadInv, Torn
  <2>4. got \in Seq(Int) /\ got' \in Seq(Int) /\ Len(got') = Len(got) + 1 /\ got'[Len(got) + 1] = unit
        /\ \A n \in 1..Len(got) : got'[n] = got[n]
    BY <2>2, <2>3 DEF ReadInv
  <2>5. ASSUME ~started PROVE \A n \in DOMAIN got' : got'[n] = cache[7]
    <3>1. unit = cache[7]
      BY <2>1, <2>2, <2>3, <2>5, RestIsWhole DEF KeyType, Nothing
    <3>2. \A n \in 1..Len(got) : got[n] = cache[7]
      BY <2>1, <2>4, <2>5 DEF ReadInv
    <3> QED
      BY <2>4, <3>1, <3>2
  <2> QED
    BY <2>1, <2>4, <2>5 DEF ReadInv, vars
<1>4. CASE Send
  <2>1. got' = <<>> /\ DOMAIN got' = {} /\ toRead' = <<>>
    BY <1>4 DEF Send
  <2> QED
    BY <2>1 DEF ReadInv
<1>5. CASE BeginLoad \/ SkipUnit \/ BeginStore \/ EndStore
  <2>1. started
    <3>1. CASE BeginLoad
      BY <3>1 DEF BeginLoad, LoadNextSample
    <3>2. CASE SkipUnit \/ BeginStore
      BY <3>2 DEF SkipUnit, BeginStore, Loading, LoadInv
    <3>3. CASE EndStore
      BY <3>3 DEF EndStore, LoadInv, Looked
    <3> QED
      BY <1>5, <3>1, <3>2, <3>3
  <2> QED
    BY <1>5, <2>1 DEF BeginLoad, LoadNextSample, SkipUnit, BeginStore, EndStore, ReadInv, vars
<1>6. CASE UNCHANGED h264Vars
  BY <1>6 DEF h264Vars, vars, Reading, ReadInv
<1> QED
  BY <1>1, <1>2, <1>3, <1>4, <1>5, <1>6 DEF H264Next

LEMMA ReadInvAlways == H264Spec => []ReadInv
<1>1. H264Init => ReadInv
  BY DEF H264Init, ReadInv, Reading
<1> QED
  BY <1>1, PositionAlways, LoadInvAlways, ReadStep, PTL DEF H264Spec

(* What initialNALUS may find. *)
Copied == -1..Len(Units)

CopyInv == got \in Seq(Copied)

LEMMA CopyStep == LoadInv /\ ReadInv /\ CopyInv /\ [H264Next]_h264Vars => CopyInv'
<1> SUFFICES ASSUME LoadInv, ReadInv, CopyInv, [H264Next]_h264Vars PROVE CopyInv'
  OBVIOUS
<1>1. CASE ReadUnit
  <2> DEFINE t == Head(toRead)
  <2>1. t \in KeyType /\ Reading
    BY <1>1 DEF ReadUnit, ReadInv, Reading
  <2>2. PICK unit \in IF storing = t THEN {Torn, cache[t], loaded} ELSE {cache[t]} :
          got' = Append(got, unit)
    BY <1>1 DEF ReadUnit
  <2>3. unit \in Copied
    BY <2>1, <2>2, UnitsFacts DEF LoadInv, Torn, Copied
  <2> QED
    BY <2>1, <2>2, <2>3 DEF CopyInv
<1>2. CASE Send
  BY <1>2 DEF Send, CopyInv
<1>3. CASE H264Start \/ H264Stop \/ BeginRead \/ BeginLoad \/ SkipUnit \/ BeginStore \/ EndStore
  BY <1>3 DEF H264Start, H264Stop, BeginRead, BeginLoad, SkipUnit, BeginStore, EndStore, CopyInv
<1>4. CASE UNCHANGED h264Vars
  BY <1>4 DEF h264Vars, vars, CopyInv
<1> QED
  BY <1>1, <1>2, <1>3, <1>4 DEF H264Next

(***************************************************************************)
(* Type correctness: in particular the cache only ever holds units of the  *)
(* directory, and what is copied of it these or a torn one.                *)
(***************************************************************************)
THEOREM CacheTypeCorrect == H264Spec => []CacheTypeOK
<1>1. H264Init => CopyInv
  <2>1. H264Init => got = <<>>
    BY DEF H264Init
  <2>2. <<>> \in Seq(Copied)
    OBVIOUS
  <2> QED
    BY <2>1, <2>2 DEF CopyInv
<1>2. LoadInv /\ ReadInv /\ CopyInv => CacheTypeOK
  <2> SUFFICES ASSUME LoadInv, ReadInv, CopyInv PROVE CacheTypeOK
    OBVIOUS
  <2>1. todo = <<>> \/ todo = <<1>> \/ todo = <<7, 8, 5>> \/ todo = <<8, 5>> \/ todo = <<5>>
    BY DEF LoadInv, Looked, Storing
  <2>2. todo \in Seq({7, 8, 5, 1})
    <3>1. CASE todo = <<>>
      BY <3>1
    <3>2. CASE todo = <<1>>
      BY <3>2
    <3>3. CASE todo = <<7, 8, 5>>
      BY <3>3
    <3>4. CASE todo = <<8, 5>>
      BY <3>4
    <3>5. CASE todo = <<5>>
      BY <3>5
    <3> QED
      BY <2>1, <3>1, <3>2, <3>3, <3>4, <3>5
  <2>3. storing \in KeyType \cup {Nothing}
    BY DEF LoadInv, Looked, Storing, KeyType, Nothing
  <2> QED
    BY <2>2, <2>3 DEF CacheTypeOK, LoadInv, ReadInv, CopyInv, Copied
<1> QED
  BY <1>1, <1>2, LoadInvAlways, ReadInvAlways, CopyStep, PTL DEF H264Spec

(***************************************************************************)
(* A viewer who joins a stream that has stopped is sent one whole key      *)
(* frame: stop waits for a load that runs, so none is left half stored.    *)
(***************************************************************************)
THEOREM StoppedIsWhole == H264Spec => []WholeWhenStopped
<1>1. LoadInv /\ ReadInv => WholeWhenStopped
  <2> SUFFICES ASSUME LoadInv, ReadInv, Reading, ~started PROVE Whole(got)
    BY DEF WholeWhenStopped
  <2>1. cache[7] \in 1..Len(Units)
    BY RestIsWhole DEF LoadInv, KeyType
  <2> QED
    BY <2>1 DEF ReadInv, Whole
<1> QED
  BY <1>1, LoadInvAlways, ReadInvAlways, PTL
=============================================================================
