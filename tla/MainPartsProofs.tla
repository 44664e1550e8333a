--------------------------- MODULE MainPartsProofs ---------------------------
(***************************************************************************)
(* Proofs about the parts of the program that stand beside the streamer    *)
(* and share nothing with each other: RtpClock, PingPong and ArgParser.    *)
(***************************************************************************)
EXTENDS RtpClock, PingPong, ArgParser, TLAPS, FiniteSetTheorems

(***************************************************************************)
(* RtpClock: for every width of a time stamp, every clock and every frame  *)
(* of less than the width, and however late the viewer joins.              *)
(***************************************************************************)

(* Time stamps are taken modulo the width once around. *)
LEMMA ModOnce ==
  ASSUME NEW m \in Nat \ {0}, NEW x \in 0 .. 2 * m - 1
  PROVE  x % m = IF x < m THEN x ELSE x - m
<1>1. CASE x < m
  BY <1>1
<1>2. CASE x >= m
  <2>1. PICK y \in 0 .. m - 1 : x = y + m
    BY <1>2
  <2>2. (y + m) % m = y
    BY <2>1
  <2> QED
    BY <1>2, <2>1, <2>2
<1> QED
  BY <1>1, <1>2

LEMMA ClockConstants ==
  /\ Modulus \in Nat \ {0} /\ Rate \in Nat \ {0} /\ Frame \in Nat \ {0}
  /\ Frame \in Stamp /\ Rate + Frame < Modulus
BY ClockAssumption DEF Stamp

LEMMA PlusIs ==
  ASSUME NEW a \in Stamp, NEW b \in Stamp
  PROVE  /\ Plus(a, b) = IF a + b < Modulus THEN a + b ELSE a + b - Modulus
         /\ Plus(a, b) \in Stamp
<1>1. Modulus \in Nat \ {0} /\ a + b \in 0 .. 2 * Modulus - 1
  BY ClockConstants DEF Stamp
<1>2. Plus(a, b) = IF a + b < Modulus THEN a + b ELSE a + b - Modulus
  <2>1. PICK x \in 0 .. 2 * Modulus - 1 : x = a + b
    BY <1>1
  <2>2. x % Modulus = IF x < Modulus THEN x ELSE x - Modulus
    BY <1>1, ModOnce
  <2>3. Plus(a, b) = x % Modulus
    BY <2>1, Zenon DEF Plus
  <2> QED
    BY <1>1, <2>1, <2>2, <2>3 DEF Stamp
<1> QED
  BY <1>1, <1>2 DEF Stamp

LEMMA MinusIs ==
  ASSUME NEW a \in Stamp, NEW b \in Stamp
  PROVE  /\ Minus(a, b) = IF a >= b THEN a - b ELSE a - b + Modulus
         /\ Minus(a, b) \in Stamp
<1>1. Modulus \in Nat \ {0} /\ a - b + Modulus \in 0 .. 2 * Modulus - 1
  BY ClockConstants DEF Stamp
<1>2. Minus(a, b) = IF a >= b THEN a - b ELSE a - b + Modulus
  <2>1. PICK x \in 0 .. 2 * Modulus - 1 : x = a - b + Modulus
    BY <1>1
  <2>2. x % Modulus = IF x < Modulus THEN x ELSE x - Modulus
    BY <1>1, ModOnce
  <2>3. Minus(a, b) = x % Modulus
    BY <2>1, Zenon DEF Minus
  <2> QED
    BY <1>1, <2>1, <2>2, <2>3 DEF Stamp
<1> QED
  BY <1>1, <1>2 DEF Stamp

LEMMA ElapsedAtStart ==
  ASSUME NEW n \in Nat
  PROVE  (n * Frame) % Modulus \in Stamp
<1>1. n * Frame \in Nat
  BY ClockConstants
<1>2. Modulus \in Nat \ {0}
  BY ClockConstants
<1> QED
  BY <1>1, <1>2 DEF Stamp
-----------------------------------------------------------------------------
(***************************************************************************)
(* While a viewer is served and owed no report, the last time stamp is at  *)
(* most a second after the one the last report remembered, and the time    *)
(* that has passed is no more than that.  Before the first report that     *)
(* time stamp is 0, from which the difference may be anything, but it does *)
(* not wrap before a report is due.                                        *)
(***************************************************************************)
ClockInv ==
    /\ phase = "served" => Plus(startTimestamp, elapsed) = Plus(timestamp, Frame)
    /\ phase = "served" /\ ~needsToReport =>
          since <= Minus(timestamp, lastReported) /\ Minus(timestamp, lastReported) <= Rate
    /\ phase = "shown" =>
          timestamp = Plus(Minus(startTimestamp, Plus(Frame, Frame)), Frame)

ClockSafe == ClockTypeOK /\ ClockInv

LEMMA ClockSafeInit == ClockInit => ClockSafe
<1> SUFFICES ASSUME ClockInit
             PROVE  ClockSafe
  OBVIOUS
<1>1. elapsed \in Stamp
  <2>1. PICK n \in 0..MaxLate : elapsed = (n * Frame) % Modulus
    BY DEF ClockInit
  <2> QED
    BY <2>1, ClockAssumption, ElapsedAtStart
<1>2. 0 \in Stamp
  BY ClockConstants DEF Stamp
<1> QED
  BY <1>1, <1>2 DEF ClockInit, ClockSafe, ClockTypeOK, ClockInv

(* The next time stamp is one frame further from the last report. *)
LEMMA NextDifference ==
  ASSUME NEW t \in Stamp, NEW l \in Stamp, Minus(t, l) <= Rate
  PROVE  Minus(Plus(t, Frame), l) = Minus(t, l) + Frame
<1>1. Plus(t, Frame) \in Stamp
      /\ Plus(t, Frame) = IF t + Frame < Modulus THEN t + Frame ELSE t + Frame - Modulus
  BY ClockConstants, PlusIs
<1>2. Minus(t, l) = IF t >= l THEN t - l ELSE t - l + Modulus
  BY MinusIs
<1>3. Minus(Plus(t, Frame), l) = IF Plus(t, Frame) >= l THEN Plus(t, Frame) - l
                                 ELSE Plus(t, Frame) - l + Modulus
  BY <1>1, MinusIs
<1> QED
  BY <1>1, <1>2, <1>3, ClockConstants DEF Stamp

LEMMA ClockHandle ==
  ASSUME ClockSafe, NEW sent \in BOOLEAN, Handle(sent)
  PROVE  ClockSafe'
<1> DEFINE t == Plus(startTimestamp, elapsed)
           due == needsToReport \/ ReportDue(t)
<1>t. ClockTypeOK /\ ClockInv
  BY DEF ClockSafe
<1>1. t \in Stamp /\ Plus(elapsed, Frame) \in Stamp
  BY <1>t, ClockConstants, PlusIs DEF ClockTypeOK
<1>2. /\ phase' = "served" /\ timestamp' = t /\ elapsed' = Plus(elapsed, Frame)
      /\ needsToReport' = (due /\ ~sent)
      /\ lastReported' = IF due /\ sent THEN t ELSE lastReported
      /\ since' = IF due /\ sent THEN 0 ELSE IF phase # "served" THEN 0 ELSE since + Frame
      /\ UNCHANGED startTimestamp
  BY DEF Handle
<1>3. ClockTypeOK'
  BY <1>t, <1>1, <1>2, ClockConstants DEF ClockTypeOK
<1>4. Plus(startTimestamp', elapsed') = Plus(timestamp', Frame)
  <2>1. startTimestamp \in Stamp /\ elapsed \in Stamp /\ Frame \in Stamp
    BY <1>t, ClockConstants DEF ClockTypeOK
  <2>2. /\ Plus(startTimestamp, elapsed) = IF startTimestamp + elapsed < Modulus
              THEN startTimestamp + elapsed ELSE startTimestamp + elapsed - Modulus
        /\ Plus(elapsed, Frame) = IF elapsed + Frame < Modulus
              THEN elapsed + Frame ELSE elapsed + Frame - Modulus
    BY <2>1, PlusIs
  <2>3. /\ Plus(startTimestamp, Plus(elapsed, Frame)) =
              IF startTimestamp + Plus(elapsed, Frame) < Modulus
              THEN startTimestamp + Plus(elapsed, Frame)
              ELSE startTimestamp + Plus(elapsed, Frame) - Modulus
        /\ Plus(t, Frame) = IF t + Frame < Modulus THEN t + Frame ELSE t + Frame - Modulus
    BY <2>1, <1>1, PlusIs
  <2>4. Plus(startTimestamp, Plus(elapsed, Frame)) = Plus(t, Frame)
    BY <2>1, <2>2, <2>3, ClockConstants DEF Stamp
  <2> QED
    BY <1>2, <2>4
<1>5. ASSUME ~needsToReport'
      PROVE  since' <= Minus(timestamp', lastReported') /\ Minus(timestamp', lastReported') <= Rate
  <2>1. CASE due /\ sent
    <3>1. Minus(t, t) = 0
      BY <1>1, MinusIs DEF Stamp
    <3> QED
      BY <1>2, <2>1, <3>1, ClockConstants
  <2>2. CASE ~due
    <3>0. Minus(t, lastReported) \in Stamp
      BY <1>1, <1>t, MinusIs DEF ClockTypeOK
    <3>1. ~needsToReport /\ Minus(t, lastReported) <= Rate /\ Minus(t, lastReported) \in Stamp
      BY <2>2, <3>0, ClockConstants DEF ReportDue, Stamp
    <3>2. timestamp' = t /\ lastReported' = lastReported
      BY <1>2, <2>2
    <3>3. CASE phase # "served"
      BY <1>2, <2>2, <3>1, <3>2, <3>3 DEF Stamp
    <3>4. CASE phase = "served"
      <4>1. t = Plus(timestamp, Frame) /\ since <= Minus(timestamp, lastReported)
            /\ Minus(timestamp, lastReported) <= Rate
        BY <1>t, <3>1, <3>4 DEF ClockInv
      <4>2. Minus(t, lastReported) = Minus(timestamp, lastReported) + Frame
        BY <1>t, <4>1, NextDifference DEF ClockTypeOK
      <4>3. Minus(timestamp, lastReported) \in Stamp /\ since \in Nat
        BY <1>t, MinusIs DEF ClockTypeOK
      <4>4. since' = since + Frame
        BY <1>2, <2>2, <3>4
      <4> QED
        BY <3>1, <3>2, <4>1, <4>2, <4>3, <4>4, ClockConstants DEF Stamp
    <3> QED
      BY <3>3, <3>4
  <2> QED
    BY <1>2, <1>5, <2>1, <2>2
<1> QED
  BY <1>2, <1>3, <1>4, <1>5 DEF ClockSafe, ClockInv

LEMMA ClockStep == ClockSafe /\ [ClockNext]_clockVars => ClockSafe'
<1> SUFFICES ASSUME ClockSafe, [ClockNext]_clockVars
             PROVE  ClockSafe'
  OBVIOUS
<1>1. CASE SendInitialNalus
  <2>1. Plus(Frame, Frame) \in Stamp
    BY ClockConstants, PlusIs
  <2>2. Minus(startTimestamp, Plus(Frame, Frame)) \in Stamp
    BY <2>1, MinusIs DEF ClockSafe, ClockTypeOK
  <2>3. Plus(Minus(startTimestamp, Plus(Frame, Frame)), Frame) \in Stamp
    BY <2>2, ClockConstants, PlusIs
  <2> QED
    BY <1>1, <2>3 DEF SendInitialNalus, ClockSafe, ClockTypeOK, ClockInv
<1>2. CASE NoInitialNalus
  BY <1>2 DEF NoInitialNalus, ClockSafe, ClockTypeOK, ClockInv
<1>3. ASSUME NEW sent \in BOOLEAN, Handle(sent)
      PROVE  ClockSafe'
  BY <1>3, ClockHandle
<1>4. CASE UNCHANGED clockVars
  BY <1>4 DEF clockVars, ClockSafe, ClockTypeOK, ClockInv
<1> QED
  BY <1>1, <1>2, <1>3, <1>4 DEF ClockNext

(* Time stamps and differences stay in their range. *)
THEOREM ClockTypeCorrect == ClockSpec => []ClockTypeOK
<1>1. ClockSafe => ClockTypeOK
  BY DEF ClockSafe
<1> QED
  BY <1>1, ClockSafeInit, ClockStep, PTL DEF ClockSpec

(* A viewer who was sent a sample more than a second after the last report, *)
(* or after the first sample, was sent a report with it, wherever the time  *)
(* stamps start and wrap.                                                   *)
THEOREM ReportsComeInTime == ClockSpec => []ReportedInTime
<1>1. ClockSafe => ReportedInTime
  <2> SUFFICES ASSUME ClockSafe, phase = "served", ~needsToReport
               PROVE  since <= Rate
    BY DEF ReportedInTime
  <2>1. Minus(timestamp, lastReported) \in Stamp
    BY MinusIs DEF ClockSafe, ClockTypeOK
  <2> QED
    BY <2>1, ClockConstants DEF ClockSafe, ClockInv, ClockTypeOK, Stamp
<1> QED
  BY <1>1, ClockSafeInit, ClockStep, PTL DEF ClockSpec

(* The key frame that a viewer is shown first is older than the sample that *)
(* follows, as a receiver compares time stamps.                             *)
THEOREM KeyFrameComesFirst == ClockSpec => []KeyFrameIsOlder
<1>1. ClockSafe => KeyFrameIsOlder
  <2> SUFFICES ASSUME ClockSafe, phase = "shown", elapsed + 2 * Frame <= Modulus \div 2
               PROVE  Minus(Plus(startTimestamp, elapsed), timestamp)
                         \in Frame .. Modulus \div 2
    BY DEF KeyFrameIsOlder
  <2>1. /\ startTimestamp \in Stamp /\ timestamp \in Stamp /\ elapsed \in Stamp
        /\ Frame \in Stamp
    BY ClockConstants DEF ClockSafe, ClockTypeOK
  <2> DEFINE half == Modulus \div 2
             back == Minus(startTimestamp, Plus(Frame, Frame))
             next == Plus(startTimestamp, elapsed)
  <2>2. half \in Nat /\ 2 * half <= Modulus
    BY ClockConstants
  <2>3. elapsed + 2 * Frame <= half
    OBVIOUS
  <2> HIDE DEF half
  <2>4. Plus(Frame, Frame) = Frame + Frame /\ Plus(Frame, Frame) \in Stamp
    BY <2>1, <2>2, <2>3, PlusIs, ClockConstants DEF Stamp
  <2>5. /\ back \in Stamp
        /\ back = IF startTimestamp >= Frame + Frame THEN startTimestamp - (Frame + Frame)
                  ELSE startTimestamp - (Frame + Frame) + Modulus
    BY <2>1, <2>4, MinusIs
  <2>6. timestamp = IF back + Frame < Modulus THEN back + Frame ELSE back + Frame - Modulus
    BY <2>1, <2>5, PlusIs DEF ClockSafe, ClockInv
  <2>7. /\ next \in Stamp
        /\ next = IF startTimestamp + elapsed < Modulus THEN startTimestamp + elapsed
                  ELSE startTimestamp + elapsed - Modulus
    BY <2>1, PlusIs
  <2> HIDE DEF back, next
  <2>8. Minus(next, timestamp) = IF next >= timestamp THEN next - timestamp
                                 ELSE next - timestamp + Modulus
    BY <2>1, <2>7, MinusIs
  <2>9. Minus(next, timestamp) \in Frame .. half
    BY <2>1, <2>2, <2>3, <2>5, <2>6, <2>7, <2>8, ClockConstants DEF Stamp
  <2> QED
    BY <2>9 DEF half, next
<1> QED
  BY <1>1, ClockSafeInit, ClockStep, PTL DEF ClockSpec
-----------------------------------------------------------------------------
(***************************************************************************)
(* PingPong: for every number of channels.  The tokens are counted through *)
(* the sets of them, which are finite because every step adds or removes   *)
(* one.                                                                    *)
(***************************************************************************)
LEMMA InTokens ==
  ASSUME NEW f
  PROVE  /\ \A t : t \in Tokens(f) <=> \E c \in Channel : \E n \in 1 .. f[c] : t = <<c, n>>
         /\ \A c, n : <<c, n>> \in Tokens(f) <=> c \in Channel /\ n \in 1 .. f[c]
<1>1. \A t : t \in Tokens(f) <=> \E c \in Channel : \E n \in 1 .. f[c] : t = <<c, n>>
  BY DEF Tokens
<1>2. \A c, n : <<c, n>> \in Tokens(f) <=> c \in Channel /\ n \in 1 .. f[c]
  BY <1>1
<1> QED
  BY <1>1, <1>2

(* Two counts with the same messages have the same tokens. *)
LEMMA TokensAre ==
  ASSUME NEW f, NEW T,
         \A t \in T : \E c, n : t = <<c, n>>,
         \A c, n : <<c, n>> \in T <=> c \in Channel /\ n \in 1 .. f[c]
  PROVE  Tokens(f) = T
<1>1. ASSUME NEW t \in T PROVE t \in Tokens(f)
  <2>1. PICK c, n : t = <<c, n>>
    OBVIOUS
  <2> QED
    BY <2>1, InTokens
<1>2. ASSUME NEW t \in Tokens(f) PROVE t \in T
  <2>1. PICK c \in Channel : \E n \in 1 .. f[c] : t = <<c, n>>
    BY <1>2, InTokens
  <2>2. PICK n \in 1 .. f[c] : t = <<c, n>>
    BY <2>1
  <2> QED
    BY <2>2
<1> QED
  BY <1>1, <1>2

(* One message more is one token more. *)
LEMMA AddToken ==
  ASSUME NEW f \in [Channel -> Nat], NEW c \in Channel, IsFiniteSet(Tokens(f))
  PROVE  /\ Add(f, c) \in [Channel -> Nat]
         /\ IsFiniteSet(Tokens(Add(f, c)))
         /\ Cardinality(Tokens(Add(f, c))) = Cardinality(Tokens(f)) + 1
<1>1. /\ Add(f, c) \in [Channel -> Nat]
      /\ \A b \in Channel : Add(f, c)[b] = IF b = c THEN f[b] + 1 ELSE f[b]
  BY DEF Add
<1>2. Tokens(Add(f, c)) = Tokens(f) \cup {<<c, f[c] + 1>>}
  <2>1. \A b \in Channel : \A n : n \in 1 .. Add(f, c)[b] <=>
          n \in 1 .. f[b] \/ (b = c /\ n = f[c] + 1)
    BY <1>1
  <2> DEFINE T == Tokens(f) \cup {<<c, f[c] + 1>>}
  <2>2. \A t \in T : \E b, n : t = <<b, n>>
    BY InTokens
  <2>3. \A b, n : <<b, n>> \in T <=> <<b, n>> \in Tokens(f) \/ (b = c /\ n = f[c] + 1)
    OBVIOUS
  <2>4. \A b, n : <<b, n>> \in T <=> b \in Channel /\ n \in 1 .. Add(f, c)[b]
    BY <2>1, <2>3, InTokens, Zenon
  <2> HIDE DEF T
  <2>5. Tokens(Add(f, c)) = T
    BY <2>2, <2>4, TokensAre
  <2> QED
    BY <2>5 DEF T
<1>3. <<c, f[c] + 1>> \notin Tokens(f)
  <2>1. f[c] + 1 \notin 1 .. f[c]
    OBVIOUS
  <2> QED
    BY <2>1, InTokens
<1>4. /\ IsFiniteSet(Tokens(f) \cup {<<c, f[c] + 1>>})
      /\ Cardinality(Tokens(f) \cup {<<c, f[c] + 1>>}) = Cardinality(Tokens(f)) + 1
  BY <1>3, FS_AddElement
<1> QED
  BY <1>1, <1>2, <1>4

(* One message less is one token less. *)
LEMMA RemoveToken ==
  ASSUME NEW f \in [Channel -> Nat], NEW c \in Channel, f[c] > 0, IsFiniteSet(Tokens(f))
  PROVE  /\ Remove(f, c) \in [Channel -> Nat]
         /\ IsFiniteSet(Tokens(Remove(f, c)))
         /\ Cardinality(Tokens(Remove(f, c))) = Cardinality(Tokens(f)) - 1
<1>1. /\ Remove(f, c) \in [Channel -> Nat]
      /\ \A b \in Channel : Remove(f, c)[b] = IF b = c THEN f[b] - 1 ELSE f[b]
  BY DEF Remove
<1>2. Tokens(Remove(f, c)) = Tokens(f) \ {<<c, f[c]>>}
  <2>1. \A b \in Channel : \A n : n \in 1 .. Remove(f, c)[b] <=>
          n \in 1 .. f[b] /\ ~(b = c /\ n = f[c])
    BY <1>1
  <2> DEFINE T == Tokens(f) \ {<<c, f[c]>>}
  <2>2. \A t \in T : \E b, n : t = <<b, n>>
    BY InTokens
  <2>3. \A b, n : <<b, n>> \in T <=> <<b, n>> \in Tokens(f) /\ ~(b = c /\ n = f[c])
    OBVIOUS
  <2>4. \A b, n : <<b, n>> \in T <=> b \in Channel /\ n \in 1 .. Remove(f, c)[b]
    BY <2>1, <2>3, InTokens, Zenon
  <2> HIDE DEF T
  <2>5. Tokens(Remove(f, c)) = T
    BY <2>2, <2>4, TokensAre
  <2> QED
    BY <2>5 DEF T
<1>3. <<c, f[c]>> \in Tokens(f)
  <2>1. f[c] \in 1 .. f[c]
    OBVIOUS
  <2> QED
    BY <2>1, InTokens
<1> QED
  BY <1>1, <1>2, <1>3, FS_RemoveElement

(* Who is dropped with a channel leaves no more tokens than before, and fewer *)
(* if the channel had one.                                                    *)
LEMMA DropTokens ==
  ASSUME NEW f \in [Channel -> Nat], NEW c \in Channel, IsFiniteSet(Tokens(f)),
         NEW g, g = [f EXCEPT ![c] = 0]
  PROVE  /\ g \in [Channel -> Nat]
         /\ IsFiniteSet(Tokens(g))
         /\ Cardinality(Tokens(g)) <= Cardinality(Tokens(f))
         /\ f[c] > 0 => Cardinality(Tokens(g)) + 1 <= Cardinality(Tokens(f))
<1>1. g \in [Channel -> Nat] /\ \A b \in Channel : g[b] = IF b = c THEN 0 ELSE f[b]
  OBVIOUS
<1>2. ASSUME NEW t \in Tokens(g)
      PROVE  t \in Tokens(f) /\ t # <<c, 1>>
  <2>1. PICK b \in Channel : \E n \in 1 .. g[b] : t = <<b, n>>
    BY <1>2, InTokens
  <2>2. PICK n \in 1 .. g[b] : t = <<b, n>>
    BY <2>1
  <2>3. b # c /\ n \in 1 .. f[b]
    BY <1>1, <2>1, <2>2
  <2> QED
    BY <2>2, <2>3, InTokens
<1>3. /\ IsFiniteSet(Tokens(g))
      /\ Cardinality(Tokens(g)) <= Cardinality(Tokens(f))
  BY <1>2, FS_Subset
<1>4. ASSUME f[c] > 0
      PROVE  Cardinality(Tokens(g)) + 1 <= Cardinality(Tokens(f))
  <2>1. <<c, 1>> \in Tokens(f)
    <3>1. 1 \in 1 .. f[c]
      BY <1>4
    <3> QED
      BY <3>1, InTokens
  <2>2. /\ IsFiniteSet(Tokens(f) \ {<<c, 1>>})
        /\ Cardinality(Tokens(f) \ {<<c, 1>>}) = Cardinality(Tokens(f)) - 1
    BY <2>1, FS_RemoveElement
  <2>3. Tokens(g) \subseteq Tokens(f) \ {<<c, 1>>}
    BY <1>2
  <2>4. Cardinality(Tokens(g)) <= Cardinality(Tokens(f) \ {<<c, 1>>})
    BY <2>2, <2>3, FS_Subset
  <2>5. Cardinality(Tokens(g)) \in Nat /\ Cardinality(Tokens(f)) \in Nat
    BY <1>3, FS_CardinalityType
  <2> QED
    BY <2>2, <2>4, <2>5
<1> QED
  BY <1>1, <1>3, <1>4

\* the channels that have a message under way, or a timer to be cleared
Busy == {c \in Channel : c \in dcTimeout \/ pings[c] > 0 \/ pongs[c] > 0}

(* Sets of channels are finite, and one that loses one element has one less. *)
LEMMA ChannelSets ==
  ASSUME NEW S \in SUBSET Channel, NEW T \in SUBSET Channel
  PROVE  /\ Cardinality(S) \in Nat /\ Cardinality(T) \in Nat
         /\ S \subseteq T => Cardinality(S) <= Cardinality(T)
         /\ \A c \in T \ S : S \subseteq T => Cardinality(S) + 1 <= Cardinality(T)
         /\ \A c : S \ {c} \subseteq T => Cardinality(S) <= Cardinality(T) + 1
<1>1. IsFiniteSet(Channel)
  BY ChannelAssumption, FS_Interval DEF Channel
<1>2. IsFiniteSet(S) /\ IsFiniteSet(T)
  BY <1>1, FS_Subset
<1>3. Cardinality(S) \in Nat /\ Cardinality(T) \in Nat
  BY <1>2, FS_CardinalityType
<1>4. S \subseteq T => Cardinality(S) <= Cardinality(T)
  BY <1>2, FS_Subset
<1>5. ASSUME NEW c \in T \ S, S \subseteq T
      PROVE  Cardinality(S) + 1 <= Cardinality(T)
  <2>1. S \cup {c} \in SUBSET T /\ c \notin S
    BY <1>5
  <2>2. Cardinality(S \cup {c}) = Cardinality(S) + 1
    BY <1>2, <2>1, FS_AddElement
  <2> QED
    BY <1>2, <2>1, <2>2, FS_Subset
<1>6. ASSUME NEW c, S \ {c} \subseteq T
      PROVE  Cardinality(S) <= Cardinality(T) + 1
  <2>1. /\ IsFiniteSet(S \ {c})
        /\ Cardinality(S \ {c}) = IF c \in S THEN Cardinality(S) - 1 ELSE Cardinality(S)
    BY <1>2, FS_RemoveElement
  <2>2. Cardinality(S \ {c}) <= Cardinality(T)
    BY <1>2, <1>6, <2>1, FS_Subset
  <2> QED
    BY <1>3, <2>1, <2>2
<1> QED
  BY <1>3, <1>4, <1>5, <1>6

\* the number of messages or timers
Count(f) == Cardinality(Tokens(f))

(***************************************************************************)
(* A timer that is the last one of its channel runs; while there is any    *)
(* timer of an open channel there is a last one, and there is none before  *)
(* the channel opens; only open channels have messages; and every message  *)
(* or timer but the late ones has a channel of its own.                    *)
(***************************************************************************)
PingParts ==
    /\ PingTypeOK
    /\ \A c \in dcTimeout : timeouts[c] > 0
    /\ \A c \in Channel : timeouts[c] > 0 => \/ channel[c] = "closed"
                                             \/ channel[c] = "open" /\ c \in dcTimeout
    /\ \A c \in Channel : pings[c] > 0 \/ pongs[c] > 0 => channel[c] = "open"
    /\ IsFiniteSet(Tokens(pings)) /\ IsFiniteSet(Tokens(pongs)) /\ IsFiniteSet(Tokens(timeouts))

Sum == Count(pings) + Count(pongs) + Count(timeouts)

PingInv == PingParts /\ Sum <= Cardinality(Busy) + late

LEMMA PingInitial == PingInit => PingInv
<1> SUFFICES ASSUME PingInit
             PROVE  PingInv
  OBVIOUS
<1>1. PingTypeOK
  BY DEF PingInit, PingTypeOK
<1>2. \A f \in {pings, pongs, timeouts} : Tokens(f) = {}
  <2>1. \A c \in Channel : 1 .. 0 = {} /\ pings[c] = 0 /\ pongs[c] = 0 /\ timeouts[c] = 0
    BY DEF PingInit
  <2> QED
    BY <2>1, InTokens
<1>3. IsFiniteSet({}) /\ Cardinality({}) = 0
  BY FS_EmptySet
<1>4. Cardinality(Busy) \in Nat
  BY ChannelSets DEF Busy
<1>5. PingParts
  BY <1>1, <1>2, <1>3 DEF PingInit, PingParts
<1>6. Sum = 0 /\ late = 0
  BY <1>2, <1>3 DEF Sum, Count, PingInit
<1> QED
  BY <1>4, <1>5, <1>6 DEF PingInv

(* What has to be shown of a step: the parts, and that the sum grows by no *)
(* more than the busy channels and the late timers.                        *)
LEMMA PingCounts ==
  ASSUME PingInv, PingParts',
         NEW d \in {-1, 0, 1},
         Sum' <= Sum + d,
         \/ d = -1 /\ late' = late /\ \E c : Busy \ {c} \subseteq Busy'
         \/ d = 0 /\ late' = late /\ Busy \subseteq Busy'
         \/ d = 0 /\ late' = late + 1 /\ \E c : Busy \ {c} \subseteq Busy'
         \/ d = 1 /\ late' = late /\ Busy \subseteq Busy' /\ \E c : c \in Busy' \ Busy
  PROVE  PingInv'
<1>1. Busy \in SUBSET Channel /\ Busy' \in SUBSET Channel
  BY DEF Busy, Channel
<1>2. Sum \in Nat /\ Sum' \in Nat
  BY FS_CardinalityType DEF PingInv, PingParts, Sum, Count
<1>3. late \in Nat /\ late' \in Nat
  BY DEF PingInv, PingParts, PingTypeOK
<1>4. Sum <= Cardinality(Busy) + late
  BY DEF PingInv
<1>5. Cardinality(Busy) \in Nat /\ Cardinality(Busy') \in Nat
  BY <1>1, ChannelSets
<1> DEFINE B == Cardinality(Busy)
           C == Cardinality(Busy')
<1>6. \/ d = -1 /\ late' = late /\ B <= C + 1
      \/ d = 0 /\ late' = late /\ B <= C
      \/ d = 0 /\ late' = late + 1 /\ B <= C + 1
      \/ d = 1 /\ late' = late /\ B + 1 <= C
  BY <1>1, ChannelSets
<1>7. Sum' <= C + late'
  <2> HIDE DEF B, C
  <2>1. B \in Nat /\ C \in Nat /\ Sum <= B + late
    BY <1>4, <1>5 DEF B, C
  <2>2. d \in Int /\ Sum' <= Sum + d
    OBVIOUS
  <2>3. CASE d = -1 /\ late' = late /\ B <= C + 1
    BY <1>2, <1>3, <2>1, <2>2, <2>3
  <2>4. CASE d = 0 /\ late' = late /\ B <= C
    BY <1>2, <1>3, <2>1, <2>2, <2>4
  <2>5. CASE d = 0 /\ late' = late + 1 /\ B <= C + 1
    BY <1>2, <1>3, <2>1, <2>2, <2>5
  <2>6. CASE d = 1 /\ late' = late /\ B + 1 <= C
    BY <1>2, <1>3, <2>1, <2>2, <2>6
  <2> QED
    BY <1>6, <2>3, <2>4, <2>5, <2>6
<1> QED
  BY <1>7 DEF PingInv

LEMMA PingStep == PingInv /\ [PingNext]_pingVars => PingInv'
<1> SUFFICES ASSUME PingInv, [PingNext]_pingVars
             PROVE  PingInv'
  OBVIOUS
<1>t. PingParts /\ PingTypeOK
  BY DEF PingInv, PingParts
<1>f. /\ IsFiniteSet(Tokens(pings)) /\ IsFiniteSet(Tokens(pongs))
      /\ IsFiniteSet(Tokens(timeouts))
  BY <1>t DEF PingParts
<1>n. Count(pings) \in Nat /\ Count(pongs) \in Nat /\ Count(timeouts) \in Nat
  BY <1>f, FS_CardinalityType DEF Count
<1>c. ASSUME NEW c \in Channel, CloseChannel(c), dc' \in {dc, 0},
             UNCHANGED <<timeouts, dcTimeout, late>>
      PROVE  PingInv'
  <2>1. /\ pings' = [pings EXCEPT ![c] = 0] /\ pongs' = [pongs EXCEPT ![c] = 0]
        /\ channel' = [channel EXCEPT ![c] = "closed"]
    BY <1>c DEF CloseChannel
  <2>2. /\ pings' \in [Channel -> Nat] /\ IsFiniteSet(Tokens(pings'))
        /\ Count(pings') <= Count(pings)
        /\ pings[c] > 0 => Count(pings') + 1 <= Count(pings)
    BY <1>t, <1>f, <2>1, DropTokens DEF PingTypeOK, Count
  <2>3. /\ pongs' \in [Channel -> Nat] /\ IsFiniteSet(Tokens(pongs'))
        /\ Count(pongs') <= Count(pongs)
        /\ pongs[c] > 0 => Count(pongs') + 1 <= Count(pongs)
    BY <1>t, <1>f, <2>1, DropTokens DEF PingTypeOK, Count
  <2>4. PingTypeOK'
    BY <1>c, <1>t, <2>1, <2>2, <2>3 DEF PingTypeOK, Channel
  <2>5. /\ \A b \in Channel : /\ channel'[b] = IF b = c THEN "closed" ELSE channel[b]
                              /\ pings'[b] = IF b = c THEN 0 ELSE pings[b]
                              /\ pongs'[b] = IF b = c THEN 0 ELSE pongs[b]
    BY <1>t, <2>1 DEF PingTypeOK
  <2>6. PingParts'
    BY <1>c, <1>t, <1>f, <2>2, <2>3, <2>4, <2>5 DEF PingParts
  <2>7. Count(pings') \in Nat /\ Count(pongs') \in Nat
    BY <2>2, <2>3, FS_CardinalityType DEF Count
  <2>8. Busy \ {c} \subseteq Busy'
    BY <1>c, <2>5 DEF Busy
  <2>9. CASE pings[c] > 0 \/ pongs[c] > 0
    <3>1. Sum' <= Sum + (-1)
      BY <1>c, <1>n, <2>2, <2>3, <2>7, <2>9 DEF Sum
    <3> QED
      BY <1>c, <2>6, <2>8, <3>1, PingCounts
  <2>10. CASE ~(pings[c] > 0 \/ pongs[c] > 0)
    <3>1. Sum' <= Sum + 0
      BY <1>c, <1>n, <2>2, <2>3, <2>7 DEF Sum
    <3>2. Busy \subseteq Busy'
      BY <1>c, <2>5, <2>10 DEF Busy
    <3> QED
      BY <1>c, <2>6, <3>1, <3>2, PingCounts
  <2> QED
    BY <2>9, <2>10
<1>1. CASE Stop
  <2>1. dc \in Channel
    BY <1>1, <1>t DEF Stop, PingTypeOK
  <2> QED
    BY <1>1, <1>c, <2>1 DEF Stop
<1>2. ASSUME NEW c \in Channel, OnDataChannel(c)
      PROVE  PingInv'
  <2>1. PingTypeOK' /\ channel' = [channel EXCEPT ![c] = "connecting"]
    BY <1>2, <1>t DEF OnDataChannel, PingTypeOK, Channel
  <2>2. UNCHANGED <<pings, pongs, timeouts, dcTimeout, late>> /\ channel[c] = "none"
    BY <1>2 DEF OnDataChannel
  <2>3. PingParts'
    BY <1>t, <2>1, <2>2 DEF PingParts, PingTypeOK
  <2>4. Sum' = Sum /\ Sum \in Nat /\ Busy' = Busy
    BY <2>2, <1>n DEF Sum, Busy
  <2>5. Sum' <= Sum + 0
    BY <2>4
  <2> QED
    BY <2>2, <2>3, <2>4, <2>5, PingCounts
<1>3. ASSUME NEW c \in Channel, OnOpen(c)
      PROVE  PingInv'
  <2>0. /\ channel[c] = "connecting" /\ channel' = [channel EXCEPT ![c] = "open"]
        /\ pings' = Add(pings, c) /\ UNCHANGED <<dc, pongs, timeouts, dcTimeout, late>>
    BY <1>3 DEF OnOpen
  <2>1. /\ pings' \in [Channel -> Nat] /\ IsFiniteSet(Tokens(pings'))
        /\ Count(pings') = Count(pings) + 1
    BY <2>0, <1>t, <1>f, AddToken DEF PingTypeOK, Count
  <2>2. PingTypeOK'
    BY <2>0, <1>t, <2>1 DEF PingTypeOK, Channel
  <2>3. \A b \in Channel : /\ channel'[b] = IF b = c THEN "open" ELSE channel[b]
                           /\ pings'[b] = IF b = c THEN pings[b] + 1 ELSE pings[b]
    BY <2>0, <1>t DEF PingTypeOK, Add
  <2>4. \A b \in Channel : pings[b] \in Nat /\ pongs[b] \in Nat /\ timeouts[b] \in Nat
    BY <1>t DEF PingTypeOK
  <2>5. pings[c] = 0 /\ pongs[c] = 0
    BY <1>t, <2>0, <2>4 DEF PingParts
  <2>6. ~(timeouts[c] > 0)
    BY <1>t, <2>0 DEF PingParts
  <2>7. c \notin dcTimeout
    BY <1>t, <2>6 DEF PingParts
  <2>8. PingParts'
    BY <1>t, <2>0, <2>1, <2>2, <2>3, <2>4, <2>6 DEF PingParts
  <2>9. Busy \subseteq Busy' /\ c \in Busy' \ Busy
    BY <2>0, <2>3, <2>4, <2>5, <2>7 DEF Busy
  <2>10. Sum' <= Sum + 1
    BY <1>n, <2>0, <2>1 DEF Sum
  <2> QED
    BY <2>0, <2>8, <2>9, <2>10, PingCounts
<1>4. ASSUME NEW c \in Channel, OnPing(c)
      PROVE  PingInv'
  <2>0. /\ channel[c] = "open" /\ pings[c] > 0 /\ pings' = Remove(pings, c)
        /\ timeouts' = Add(timeouts, c) /\ dcTimeout' = dcTimeout \cup {c}
        /\ UNCHANGED <<dc, channel, pongs, late>>
    BY <1>4 DEF OnPing
  <2>1. /\ pings' \in [Channel -> Nat] /\ IsFiniteSet(Tokens(pings'))
        /\ Count(pings') = Count(pings) - 1
    BY <2>0, <1>t, <1>f, RemoveToken DEF PingTypeOK, Count
  <2>2. /\ timeouts' \in [Channel -> Nat] /\ IsFiniteSet(Tokens(timeouts'))
        /\ Count(timeouts') = Count(timeouts) + 1
    BY <2>0, <1>t, <1>f, AddToken DEF PingTypeOK, Count
  <2>3. PingTypeOK'
    BY <2>0, <1>t, <2>1, <2>2 DEF PingTypeOK
  <2>4. \A b \in Channel : /\ pings'[b] = IF b = c THEN pings[b] - 1 ELSE pings[b]
                           /\ timeouts'[b] = IF b = c THEN timeouts[b] + 1 ELSE timeouts[b]
                           /\ pings[b] \in Nat /\ timeouts[b] \in Nat
    BY <2>0, <1>t DEF PingTypeOK, Add, Remove
  <2>5. PingParts'
    BY <1>t, <1>f, <2>0, <2>1, <2>2, <2>3, <2>4 DEF PingParts, PingTypeOK
  <2>6. Busy \subseteq Busy'
    BY <2>0, <2>4 DEF Busy
  <2>7. Sum' <= Sum + 0
    BY <1>n, <2>0, <2>1, <2>2 DEF Sum
  <2> QED
    BY <2>0, <2>5, <2>6, <2>7, PingCounts
<1>5. ASSUME NEW c \in Channel, Timeout(c)
      PROVE  PingInv'
  <2>0. /\ timeouts[c] > 0 /\ timeouts' = Remove(timeouts, c)
        /\ \/ timeouts[c] = 1 /\ dcTimeout' = dcTimeout \ {c}
           \/ timeouts[c] > 1 /\ dcTimeout' = dcTimeout
        /\ UNCHANGED <<dc, channel, pings>>
    BY <1>5 DEF Timeout
  <2>1. /\ timeouts' \in [Channel -> Nat] /\ IsFiniteSet(Tokens(timeouts'))
        /\ Count(timeouts') = Count(timeouts) - 1
    BY <2>0, <1>t, <1>f, RemoveToken DEF PingTypeOK, Count
  <2>2. \A b \in Channel : /\ timeouts'[b] = IF b = c THEN timeouts[b] - 1 ELSE timeouts[b]
                           /\ timeouts[b] \in Nat /\ pongs[b] \in Nat
    BY <2>0, <1>t DEF PingTypeOK, Remove
  <2>3. /\ \A b \in dcTimeout' : timeouts'[b] > 0
        /\ \A b \in Channel : timeouts'[b] > 0 => \/ channel'[b] = "closed"
                                                  \/ channel'[b] = "open" /\ b \in dcTimeout'
    BY <2>0, <2>2, <1>t DEF PingParts, PingTypeOK
  <2>4. CASE dc # 0 /\ channel[dc] = "open"
    <3>1. /\ dc \in Channel /\ pongs' = Add(pongs, dc)
          /\ late' = IF dc # c /\ dcTimeout' # dcTimeout THEN late + 1 ELSE late
      BY <1>5, <1>t, <2>4 DEF Timeout, PingTypeOK
    <3>2. /\ pongs' \in [Channel -> Nat] /\ IsFiniteSet(Tokens(pongs'))
          /\ Count(pongs') = Count(pongs) + 1
      BY <1>t, <1>f, <3>1, AddToken DEF PingTypeOK, Count
    <3>3. \A b \in Channel : pongs'[b] = IF b = dc THEN pongs[b] + 1 ELSE pongs[b]
      BY <1>t, <3>1 DEF PingTypeOK, Add
    <3>4. PingTypeOK'
      BY <1>t, <2>0, <2>1, <3>1, <3>2 DEF PingTypeOK
    <3>5. PingParts'
      BY <1>t, <1>f, <2>0, <2>1, <2>2, <2>3, <2>4, <3>1, <3>2, <3>3, <3>4 DEF PingParts
    <3>6. Sum' <= Sum + 0
      BY <1>n, <2>0, <2>1, <3>2 DEF Sum
    <3>7. Busy \ {c} \subseteq Busy'
      BY <2>0, <2>2, <3>3 DEF Busy
    <3>8. CASE dc # c /\ dcTimeout' # dcTimeout
      BY <3>1, <3>5, <3>6, <3>7, <3>8, PingCounts
    <3>9. CASE ~(dc # c /\ dcTimeout' # dcTimeout)
      <4>1. dc = c \/ dcTimeout' = dcTimeout
        BY <3>9
      <4>2. dc \in Busy'
        BY <3>1, <3>3, <2>2 DEF Busy
      <4>3. Busy \subseteq Busy'
        <5>1. CASE dc = c
          BY <3>7, <4>2, <5>1
        <5>2. CASE dcTimeout' = dcTimeout
          BY <2>0, <2>2, <3>3, <5>2 DEF Busy
        <5> QED
          BY <4>1, <5>1, <5>2
      <4> QED
        BY <3>1, <3>5, <3>6, <3>9, <4>3, PingCounts
    <3> QED
      BY <3>8, <3>9
  <2>5. CASE ~(dc # 0 /\ channel[dc] = "open")
    <3>1. UNCHANGED <<pongs, late>>
      BY <1>5, <2>5 DEF Timeout
    <3>2. PingTypeOK'
      BY <1>t, <2>0, <2>1, <3>1 DEF PingTypeOK
    <3>3. PingParts'
      BY <1>t, <1>f, <2>0, <2>1, <2>3, <3>1, <3>2 DEF PingParts
    <3>4. Sum' <= Sum + (-1)
      BY <1>n, <2>0, <2>1, <3>1 DEF Sum
    <3>5. Busy \ {c} \subseteq Busy'
      BY <2>0, <3>1 DEF Busy
    <3> QED
      BY <3>1, <3>3, <3>4, <3>5, PingCounts
  <2> QED
    BY <2>4, <2>5
<1>6. ASSUME NEW c \in Channel, OnPong(c)
      PROVE  PingInv'
  <2>0. /\ channel[c] = "open" /\ pongs[c] > 0
        /\ pongs' = Remove(pongs, c) /\ pings' = Add(pings, c)
        /\ UNCHANGED <<dc, channel, timeouts, dcTimeout, late>>
    BY <1>6 DEF OnPong
  <2>1. /\ pongs' \in [Channel -> Nat] /\ IsFiniteSet(Tokens(pongs'))
        /\ Count(pongs') = Count(pongs) - 1
    BY <2>0, <1>t, <1>f, RemoveToken DEF PingTypeOK, Count
  <2>2. /\ pings' \in [Channel -> Nat] /\ IsFiniteSet(Tokens(pings'))
        /\ Count(pings') = Count(pings) + 1
    BY <2>0, <1>t, <1>f, AddToken DEF PingTypeOK, Count
  <2>3. PingTypeOK'
    BY <2>0, <1>t, <2>1, <2>2 DEF PingTypeOK
  <2>4. \A b \in Channel : /\ pongs'[b] = IF b = c THEN pongs[b] - 1 ELSE pongs[b]
                           /\ pings'[b] = IF b = c THEN pings[b] + 1 ELSE pings[b]
                           /\ pings[b] \in Nat /\ pongs[b] \in Nat
    BY <2>0, <1>t DEF PingTypeOK, Add, Remove
  <2>5. PingParts'
    BY <1>t, <1>f, <2>0, <2>1, <2>2, <2>3, <2>4 DEF PingParts, PingTypeOK
  <2>6. Busy \subseteq Busy'
    BY <2>0, <2>4 DEF Busy
  <2>7. Sum' <= Sum + 0
    BY <1>n, <2>0, <2>1, <2>2 DEF Sum
  <2> QED
    BY <2>0, <2>5, <2>6, <2>7, PingCounts
<1>7. ASSUME NEW c \in Channel, Lose(c)
      PROVE  PingInv'
  BY <1>7, <1>c DEF Lose
<1>8. ASSUME NEW c \in Channel, OnClose(c)
      PROVE  PingInv'
  <2>0. /\ channel[c] = "closed" /\ c \in dcTimeout
        /\ timeouts' = Remove(timeouts, c) /\ dcTimeout' = dcTimeout \ {c}
        /\ UNCHANGED <<dc, channel, pings, pongs, late>>
    BY <1>8 DEF OnClose
  <2>1. timeouts[c] > 0
    BY <2>0, <1>t DEF PingParts
  <2>2. /\ timeouts' \in [Channel -> Nat] /\ IsFiniteSet(Tokens(timeouts'))
        /\ Count(timeouts') = Count(timeouts) - 1
    BY <2>0, <1>t, <1>f, <2>1, RemoveToken DEF PingTypeOK, Count
  <2>3. PingTypeOK'
    BY <2>0, <1>t, <2>2 DEF PingTypeOK
  <2>4. \A b \in Channel : timeouts'[b] = IF b = c THEN timeouts[b] - 1 ELSE timeouts[b]
    BY <2>0, <1>t DEF PingTypeOK, Remove
  <2>5. PingParts'
    BY <1>t, <1>f, <2>0, <2>2, <2>3, <2>4 DEF PingParts, PingTypeOK
  <2>6. Busy \ {c} \subseteq Busy'
    BY <2>0 DEF Busy
  <2>7. Sum' <= Sum + (-1)
    BY <1>n, <2>0, <2>2 DEF Sum
  <2> QED
    BY <2>0, <2>5, <2>6, <2>7, PingCounts
<1>9. CASE UNCHANGED pingVars
  <2>1. PingParts' /\ Sum' = Sum /\ Busy' = Busy /\ late' = late
    BY <1>9, <1>t DEF pingVars, PingParts, PingTypeOK, Sum, Count, Busy
  <2> QED
    BY <2>1 DEF PingInv
<1> QED
  BY <1>1, <1>2, <1>3, <1>4, <1>5, <1>6, <1>7, <1>8, <1>9 DEF PingNext

(* The channels, messages and timers of a page stay of their types: no *)
(* timer is cleared that has fired.                                    *)
THEOREM PingTypeCorrect == PingSpec => []PingTypeOK
<1>1. PingInv => PingTypeOK
  BY DEF PingInv, PingParts
<1> QED
  BY <1>1, PingInitial, PingStep, PTL DEF PingSpec

(* Pings and Pongs multiply only by timers that outlive their channel, for  *)
(* any number of channels: a busy channel is open, or its last timer is to  *)
(* be cleared.                                                              *)
THEOREM PingsDoNotMultiply == PingSpec => []TokensBounded
<1>1. ASSUME PingInv
      PROVE  TokensBounded
  <2> DEFINE Some == {c \in Channel : channel[c] = "open" \/ c \in dcTimeout}
  <2>1. Busy \in SUBSET Channel /\ Some \in SUBSET Channel /\ Busy \subseteq Some
    BY <1>1 DEF Busy, PingInv, PingParts
  <2>2. /\ Cardinality(Busy) \in Nat /\ Cardinality(Some) \in Nat
        /\ Cardinality(Busy) <= Cardinality(Some)
    BY <2>1, ChannelSets
  <2>3. Sum \in Nat /\ late \in Nat
    BY <1>1, FS_CardinalityType DEF PingInv, PingParts, PingTypeOK, Sum, Count
  <2>4. Sum <= Cardinality(Some) + late
    <3> HIDE DEF Some
    <3> QED
      BY <1>1, <2>2, <2>3 DEF PingInv
  <2> QED
    BY <2>4 DEF TokensBounded, Sum, Count
<1> QED
  BY <1>1, PingInitial, PingStep, PTL DEF PingSpec
-----------------------------------------------------------------------------
(***************************************************************************)
(* ArgParser: for every command line over any tokens.  What has been       *)
(* parsed can be read in one way, by the options opts, that an option at   *)
(* its end may still wait for its value; the parser has the values and     *)
(* flags of that reading, and every reading of the command line begins     *)
(* with it.                                                                *)
(***************************************************************************)
ReadsPrefix(opts) ==
    /\ opts \subseteq 1 .. parsed
    /\ \A p \in 1 .. parsed :
        IF p \in opts THEN Key[argv[p]] \in Option /\ p + 1 \notin opts
        ELSE p - 1 \in opts \/ Key[argv[p]] \in Flag

OnlyReading(opts) == \A o \in SUBSET DOMAIN argv : Reading(o) => o \cap (1 .. parsed) = opts

\* the values of the options that are not waiting for theirs
LastValues(opts) ==
    \A o \in Option :
        \/ settings[o] = Empty /\ \A p \in opts : Key[argv[p]] # o
        \/ \E p \in opts : /\ Key[argv[p]] = o /\ settings[o] = argv[p + 1]
                           /\ \A q \in opts : Key[argv[q]] = o => q <= p

FlagsOf(opts) == {Key[argv[p]] : p \in {q \in 1 .. parsed : q \notin opts /\ q - 1 \notin opts}}

Agrees(opts) ==
    /\ currentOption = IF parsed \in opts THEN Key[argv[parsed]] ELSE Empty
    /\ LastValues(opts \ {parsed})
    /\ flags = FlagsOf(opts)

ParsedAs(opts) == ReadsPrefix(opts) /\ OnlyReading(opts) /\ Agrees(opts)

ArgInv ==
    /\ ArgTypeOK
    /\ result = "parsing" => \E opts \in SUBSET (1 .. parsed) : ParsedAs(opts)
    /\ AcceptsGrammar

(* No name is of an option and of a flag. *)
LEMMA ArgConstants ==
  Option \cap Flag = {} /\ Empty \notin Option \cup Flag /\ MaxArgs \in Nat
BY ArgAssumption

(* The command line is the function of its positions. *)
LEMMA ArgvIs ==
  ASSUME ArgTypeOK
  PROVE  /\ Len(argv) \in Nat /\ DOMAIN argv = 1 .. Len(argv)
         /\ \A p \in 1 .. Len(argv) : argv[p] \in Token
         /\ parsed \in Nat /\ parsed <= Len(argv) /\ 1 .. parsed \subseteq DOMAIN argv
<1>1. PICK n \in 0 .. MaxArgs : argv \in [1..n -> Token]
  BY DEF ArgTypeOK, Args
<1>2. n \in Nat
  BY ArgConstants
<1>3. Len(argv) = n
  BY <1>1, <1>2
<1> QED
  BY <1>1, <1>2, <1>3 DEF ArgTypeOK

(* The last of the positions of an option gives its value. *)
LEMMA ValueIs ==
  ASSUME NEW opts \in SUBSET Nat, NEW o, NEW p \in opts,
         Key[argv[p]] = o, \A q \in opts : Key[argv[q]] = o => q <= p
  PROVE  ValueIn(opts, o) = argv[p + 1]
<1> DEFINE last == CHOOSE l \in opts :
                     Key[argv[l]] = o /\ \A q \in opts : Key[argv[q]] = o => q <= l
<1>1. /\ last \in opts /\ Key[argv[last]] = o
      /\ \A q \in opts : Key[argv[q]] = o => q <= last
  BY Zenon
<1>2. \E l \in opts : Key[argv[l]] = o
  OBVIOUS
<1>3. ValueIn(opts, o) = argv[1 + last]
  BY <1>2, Zenon DEF ValueIn
<1> HIDE DEF last
<1>4. last = p /\ 1 + p = p + 1
  <2>1. last <= p /\ p <= last /\ last \in Nat /\ p \in Nat
    BY <1>1
  <2> QED
    BY <2>1
<1> QED
  BY <1>3, <1>4

LEMMA SameValues ==
  ASSUME argv' = argv, NEW opts, NEW o
  PROVE  ValueIn(opts, o)' = ValueIn(opts, o)
<1> DEFINE In(line) ==
      IF \E p \in opts : Key[line[p]] = o
      THEN line[1 + CHOOSE p \in opts :
                      Key[line[p]] = o /\ \A q \in opts : Key[line[q]] = o => q <= p]
      ELSE Empty
<1>1. ValueIn(opts, o) = In(argv) /\ ValueIn(opts, o)' = In(argv')
  BY Zenon DEF ValueIn
<1> HIDE DEF In
<1> QED
  BY <1>1

LEMMA ArgInitial == ArgInit => ArgInv
<1> SUFFICES ASSUME ArgInit
             PROVE  ArgInv
  OBVIOUS
<1>1. ArgTypeOK
  <2>1. PICK n \in 0 .. MaxArgs : argv \in [1..n -> Token]
    BY DEF ArgInit, Args
  <2>2. Len(argv) \in Nat
    BY <2>1, ArgConstants
  <2> QED
    BY <2>2 DEF ArgInit, ArgTypeOK
<1>2. parsed = 0 /\ 1 .. parsed = {} /\ result = "parsing"
  BY DEF ArgInit
<1>3. ReadsPrefix({}) /\ OnlyReading({})
  BY <1>2 DEF ReadsPrefix, OnlyReading
<1>4. Agrees({})
  BY <1>2 DEF Agrees, LastValues, FlagsOf, ArgInit
<1> QED
  BY <1>1, <1>2, <1>3, <1>4 DEF ArgInv, ParsedAs, AcceptsGrammar

(* What the next token is, and that it leaves the others alone. *)
LEMMA LookStep ==
  ASSUME ArgTypeOK, Look
  PROVE  /\ argv' = argv /\ parsed' = parsed + 1 /\ Current = argv[parsed']
         /\ parsed' \in DOMAIN argv /\ parsed' \in 1 .. Len(argv) /\ Current \in Token
         /\ 1 .. parsed' = (1 .. parsed) \cup {parsed'} /\ parsed' \notin 1 .. parsed
BY ArgvIs DEF Look, Current

LEMMA ArgFlagStep ==
  ASSUME ArgTypeOK, NEW opts \in SUBSET (1 .. parsed), ParsedAs(opts), OnFlag
  PROVE  ParsedAs(opts)'
<1>1. /\ Look /\ currentOption = Empty /\ Key[Current] \in Flag
      /\ flags' = flags \cup {Key[Current]}
      /\ UNCHANGED <<currentOption, settings, result>>
  BY DEF OnFlag
<1>l. /\ argv' = argv /\ parsed' = parsed + 1 /\ Current = argv[parsed']
      /\ parsed' \in DOMAIN argv
      /\ 1 .. parsed' = (1 .. parsed) \cup {parsed'} /\ parsed' \notin 1 .. parsed
      /\ parsed \in Nat
  BY <1>1, LookStep, ArgvIs
<1>2. parsed \notin opts /\ parsed' \notin opts /\ Key[argv[parsed']] \notin Option
  BY <1>1, <1>l, ArgConstants DEF ParsedAs, ReadsPrefix, Agrees
<1>3. ReadsPrefix(opts)'
  BY <1>1, <1>l, <1>2 DEF ParsedAs, ReadsPrefix
<1>4. OnlyReading(opts)'
  <2> SUFFICES ASSUME NEW o \in SUBSET DOMAIN argv, Reading(o)
               PROVE  o \cap (1 .. parsed') = opts
    BY <1>l DEF OnlyReading, Reading
  <2>1. o \cap (1 .. parsed) = opts
    BY DEF ParsedAs, OnlyReading
  <2>2. parsed' \notin o
    BY <1>2, <1>l DEF Reading
  <2> QED
    BY <1>l, <2>1, <2>2
<1>5. Agrees(opts)'
  <2>1. PICK closed : closed = opts \ {parsed} /\ closed = opts \ {parsed'}
    BY <1>2
  <2>2. LastValues(closed)'
    BY <1>1, <1>l, <2>1 DEF ParsedAs, Agrees, LastValues
  <2>3. FlagsOf(opts)' = FlagsOf(opts) \cup {Key[argv[parsed']]}
    <3>1. {q \in 1 .. parsed' : q \notin opts /\ q - 1 \notin opts}
            = {q \in 1 .. parsed : q \notin opts /\ q - 1 \notin opts} \cup {parsed'}
      BY <1>l, <1>2
    <3> QED
      BY <1>l, <3>1, Zenon DEF FlagsOf
  <2> QED
    BY <1>1, <1>l, <1>2, <2>1, <2>2, <2>3 DEF ParsedAs, Agrees
<1> QED
  BY <1>3, <1>4, <1>5 DEF ParsedAs

LEMMA ArgBeginStep ==
  ASSUME ArgTypeOK, NEW opts \in SUBSET (1 .. parsed), ParsedAs(opts), BeginOption,
         NEW more, more = opts \cup {parsed + 1}
  PROVE  ParsedAs(more)'
<1>1. /\ Look /\ currentOption = Empty /\ Key[Current] \in Option
      /\ currentOption' = Key[Current]
      /\ UNCHANGED <<settings, flags, result>>
  BY DEF BeginOption
<1>l. /\ argv' = argv /\ parsed' = parsed + 1 /\ Current = argv[parsed']
      /\ parsed' \in DOMAIN argv
      /\ 1 .. parsed' = (1 .. parsed) \cup {parsed'} /\ parsed' \notin 1 .. parsed
      /\ parsed \in Nat
  BY <1>1, LookStep, ArgvIs
<1>2. /\ parsed \notin opts /\ parsed' \notin opts /\ Key[argv[parsed']] \notin Flag
      /\ parsed' + 1 \notin opts /\ \A p \in 1 .. parsed : p - 1 # parsed'
  BY <1>1, <1>l, ArgConstants DEF ParsedAs, ReadsPrefix, Agrees
<1>3. ReadsPrefix(more)'
  <2>1. ReadsPrefix(opts)
    BY DEF ParsedAs
  <2>2. more \subseteq 1 .. parsed'
    BY <1>l
  <2>3. ASSUME NEW p \in 1 .. parsed'
        PROVE  IF p \in more THEN Key[argv[p]] \in Option /\ p + 1 \notin more
               ELSE p - 1 \in more \/ Key[argv[p]] \in Flag
    <3>1. CASE p = parsed'
      BY <1>1, <1>l, <1>2, <3>1
    <3>2. CASE p \in 1 .. parsed /\ p # parsed
      <4>1. p # parsed' /\ p + 1 # parsed' /\ p - 1 # parsed'
        BY <1>l, <3>2
      <4> QED
        BY <1>l, <2>1, <3>2, <4>1 DEF ReadsPrefix
    <3>3. CASE p \in 1 .. parsed /\ p = parsed
      BY <1>l, <1>2, <2>1, <3>3 DEF ReadsPrefix
    <3> QED
      BY <1>l, <3>1, <3>2, <3>3
  <2> QED
    BY <1>l, <2>2, <2>3 DEF ReadsPrefix
<1>4. OnlyReading(more)'
  <2> SUFFICES ASSUME NEW o \in SUBSET DOMAIN argv, Reading(o)
               PROVE  o \cap (1 .. parsed') = more
    BY <1>l DEF OnlyReading, Reading
  <2>1. o \cap (1 .. parsed) = opts
    BY DEF ParsedAs, OnlyReading
  <2>2. parsed' \in o
    <3>1. parsed \notin o
      <4>1. ~(1 <= 0) /\ (parsed \in DOMAIN argv => parsed \in 1 .. parsed)
        BY ArgvIs
      <4> QED
        BY <1>2, <2>1, <4>1
    <3> QED
      BY <1>2, <1>l, <3>1 DEF Reading
  <2> QED
    BY <1>l, <2>1, <2>2
<1>5. Agrees(more)'
  <2>1. PICK closed : closed = opts \ {parsed} /\ closed = more \ {parsed'}
    BY <1>2, <1>l
  <2>2. LastValues(closed)'
    BY <1>1, <1>l, <2>1 DEF ParsedAs, Agrees, LastValues
  <2>3. FlagsOf(more)' = FlagsOf(opts)
    <3>1. {q \in 1 .. parsed' : q \notin more /\ q - 1 \notin more}
            = {q \in 1 .. parsed : q \notin opts /\ q - 1 \notin opts}
      BY <1>l, <1>2
    <3> QED
      BY <1>l, <3>1, Zenon DEF FlagsOf
  <2> QED
    BY <1>1, <1>l, <1>2, <2>1, <2>2, <2>3 DEF ParsedAs, Agrees
<1> QED
  BY <1>3, <1>4, <1>5 DEF ParsedAs

LEMMA ArgOptionStep ==
  ASSUME ArgTypeOK, NEW opts \in SUBSET (1 .. parsed), ParsedAs(opts), OnOption
  PROVE  ParsedAs(opts)'
<1>1. /\ Look /\ currentOption # Empty
      /\ settings' = [settings EXCEPT ![currentOption] = Current]
      /\ currentOption' = Empty
      /\ UNCHANGED <<flags, result>>
  BY DEF OnOption
<1>l. /\ argv' = argv /\ parsed' = parsed + 1 /\ Current = argv[parsed']
      /\ parsed' \in DOMAIN argv
      /\ 1 .. parsed' = (1 .. parsed) \cup {parsed'} /\ parsed' \notin 1 .. parsed
      /\ parsed \in Nat
  BY <1>1, LookStep, ArgvIs
<1>2. /\ parsed \in opts /\ parsed' \notin opts /\ currentOption = Key[argv[parsed]]
      /\ \A q \in opts : q <= parsed
      /\ currentOption \in Option
  BY <1>1, <1>l DEF ParsedAs, ReadsPrefix, Agrees, ArgTypeOK
<1>3. ReadsPrefix(opts)'
  BY <1>1, <1>l, <1>2 DEF ParsedAs, ReadsPrefix
<1>4. OnlyReading(opts)'
  <2> SUFFICES ASSUME NEW o \in SUBSET DOMAIN argv, Reading(o)
               PROVE  o \cap (1 .. parsed') = opts
    BY <1>l DEF OnlyReading, Reading
  <2>1. o \cap (1 .. parsed) = opts
    BY DEF ParsedAs, OnlyReading
  <2>2. parsed \in o /\ parsed \in DOMAIN argv
    BY <1>2, <2>1
  <2>3. parsed' \notin o
    BY <1>l, <2>2 DEF Reading
  <2> QED
    BY <1>l, <2>1, <2>3
<1>5. LastValues(opts)'
  <2> SUFFICES ASSUME NEW o \in Option
               PROVE  \/ settings'[o] = Empty /\ \A p \in opts : Key[argv[p]] # o
                      \/ \E p \in opts : /\ Key[argv[p]] = o /\ settings'[o] = argv[p + 1]
                                         /\ \A q \in opts : Key[argv[q]] = o => q <= p
    BY <1>l DEF LastValues
  <2>1. CASE o = currentOption
    <3>1. settings'[o] = argv[parsed + 1]
      BY <1>1, <1>l, <2>1 DEF ArgTypeOK
    <3> QED
      BY <1>2, <2>1, <3>1
  <2>2. CASE o # currentOption
    <3>1. settings'[o] = settings[o]
      BY <1>1, <2>2 DEF ArgTypeOK
    <3>2. \A q \in opts : Key[argv[q]] = o => q # parsed
      BY <1>2, <2>2
    <3>3. \/ settings[o] = Empty /\ \A p \in opts \ {parsed} : Key[argv[p]] # o
          \/ \E p \in opts \ {parsed} :
                /\ Key[argv[p]] = o /\ settings[o] = argv[p + 1]
                /\ \A q \in opts \ {parsed} : Key[argv[q]] = o => q <= p
      BY DEF ParsedAs, Agrees, LastValues
    <3> QED
      BY <3>1, <3>2, <3>3
  <2> QED
    BY <2>1, <2>2
<1>6. Agrees(opts)'
  <2>1. opts \ {parsed'} = opts
    BY <1>2
  <2>2. FlagsOf(opts)' = FlagsOf(opts)
    <3>1. {q \in 1 .. parsed' : q \notin opts /\ q - 1 \notin opts}
            = {q \in 1 .. parsed : q \notin opts /\ q - 1 \notin opts}
      BY <1>l, <1>2
    <3> QED
      BY <1>l, <3>1, Zenon DEF FlagsOf
  <2> QED
    BY <1>1, <1>l, <1>2, <1>5, <2>1, <2>2 DEF ParsedAs, Agrees
<1> QED
  BY <1>3, <1>4, <1>6 DEF ParsedAs

(* A token that is no key, where one is needed, ends every reading. *)
LEMMA ArgRefuse ==
  ASSUME ArgTypeOK, NEW opts \in SUBSET (1 .. parsed), ParsedAs(opts), Unrecognized,
         NEW o \in SUBSET DOMAIN argv, Reading(o)
  PROVE  FALSE
<1>1. /\ argv' = argv /\ parsed' = parsed + 1 /\ Current = argv[parsed']
      /\ parsed' \in DOMAIN argv /\ parsed \in Nat
  BY LookStep, ArgvIs DEF Unrecognized
<1>2. currentOption = Empty /\ Key[argv[parsed']] \notin Option \cup Flag
  BY <1>1 DEF Unrecognized
<1>3. parsed \notin opts
  BY <1>2, ArgConstants DEF ParsedAs, ReadsPrefix, Agrees
<1>4. parsed \notin o
  <2>1. parsed \in DOMAIN argv => parsed \in 1 .. parsed
    BY ArgvIs
  <2> QED
    BY <1>3, <2>1 DEF ParsedAs, OnlyReading
<1> QED
  BY <1>1, <1>2, <1>4 DEF Reading

(* At the end of the command line its one reading is complete, or the last *)
(* option waits in vain.                                                   *)
LEMMA ArgFinish ==
  ASSUME ArgTypeOK, NEW opts \in SUBSET (1 .. parsed), ParsedAs(opts), Finish
  PROVE  AcceptsGrammar'
<1>1. parsed = Len(argv) /\ UNCHANGED <<argv, parsed, currentOption, settings, flags>>
      /\ result' = IF currentOption = Empty THEN "true" ELSE "false"
  BY DEF Finish
<1>2. DOMAIN argv = 1 .. parsed /\ parsed \in Nat
  BY <1>1, ArgvIs
<1> DEFINE readings == {o \in SUBSET DOMAIN argv : Reading(o)}
<1>3. readings' = readings
  BY <1>1 DEF Reading
<1>4. CASE currentOption = Empty
  <2>1. parsed \notin opts
    BY <1>4, ArgConstants DEF ParsedAs, ReadsPrefix, Agrees
  <2>2. opts \in readings
    BY <1>2, <2>1 DEF ParsedAs, ReadsPrefix, Reading
  <2>3. settings = [o \in Option |-> ValueIn(opts, o)]
    <3>1. ASSUME NEW o \in Option
          PROVE  settings[o] = ValueIn(opts, o)
      <4>1. opts \ {parsed} = opts
        BY <2>1
      <4>2. \/ settings[o] = Empty /\ \A p \in opts : Key[argv[p]] # o
            \/ \E p \in opts : /\ Key[argv[p]] = o /\ settings[o] = argv[p + 1]
                               /\ \A q \in opts : Key[argv[q]] = o => q <= p
        BY <4>1, Zenon DEF ParsedAs, Agrees, LastValues
      <4>3. opts \in SUBSET Nat
        BY <1>2
      <4>4. CASE settings[o] = Empty /\ \A p \in opts : Key[argv[p]] # o
        BY <4>4 DEF ValueIn
      <4>5. ASSUME NEW p \in opts, Key[argv[p]] = o, settings[o] = argv[p + 1],
                   \A q \in opts : Key[argv[q]] = o => q <= p
            PROVE  settings[o] = ValueIn(opts, o)
        BY <4>3, <4>5, ValueIs
      <4> QED
        BY <4>2, <4>4, <4>5
    <3> QED
      BY <3>1 DEF ArgTypeOK
  <2>4. flags = {Key[argv[p]] : p \in {q \in DOMAIN argv : q \notin opts /\ q - 1 \notin opts}}
    BY <1>2 DEF ParsedAs, Agrees, FlagsOf
  <2>5. result' = "true"
    BY <1>1, <1>4
  <2>6. settings' = [o \in Option |-> ValueIn(opts, o)']
    BY <1>1, <2>3, SameValues
  <2>7. opts \in SUBSET DOMAIN argv' /\ Reading(opts)'
    BY <1>1, <2>2 DEF Reading
  <2>8. flags' = {Key[argv'[p]] : p \in {q \in DOMAIN argv' : q \notin opts /\ q - 1 \notin opts}}
    BY <1>1, <2>4
  <2> QED
    BY <2>5, <2>6, <2>7, <2>8 DEF AcceptsGrammar
<1>5. CASE currentOption # Empty
  <2>1. parsed \in opts
    BY <1>5 DEF ParsedAs, Agrees
  <2>2. ASSUME NEW o \in SUBSET DOMAIN argv, Reading(o)
        PROVE  FALSE
    <3>1. parsed \in o
      BY <2>1, <2>2 DEF ParsedAs, OnlyReading
    <3>2. parsed + 1 \in DOMAIN argv
      BY <2>2, <3>1 DEF Reading
    <3> QED
      BY <1>2, <3>2
  <2>3. readings = {}
    BY <2>2
  <2>4. result' = "false"
    BY <1>1, <1>5
  <2> QED
    BY <1>3, <2>3, <2>4 DEF AcceptsGrammar
<1> QED
  BY <1>4, <1>5

LEMMA ArgStep == ArgInv /\ [ArgNext]_argVars => ArgInv'
<1> SUFFICES ASSUME ArgInv, [ArgNext]_argVars
             PROVE  ArgInv'
  OBVIOUS
<1>t. ArgTypeOK /\ AcceptsGrammar
  BY DEF ArgInv
<1>p. ASSUME result = "parsing"
      PROVE  \E opts \in SUBSET (1 .. parsed) : ParsedAs(opts)
  BY <1>p DEF ArgInv
<1>g. ASSUME result' = "parsing"
      PROVE  AcceptsGrammar'
  BY <1>g DEF AcceptsGrammar
<1>1. CASE OnFlag
  <2>1. result = "parsing" /\ result' = "parsing"
    BY <1>1 DEF OnFlag, Look
  <2>2. PICK opts \in SUBSET (1 .. parsed) : ParsedAs(opts)
    BY <1>p, <2>1
  <2>3. ParsedAs(opts)'
    BY <1>1, <1>t, <2>2, ArgFlagStep
  <2>4. opts \in SUBSET (1 .. parsed')
    BY <2>3 DEF ParsedAs, ReadsPrefix
  <2>5. ArgTypeOK'
    BY <1>1, <1>t, LookStep DEF OnFlag, ArgTypeOK
  <2> QED
    BY <1>g, <2>1, <2>3, <2>4, <2>5 DEF ArgInv
<1>2. CASE BeginOption
  <2>1. result = "parsing" /\ result' = "parsing"
    BY <1>2 DEF BeginOption, Look
  <2>2. PICK opts \in SUBSET (1 .. parsed) : ParsedAs(opts)
    BY <1>p, <2>1
  <2>4. PICK more : more = opts \cup {parsed + 1}
    OBVIOUS
  <2>5. ParsedAs(more)'
    BY <1>2, <1>t, <2>2, <2>4, ArgBeginStep
  <2>6. more \in SUBSET (1 .. parsed')
    BY <2>5 DEF ParsedAs, ReadsPrefix
  <2>7. ArgTypeOK'
    BY <1>2, <1>t, LookStep DEF BeginOption, ArgTypeOK
  <2> QED
    BY <1>g, <2>1, <2>5, <2>6, <2>7 DEF ArgInv
<1>3. CASE OnOption
  <2>1. result = "parsing" /\ result' = "parsing"
    BY <1>3 DEF OnOption, Look
  <2>2. PICK opts \in SUBSET (1 .. parsed) : ParsedAs(opts)
    BY <1>p, <2>1
  <2>3. ParsedAs(opts)'
    BY <1>3, <1>t, <2>2, ArgOptionStep
  <2>4. opts \in SUBSET (1 .. parsed')
    BY <2>3 DEF ParsedAs, ReadsPrefix
  <2>5. ArgTypeOK'
    BY <1>3, <1>t, LookStep DEF OnOption, ArgTypeOK
  <2> QED
    BY <1>g, <2>1, <2>3, <2>4, <2>5 DEF ArgInv
<1>4. CASE Unrecognized
  <2>1. result = "parsing" /\ result' = "false" /\ argv' = argv
    BY <1>4 DEF Unrecognized, Look
  <2>2. PICK opts \in SUBSET (1 .. parsed) : ParsedAs(opts)
    BY <1>p, <2>1
  <2>3. \A o \in SUBSET DOMAIN argv : ~Reading(o)
    BY <1>4, <1>t, <2>2, ArgRefuse
  <2>4. AcceptsGrammar'
    BY <2>1, <2>3 DEF AcceptsGrammar, Reading
  <2>5. ArgTypeOK'
    BY <1>4, <1>t, LookStep DEF Unrecognized, ArgTypeOK
  <2> QED
    BY <2>1, <2>4, <2>5 DEF ArgInv
<1>5. CASE Finish
  <2>1. result = "parsing" /\ result' \in {"true", "false"}
    BY <1>5 DEF Finish
  <2>2. PICK opts \in SUBSET (1 .. parsed) : ParsedAs(opts)
    BY <1>p, <2>1
  <2>3. AcceptsGrammar'
    BY <1>5, <1>t, <2>2, ArgFinish
  <2>4. ArgTypeOK'
    BY <1>5, <1>t, <2>1 DEF Finish, ArgTypeOK
  <2> QED
    BY <2>1, <2>3, <2>4 DEF ArgInv
<1>6. CASE UNCHANGED argVars
  <2>1. ArgTypeOK'
    BY <1>6, <1>t DEF argVars, ArgTypeOK
  <2>2. AcceptsGrammar'
    BY <1>6, <1>t, SameValues DEF argVars, AcceptsGrammar, Reading
  <2>3. \A opts : ParsedAs(opts) => ParsedAs(opts)'
    BY <1>6 DEF argVars, ParsedAs, ReadsPrefix, OnlyReading, Reading, Agrees, LastValues, FlagsOf
  <2> QED
    BY <1>6, <1>p, <2>1, <2>2, <2>3 DEF argVars, ArgInv
<1> QED
  BY <1>1, <1>2, <1>3, <1>4, <1>5, <1>6 DEF ArgNext

(* An option waits only while it is one, and what is set are tokens. *)
THEOREM ArgTypeCorrect == ArgSpec => []ArgTypeOK
<1>1. ArgInv => ArgTypeOK
  BY DEF ArgInv
<1> QED
  BY <1>1, ArgInitial, ArgStep, PTL DEF ArgSpec

(* A command line is accepted if and only if it can be read as flags and   *)
(* as options with their values, and with those of that reading, for any   *)
(* options and flags with names of their own and any number of tokens.     *)
THEOREM GrammarAccepted == ArgSpec => []AcceptsGrammar
<1>1. ArgInv => AcceptsGrammar
  BY DEF ArgInv
<1> QED
  BY <1>1, ArgInitial, ArgStep, PTL DEF ArgSpec
=============================================================================
