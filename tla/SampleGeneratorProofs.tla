----------------------- MODULE SampleGeneratorProofs -----------------------
(***************************************************************************)
(* Proofs about NalConverter and SampleGenerator, for streams of any       *)
(* length over any bytes.                                                  *)
(***************************************************************************)
EXTENDS SampleGenerator, FiniteSetTheorems, SequenceTheorems, TLAPS

(* A set of natural numbers that is not empty has a least one. *)
LEMMA LeastOf ==
  ASSUME NEW S \in SUBSET Nat, S # {}
  PROVE  \E m \in S : \A k \in S : m <= k
<1>1. PICK m \in S : \A k \in S : <<k, m>> \notin OpToRel(<, Nat)
  BY NatLessThanWellFounded, WFMin
<1>2. \A k \in S : ~(k < m)
  BY <1>1 DEF OpToRel
<1> QED
  BY <1>2
-----------------------------------------------------------------------------
(***************************************************************************)
(* The buffer, if it is as long as a start code, the start codes in it     *)
(* that something follows, and its units.                                  *)
(***************************************************************************)
Stream == {s \in Buffer : Len(s) >= 3}

LEMMA BufferIs ==
  ASSUME data \in Stream
  PROVE  /\ size \in Nat /\ size >= 3 /\ size <= MaxSize
         /\ DOMAIN data = 1 .. size /\ \A i \in 1 .. size : data[i] \in Byte
<1>1. PICK n \in 0 .. MaxSize : data \in [1..n -> Byte]
  BY DEF Stream, Buffer
<1>2. n \in Nat /\ n <= MaxSize
  BY ConverterAssumption
<1>3. Len(data) = n
  BY <1>1, <1>2
<1> QED
  BY <1>1, <1>2, <1>3 DEF Stream, size

\* the three bytes of a short code
CodeAt(i) == data[i + 1] = 0 /\ data[i + 2] = 0 /\ data[i + 3] = 1

LEMMA ShortCodeIs ==
  ASSUME data \in Stream, NEW i \in Nat
  PROVE  ShortCodeAt(data, i) <=> i + 3 <= size /\ CodeAt(i)
<1>1. CASE i + 3 <= size
  <2>1. \A k \in i + 1 .. i + 3 : data[k] \in Byte
    BY <1>1, BufferIs
  <2> DEFINE code == SubSeq(data, i + 1, i + 3)
  <2>2. /\ code \in Seq(Byte) /\ Len(code) = 3
        /\ code[1] = data[i + 1] /\ code[2] = data[i + 2] /\ code[3] = data[i + 3]
    <3>1. /\ code \in Seq(Byte)
          /\ Len(code) = IF i + 1 <= i + 3 THEN i + 3 - (i + 1) + 1 ELSE 0
          /\ \A k \in 1 .. i + 3 - (i + 1) + 1 : code[k] = data[i + 1 + k - 1]
      BY <2>1, SubSeqProperties
    <3> HIDE DEF code
    <3>2. Len(code) = 3 /\ \A k \in 1 .. 3 : code[k] = data[i + k]
      BY <3>1
    <3> QED
      BY <3>1, <3>2
  <2> HIDE DEF code
  <2>3. code = <<0, 0, 1>> <=> code[1] = 0 /\ code[2] = 0 /\ code[3] = 1
    BY <2>2
  <2>4. Bytes(data, i, i + 3) = code
    BY DEF Bytes, code
  <2> QED
    BY <1>1, <2>2, <2>3, <2>4 DEF ShortCodeAt, CodeAt, size
<1>2. CASE ~(i + 3 <= size)
  BY <1>2 DEF ShortCodeAt, size
<1> QED
  BY <1>1, <1>2

(* Where start codes end that something follows. *)
LEMMA EndsAre ==
  ASSUME data \in Stream
  PROVE  \A e : e \in Seen <=> e \in 3 .. size - 1 /\ CodeAt(e - 3)
<1>1. ASSUME NEW e \in Seen
      PROVE  e \in 3 .. size - 1 /\ CodeAt(e - 3)
  <2>1. PICK i \in 0 .. Len(data) : ShortCodeAt(data, i) /\ e = i + 3
    BY DEF Seen, CodeEnds
  <2>2. i \in Nat /\ i + 3 <= size /\ CodeAt(i)
    BY <2>1, BufferIs, ShortCodeIs DEF size
  <2>3. e < size
    BY DEF Seen
  <2>4. e - 3 = i
    BY <2>1, <2>2
  <2> QED
    BY <2>1, <2>2, <2>3, <2>4, BufferIs
<1>2. ASSUME NEW e \in 3 .. size - 1, CodeAt(e - 3)
      PROVE  e \in Seen
  <2>1. e - 3 \in 0 .. Len(data) /\ e - 3 + 3 = e /\ e - 3 \in Nat /\ e - 3 + 3 <= size
    BY BufferIs DEF size
  <2>2. ShortCodeAt(data, e - 3)
    BY <1>2, <2>1, ShortCodeIs
  <2>3. e \in CodeEnds(data) /\ e < size
    BY <2>1, <2>2, BufferIs DEF CodeEnds
  <2> QED
    BY <2>3 DEF Seen
<1> QED
  BY <1>1, <1>2

LEMMA BeginIs ==
  ASSUME data \in Stream, NEW e \in Seen
  PROVE  CodeBegin(data, e) = IF e >= 4 /\ data[e - 3] = 0 THEN e - 4 ELSE e - 3
<1>1. e \in 3 .. size - 1
  BY EndsAre
<1>2. CASE e >= 4
  <2>1. \A k \in e - 3 .. e - 3 : data[k] \in Byte
    BY <1>1, <1>2, BufferIs
  <2> DEFINE byte == SubSeq(data, e - 3, e - 3)
  <2>2. byte \in Seq(Byte) /\ Len(byte) = 1 /\ byte[1] = data[e - 3]
    <3>1. /\ byte \in Seq(Byte)
          /\ Len(byte) = IF e - 3 <= e - 3 THEN e - 3 - (e - 3) + 1 ELSE 0
          /\ \A k \in 1 .. e - 3 - (e - 3) + 1 : byte[k] = data[e - 3 + k - 1]
      BY <1>1, <2>1, SubSeqProperties
    <3> HIDE DEF byte
    <3>2. Len(byte) = 1 /\ \A k \in 1 .. 1 : byte[k] = data[e - 4 + k]
      BY <1>1, <3>1
    <3>3. e - 4 + 1 = e - 3
      BY <1>1
    <3>4. 1 \in 1 .. 1 /\ byte[1] = data[e - 4 + 1]
      BY <3>2
    <3> QED
      BY <3>1, <3>2, <3>3, <3>4, Zenon
  <2> HIDE DEF byte
  <2>3. byte = <<0>> <=> byte[1] = 0
    BY <2>2
  <2>4. Bytes(data, e - 4, e - 3) = byte
    <3>1. e - 4 + 1 = e - 3
      BY <1>1
    <3> QED
      BY <3>1 DEF Bytes, byte
  <2> QED
    BY <1>2, <2>2, <2>3, <2>4 DEF CodeBegin
<1>3. CASE ~(e >= 4)
  BY <1>3 DEF CodeBegin
<1> QED
  BY <1>2, <1>3

(* A start code begins after the one before it has ended. *)
LEMMA EndsApart ==
  ASSUME data \in Stream, NEW e \in Seen, NEW f \in Seen, e < f
  PROVE  e <= CodeBegin(data, f)
<1>1. /\ e \in 3 .. size - 1 /\ data[e] = 1 /\ f \in 3 .. size - 1
      /\ data[f - 2] = 0 /\ data[f - 1] = 0
  <2>1. e \in 3 .. size - 1 /\ CodeAt(e - 3) /\ f \in 3 .. size - 1 /\ CodeAt(f - 3)
    BY EndsAre
  <2>2. e - 3 + 3 = e /\ f - 3 + 1 = f - 2 /\ f - 3 + 2 = f - 1
    BY <2>1
  <2> QED
    BY <2>1, <2>2 DEF CodeAt
<1>2. f # e + 1 /\ f # e + 2
  BY <1>1
<1>3. f = e + 3 => data[f - 3] # 0
  BY <1>1
<1> QED
  BY <1>1, <1>2, <1>3, BeginIs, BufferIs

\* where a unit may begin, and where it may end
Starts == {0} \cup Seen
Limits == {CodeBegin(data, e) : e \in Seen} \cup {size}

LEMMA PlacesAre ==
  ASSUME data \in Stream
  PROVE  /\ \A a \in Starts : a \in 0 .. size - 1
         /\ \A b \in Limits : b \in 0 .. size
         /\ \A e \in Seen : CodeBegin(data, e) \in 0 .. e - 3
BY BufferIs, EndsAre, BeginIs DEF Starts, Limits

LEMMA UnitsAre ==
  ASSUME data \in Stream
  PROVE  /\ \A u : u \in SeenUnits <=>
              \E a \in Starts : \E b \in Limits :
                 u = <<a, b>> /\ a < b /\ \A x \in Limits : x < a \/ b <= x
         /\ \A u \in SeenUnits :
              /\ u = <<u[1], u[2]>> /\ u[1] \in Starts /\ u[2] \in Limits
              /\ u[1] \in Nat /\ u[2] \in Nat /\ u[1] < u[2] /\ u[2] <= size
              /\ \A x \in Limits : x < u[1] \/ u[2] <= x
<1>1. \A u : u \in SeenUnits <=>
        \E a \in Starts : \E b \in Limits :
           u = <<a, b>> /\ a < b /\ \A x \in Limits : x < a \/ b <= x
  <2>1. SeenUnits = {v \in Starts \X Limits :
           v[1] < v[2] /\ \A x \in Limits : x < v[1] \/ v[2] <= x}
    BY DEF SeenUnits, UnitsBetween, Starts, Limits, size
  <2> QED
    BY <2>1
<1>2. ASSUME NEW u \in SeenUnits
      PROVE  /\ u = <<u[1], u[2]>> /\ u[1] \in Starts /\ u[2] \in Limits
             /\ u[1] < u[2] /\ \A x \in Limits : x < u[1] \/ u[2] <= x
  BY <1>1
<1> QED
  BY <1>1, <1>2, PlacesAre, BufferIs

(* A unit that begins before a start ends before it. *)
LEMMA UnitsEndBefore ==
  ASSUME data \in Stream, NEW u \in SeenUnits, NEW p \in Starts, u[1] < p
  PROVE  u[2] <= p
<1>1. p \in Seen /\ p \in Nat /\ u[1] \in Nat
  BY UnitsAre, PlacesAre DEF Starts
<1>2. CodeBegin(data, p) \in Limits /\ CodeBegin(data, p) \in 0 .. p - 3
  BY <1>1, PlacesAre DEF Limits
<1>3. u[1] <= CodeBegin(data, p)
  <2>1. u[1] = 0 \/ u[1] \in Seen
    BY UnitsAre DEF Starts
  <2> QED
    BY <1>1, <1>2, <2>1, EndsApart
<1>4. CodeBegin(data, p) < u[1] \/ u[2] <= CodeBegin(data, p)
  BY <1>2, UnitsAre
<1> QED
  BY <1>1, <1>2, <1>3, <1>4, UnitsAre

(* From a start p to the next limit f there is a unit, unless f is at p; and *)
(* no other unit begins at p.                                                *)
LEMMA UnitFrom ==
  ASSUME data \in Stream, NEW p \in Starts, NEW f \in Limits,
         p <= f, \A x \in Limits : x < p \/ f <= x
  PROVE  /\ f > p => <<p, f>> \in SeenUnits
         /\ \A u \in SeenUnits : u[1] = p => f > p /\ u = <<p, f>>
<1>1. p \in Nat /\ f \in Nat
  BY PlacesAre, BufferIs
<1>2. f > p => <<p, f>> \in SeenUnits
  BY <1>1, UnitsAre
<1>3. ASSUME NEW u \in SeenUnits, u[1] = p
      PROVE  f > p /\ u = <<p, f>>
  <2>1. /\ u = <<u[1], u[2]>> /\ u[2] \in Limits /\ u[2] \in Nat /\ p < u[2]
        /\ f < p \/ u[2] <= f
    BY <1>3, UnitsAre
  <2>2. u[2] < p \/ f <= u[2]
    BY <2>1
  <2>3. u[2] = f /\ f > p
    BY <1>1, <2>1, <2>2
  <2> QED
    BY <1>3, <2>1, <2>3
<1> QED
  BY <1>2, <1>3
-----------------------------------------------------------------------------
(***************************************************************************)
(* The search of the loop.                                                 *)
(***************************************************************************)
LEMMA FoundIs ==
  ASSUME data \in Stream, pos \in Starts
  PROVE  /\ Found \in SUBSET (pos .. size - 4)
         /\ \A i \in Found : IF data[i + 3] = 1 THEN i + 3 \in Seen
                            ELSE i + 4 \in Seen /\ CodeBegin(data, i + 4) = i
         /\ \A e \in Seen : e > pos => CodeBegin(data, e) \in Found
<1>0. pos \in Nat /\ size \in Nat
  BY PlacesAre, BufferIs
<1>1. \A i : i \in Found <=> /\ i \in pos .. size - 4
                            /\ \/ CodeAt(i)
                               \/ i < size - 4 /\ data[i + 1] = 0 /\ CodeAt(i + 1)
  <2>1. ASSUME NEW i \in pos .. size - 4
        PROVE  /\ At(i) = data[i + 1] /\ At(i + 1) = data[i + 2]
               /\ At(i + 2) = data[i + 3] /\ At(i + 3) = data[i + 4]
               /\ CodeAt(i + 1) <=> data[i + 2] = 0 /\ data[i + 3] = 0 /\ data[i + 4] = 1
    <3>1. i + 1 + 1 = i + 2 /\ i + 2 + 1 = i + 3 /\ i + 3 + 1 = i + 4
          /\ i + 1 + 2 = i + 3 /\ i + 1 + 3 = i + 4
      BY <1>0
    <3> QED
      BY <3>1, Zenon DEF At, CodeAt
  <2> QED
    BY <2>1 DEF Found, CodeAt
<1>2. ASSUME NEW i \in Found
      PROVE  IF data[i + 3] = 1 THEN i + 3 \in Seen
             ELSE i + 4 \in Seen /\ CodeBegin(data, i + 4) = i
  <2>1. i \in pos .. size - 4 /\ i \in Nat
    BY <1>0, <1>1
  <2>2. CASE CodeAt(i)
    <3>1. PICK e \in 3 .. size - 1 : e = i + 3 /\ e - 3 = i
      BY <1>0, <2>1
    <3>2. e \in Seen
      BY <2>2, <3>1, EndsAre
    <3>3. data[i + 3] = 1
      BY <2>2 DEF CodeAt
    <3> QED
      BY <3>1, <3>2, <3>3
  <2>3. CASE i < size - 4 /\ data[i + 1] = 0 /\ CodeAt(i + 1)
    <3>1. PICK e \in 3 .. size - 1 :
             e = i + 4 /\ e - 3 = i + 1 /\ e - 4 = i /\ e >= 4 /\ i + 1 + 2 = i + 3
      BY <1>0, <2>1, <2>3
    <3>2. data[i + 3] # 1
      BY <2>3, <3>1 DEF CodeAt
    <3>3. e \in Seen
      BY <2>3, <3>1, EndsAre
    <3>4. CodeBegin(data, e) = i
      BY <2>3, <3>1, <3>3, BeginIs
    <3> QED
      BY <3>1, <3>2, <3>3, <3>4
  <2> QED
    BY <1>1, <2>2, <2>3
<1>3. ASSUME NEW e \in Seen, e > pos
      PROVE  CodeBegin(data, e) \in Found
  <2>1. e \in 3 .. size - 1 /\ CodeAt(e - 3)
    BY EndsAre
  <2>2. pos <= CodeBegin(data, e)
    BY <1>3, EndsApart, PlacesAre DEF Starts
  <2>3. CASE e >= 4 /\ data[e - 3] = 0
    <3>1. CodeBegin(data, e) = e - 4
      BY <2>3, BeginIs
    <3>2. e - 4 + 1 = e - 3 /\ e - 4 \in pos .. size - 4 /\ e - 4 < size - 4
      BY <1>0, <2>1, <2>2, <2>3, <3>1
    <3> QED
      BY <1>1, <2>1, <2>3, <3>1, <3>2
  <2>4. CASE ~(e >= 4 /\ data[e - 3] = 0)
    <3>1. CodeBegin(data, e) = e - 3
      BY <2>4, BeginIs
    <3>2. e - 3 \in pos .. size - 4
      BY <1>0, <2>1, <2>2, <3>1
    <3> QED
      BY <1>1, <2>1, <3>1, <3>2
  <2> QED
    BY <2>3, <2>4
<1>4. Found \in SUBSET (pos .. size - 4)
  BY <1>1
<1> QED
  BY <1>2, <1>3, <1>4

(* The search stops where the next unit ends; behind the start code there, *)
(* if there is one, is the next start.                                     *)
LEMMA SearchIs ==
  ASSUME data \in Stream, pos \in Starts, NEW f, f = next_start_code
  PROVE  /\ f \in Limits /\ pos <= f /\ \A x \in Limits : x < pos \/ f <= x
         /\ f = size => \A e \in Seen : e <= pos
         /\ f # size =>
              /\ f + SkippedAt(f) \in Seen /\ pos < f + SkippedAt(f)
              /\ \A e \in Seen : e <= pos \/ f + SkippedAt(f) <= e
<1>0. pos \in Nat /\ pos < size /\ size \in Nat
  BY PlacesAre, BufferIs
<1>1. CASE Found = {}
  <2>1. f = size
    BY <1>1 DEF next_start_code
  <2>2. \A e \in Seen : e \in Nat /\ e <= pos /\ CodeBegin(data, e) < pos
    <3> SUFFICES ASSUME NEW e \in Seen
                 PROVE  e \in Nat /\ e <= pos /\ CodeBegin(data, e) < pos
      OBVIOUS
    <3>1. e \in 3 .. size - 1 /\ CodeBegin(data, e) \in 0 .. e - 3
      BY EndsAre, PlacesAre
    <3>2. ~(e > pos)
      BY <1>1, FoundIs
    <3> QED
      BY <1>0, <3>1, <3>2
  <2> QED
    BY <1>0, <2>1, <2>2 DEF Limits
<1>2. CASE Found # {}
  <2>0. Found \in SUBSET (pos .. size - 4) /\ Found \in SUBSET Nat
    BY <1>0, FoundIs
  <2>1. f \in Found /\ \A j \in Found : f <= j
    <3>1. \E i \in Found : \A j \in Found : i <= j
      BY <1>2, <2>0, LeastOf
    <3>2. f = CHOOSE i \in Found : \A j \in Found : i <= j
      BY <1>2, Zenon DEF next_start_code
    <3> QED
      BY <3>1, <3>2, Zenon
  <2>2. f \in pos .. size - 4 /\ f \in Nat /\ f # size
    BY <1>0, <2>0, <2>1
  <2>3. PICK e \in Seen : e = f + SkippedAt(f) /\ CodeBegin(data, e) = f /\ e > f
    <3>1. SkippedAt(f) = IF data[f + 3] = 1 THEN 3 ELSE 4
      <4>1. f + 2 + 1 = f + 3
        BY <2>2
      <4> QED
        BY <4>1, Zenon DEF SkippedAt, At
    <3>2. CASE data[f + 3] = 1
      <4>1. f + 3 \in Seen
        BY <2>1, <3>2, FoundIs
      <4>2. CodeBegin(data, f + 3) \in Found
        BY <2>2, <4>1, <1>0, FoundIs
      <4>3. CodeBegin(data, f + 3) = f
        <5>1. PICK e : e = f + 3 /\ e - 3 = f /\ e - 4 < f
          BY <2>2
        <5>2. CodeBegin(data, e) \in {e - 3, e - 4} /\ f <= CodeBegin(data, e)
          BY <2>1, <4>1, <4>2, <5>1, BeginIs
        <5>3. CodeBegin(data, e) = f
          BY <2>2, <5>1, <5>2
        <5> QED
          BY <5>1, <5>3
      <4> QED
        BY <2>2, <3>1, <3>2, <4>1, <4>3
    <3>3. CASE data[f + 3] # 1
      BY <2>1, <2>2, <3>1, <3>3, FoundIs
    <3> QED
      BY <3>2, <3>3
  <2>4. f \in Limits
    BY <2>3 DEF Limits
  <2>5. ASSUME NEW s \in Seen, s > pos
        PROVE  e <= s /\ f <= CodeBegin(data, s)
    <3>1. f <= CodeBegin(data, s)
      BY <2>1, <2>5, FoundIs
    <3>2. CodeBegin(data, s) \in 0 .. s - 3 /\ s \in 3 .. size - 1 /\ e \in 3 .. size - 1
      BY EndsAre, PlacesAre
    <3>3. ~(s < e)
      BY <2>2, <2>3, <3>1, <3>2, EndsApart
    <3> QED
      BY <3>1, <3>2, <3>3
  <2>6. \A x \in Limits : x < pos \/ f <= x
    <3> SUFFICES ASSUME NEW x \in Limits
                 PROVE  x < pos \/ f <= x
      OBVIOUS
    <3>1. CASE x = size
      BY <1>0, <2>2, <3>1
    <3>2. ASSUME NEW s \in Seen, x = CodeBegin(data, s)
          PROVE  x < pos \/ f <= x
      <4>1. CodeBegin(data, s) \in 0 .. s - 3 /\ s \in 3 .. size - 1
        BY EndsAre, PlacesAre
      <4> QED
        BY <1>0, <2>5, <3>2, <4>1
    <3> QED
      BY <3>1, <3>2 DEF Limits
  <2>7. \A s \in Seen : s <= pos \/ e <= s
    <3>1. \A s \in Seen : s \in Nat
      BY EndsAre, BufferIs
    <3> QED
      BY <1>0, <2>5, <3>1
  <2>8. e \in Nat /\ pos < e
    BY <1>0, <2>2, <2>3, EndsAre, BufferIs
  <2> QED
    BY <2>2, <2>3, <2>4, <2>6, <2>7, <2>8
<1> QED
  BY <1>1, <1>2
-----------------------------------------------------------------------------
(***************************************************************************)
(* Sequences that have units in their order.                               *)
(***************************************************************************)
InOrder(q) == \A i, j \in DOMAIN q : i < j => q[i][2] <= q[j][1]

Has(q, u) == \E i \in DOMAIN q : q[i] = u

(* Units in their order stay so when one is appended that comes later. *)
LEMMA AppendInOrder ==
  ASSUME data \in Stream, NEW q \in Seq(SeenUnits), InOrder(q), NEW v \in SeenUnits,
         \A u \in SeenUnits : Has(q, u) => u[2] <= v[1],
         NEW r, r = Append(q, v)
  PROVE  /\ r \in Seq(SeenUnits) /\ InOrder(r)
         /\ \A u : Has(r, u) <=> Has(q, u) \/ u = v
         /\ Len(r) > 0 /\ r[Len(r)] = v
<1>1. /\ r \in Seq(SeenUnits) /\ Len(q) \in Nat /\ Len(r) = Len(q) + 1
      /\ DOMAIN q = 1 .. Len(q) /\ DOMAIN r = 1 .. Len(q) + 1
      /\ r[Len(q) + 1] = v
      /\ \A i \in 1 .. Len(q) : r[i] = q[i] /\ q[i] \in SeenUnits
  OBVIOUS
<1>2. InOrder(r)
  <2> SUFFICES ASSUME NEW i \in DOMAIN r, NEW j \in DOMAIN r, i < j
               PROVE  r[i][2] <= r[j][1]
    BY DEF InOrder
  <2>1. i \in 1 .. Len(q)
    BY <1>1
  <2>2. CASE j \in 1 .. Len(q)
    BY <1>1, <2>1, <2>2 DEF InOrder
  <2>3. CASE j = Len(q) + 1
    <3>1. Has(q, q[i]) /\ q[i] \in SeenUnits
      BY <1>1, <2>1 DEF Has
    <3> QED
      BY <1>1, <2>1, <2>3, <3>1
  <2> QED
    BY <1>1, <2>2, <2>3
<1>3. \A u : Has(r, u) <=> Has(q, u) \/ u = v
  BY <1>1 DEF Has
<1> QED
  BY <1>1, <1>2, <1>3

(* Units in their order are all different. *)
LEMMA OrderedIsInjective ==
  ASSUME data \in Stream, NEW n \in Nat, NEW q \in [1 .. n -> SeenUnits], InOrder(q)
  PROVE  /\ \A i, j \in 1 .. n : i < j => q[i][1] < q[j][1]
         /\ q \in Injection(1 .. n, SeenUnits)
<1>1. ASSUME NEW i \in 1 .. n, NEW j \in 1 .. n, i < j
      PROVE  q[i][1] < q[j][1]
  <2>1. q[i] \in SeenUnits /\ q[j] \in SeenUnits /\ q[i][2] <= q[j][1]
    BY <1>1 DEF InOrder
  <2> QED
    BY <2>1, UnitsAre
<1>2. ASSUME NEW i \in 1 .. n, NEW j \in 1 .. n, q[i] = q[j]
      PROVE  i = j
  <2>1. q[i] \in SeenUnits /\ q[i][1] \in Nat
    BY UnitsAre
  <2> QED
    BY <1>1, <1>2, <2>1
<1> QED
  BY <1>1, <1>2 DEF Injection, IsInjective

LEMMA NotLess == \A x, y \in Nat : ~(x < x) /\ ~(x < y /\ y < x)
OBVIOUS

(* There is one way to enumerate the units in their order. *)
LEMMA OneOrder ==
  ASSUME data \in Stream, NEW n \in Nat,
         NEW q \in [1 .. n -> SeenUnits], InOrder(q),
         \A u \in SeenUnits : \E i \in 1 .. n : q[i] = u,
         NEW r \in [1 .. n -> SeenUnits], InOrder(r),
         \A u \in SeenUnits : \E i \in 1 .. n : r[i] = u
  PROVE  q = r
<1>1. /\ \A l, m \in 1 .. n : l < m => q[l][1] < q[m][1] /\ r[l][1] < r[m][1]
      /\ \A l \in 1 .. n : q[l][1] \in Nat /\ r[l][1] \in Nat
  BY OrderedIsInjective, UnitsAre
<1>2. SUFFICES ASSUME NEW d \in 1 .. n, q[d] # r[d]
               PROVE  FALSE
  OBVIOUS
<1>3. PICK k \in 1 .. n : q[k] # r[k] /\ \A l \in 1 .. n : l < k => q[l] = r[l]
  <2> DEFINE T == {k \in 1 .. n : q[k] # r[k]}
  <2>1. T \in SUBSET Nat /\ T # {}
    <3>1. d \in T
      BY <1>2
    <3>2. 1 .. n \in SUBSET Nat
      OBVIOUS
    <3> QED
      BY <3>1, <3>2, Zenon
  <2>2. PICK k \in T : \A l \in T : k <= l
    BY <2>1, LeastOf
  <2> QED
    BY <2>2
<1>4. PICK i \in 1 .. n : r[i] = q[k]
  OBVIOUS
<1>5. PICK j \in 1 .. n : q[j] = r[k]
  OBVIOUS
<1>6. i > k
  <2>1. i # k
    BY <1>3, <1>4
  <2>2. ASSUME i < k PROVE FALSE
    <3>1. q[i] = r[i] /\ q[i][1] < q[k][1] /\ q[k][1] \in Nat
      BY <1>1, <1>3, <2>2
    <3>2. q[i][1] = q[k][1]
      BY <1>4, <3>1
    <3> QED
      BY <3>1, <3>2, NotLess
  <2> QED
    BY <2>1, <2>2
<1>7. j > k
  <2>1. j # k
    BY <1>3, <1>5
  <2>2. ASSUME j < k PROVE FALSE
    <3>1. q[j] = r[j] /\ r[j][1] < r[k][1] /\ r[k][1] \in Nat
      BY <1>1, <1>3, <2>2
    <3>2. r[j][1] = r[k][1]
      BY <1>5, <3>1
    <3> QED
      BY <3>1, <3>2, NotLess
  <2> QED
    BY <2>1, <2>2
<1>8. /\ r[k][1] < r[i][1] /\ q[k][1] < q[j][1]
      /\ r[k][1] \in Nat /\ q[k][1] \in Nat
  BY <1>1, <1>6, <1>7
<1>9. r[i][1] = q[k][1] /\ q[j][1] = r[k][1]
  BY <1>4, <1>5
<1> QED
  BY <1>8, <1>9, NotLess

(* A sequence of all units in their order is Ordered.      *)
LEMMA Enumeration ==
  ASSUME data \in Stream, NEW q \in Seq(SeenUnits), InOrder(q),
         \A u \in SeenUnits : Has(q, u)
  PROVE  Ordered(SeenUnits) = q
<1> DEFINE n == Len(q)
           U == SeenUnits
           In == [1 .. Cardinality(U) -> U]
<1>1. n \in Nat /\ q \in [1 .. n -> U] /\ DOMAIN q = 1 .. n
  OBVIOUS
<1> HIDE DEF n
<1>2. \A u \in U : \E i \in 1 .. n : q[i] = u
  BY <1>1 DEF Has
<1>3. q \in Injection(1 .. n, U) /\ q \in Surjection(1 .. n, U)
  BY <1>1, <1>2, OrderedIsInjective DEF Surjection
<1>4. IsFiniteSet(U) /\ Cardinality(U) = n
  <2>1. ExistsBijection(1 .. n, U)
    BY <1>3 DEF ExistsBijection, Bijection
  <2> QED
    BY <1>1, <2>1, FS_CountingElements, FS_NatBijection
<1>5. q \in In /\ \A i, j \in DOMAIN q : i < j => q[i][2] <= q[j][1]
  BY <1>1, <1>4 DEF InOrder
<1>6. ASSUME NEW r \in In, \A i, j \in DOMAIN r : i < j => r[i][2] <= r[j][1]
      PROVE  r = q
  <2>1. r \in [1 .. n -> U] /\ InOrder(r)
    BY <1>4, <1>6 DEF InOrder
  <2>2. r \in Injection(1 .. n, U)
    BY <1>1, <2>1, OrderedIsInjective
  <2>3. IsFiniteSet(1 .. n) /\ Cardinality(1 .. n) = n
    BY <1>1, FS_Interval
  <2>4. r \in Surjection(1 .. n, U)
    BY <1>4, <2>2, <2>3, FS_Injection
  <2>5. \A u \in U : \E i \in 1 .. n : r[i] = u
    BY <2>4 DEF Surjection
  <2> QED
    BY <1>1, <1>2, <2>1, <2>5, OneOrder
<1> DEFINE chosen == CHOOSE r \in In : \A i, j \in DOMAIN r : i < j => r[i][2] <= r[j][1]
<1>7. chosen \in In /\ \A i, j \in DOMAIN chosen : i < j => chosen[i][2] <= chosen[j][1]
  BY <1>5, Zenon
<1>8. Ordered(SeenUnits) = chosen
  BY Zenon DEF Ordered
<1> HIDE DEF chosen, In
<1> QED
  BY <1>6, <1>7, <1>8
-----------------------------------------------------------------------------
(***************************************************************************)
(* The loop stands at the beginning of the stream or at the end of a start *)
(* code and has appended, in their order, the units that begin before      *)
(* that; after it, all of them, and the last one ends with the stream.     *)
(***************************************************************************)
StreamInv ==
    /\ pos \in Starts
    /\ at \in {"loop", "tail", "done"}
    /\ at # "done" => final_data \in Seq(SeenUnits) /\ InOrder(final_data)
    /\ at = "loop" => \A u \in SeenUnits : u[1] < pos <=> Has(final_data, u)
    /\ at = "tail" =>
        /\ \A u \in SeenUnits : Has(final_data, u)
        /\ Len(final_data) > 0 /\ final_data[Len(final_data)] = <<pos, size>>

(***************************************************************************)
(* Of an empty buffer nothing is appended; what the code does with one of  *)
(* one or two bytes has no meaning.                                        *)
(***************************************************************************)
ConverterInv ==
    /\ ConverterTypeOK
    /\ size = 0 => final_data = <<>>
    /\ size \in {1, 2} => at \in {"loop", "undefined"} /\ pos = 0
    /\ size >= 3 => StreamInv
    /\ OnlyTheLastUnitTwice

LEMMA SizeIs ==
  ASSUME ConverterTypeOK
  PROVE  /\ size \in Nat /\ data \in Buffer
         /\ size >= 3 => data \in Stream
         /\ size < 3 => size \in {0, 1, 2}
<1>1. PICK n \in 0 .. MaxSize : data \in [1..n -> Byte]
  BY DEF ConverterTypeOK, Buffer
<1>2. n \in Nat
  BY ConverterAssumption
<1>3. size = n
  BY <1>1, <1>2 DEF size
<1>4. data \in Buffer
  BY DEF ConverterTypeOK
<1>5. size >= 3 => data \in Stream
  BY <1>4 DEF Stream, size
<1> QED
  BY <1>2, <1>3, <1>4, <1>5

LEMMA ConverterInit == Init => ConverterInv
<1> SUFFICES ASSUME Init
             PROVE  ConverterInv
  OBVIOUS
<1>1. data \in Buffer /\ pos = 0 /\ final_data = <<>> /\ at = "loop"
  BY DEF Init
<1>2. size \in Nat
  <2>1. PICK n \in 0 .. MaxSize : data \in [1..n -> Byte]
    BY <1>1 DEF Buffer
  <2>2. n \in Nat
    BY ConverterAssumption
  <2> QED
    BY <2>1, <2>2 DEF size
<1>3. ConverterTypeOK
  BY <1>1, <1>2 DEF ConverterTypeOK
<1>4. ASSUME size >= 3
      PROVE  StreamInv
  <2>1. \A u \in SeenUnits : u[1] < pos <=> Has(final_data, u)
    BY <1>1, <1>3, <1>4, SizeIs, UnitsAre DEF Has
  <2> QED
    BY <1>1, <2>1 DEF StreamInv, Starts, InOrder
<1> QED
  BY <1>1, <1>3, <1>4 DEF ConverterInv, OnlyTheLastUnitTwice

(* What is appended in the loop are units of the buffer. *)
LEMMA UnitsInBuffer ==
  ASSUME data \in Stream, NEW q \in Seq(SeenUnits)
  PROVE  q \in Seq((0 .. size) \X (0 .. size))
<1>1. \A u \in SeenUnits : u \in (0 .. size) \X (0 .. size)
  BY UnitsAre, BufferIs
<1> QED
  BY <1>1

LEMMA TurnStep ==
  ASSUME ConverterInv, Turn
  PROVE  ConverterInv'
<1>1. PICK f : f = next_start_code
  OBVIOUS
<1>2. /\ at = "loop" /\ data' = data /\ size' = size /\ Starts' = Starts
      /\ SeenUnits' = SeenUnits /\ size >= 3
      /\ final_data' = IF f > pos THEN Append(final_data, <<pos, f>>) ELSE final_data
      /\ f = size => at' = "tail" /\ pos' = pos
      /\ f # size => at' = "loop" /\ pos' = f + SkippedAt(f)
  BY <1>1 DEF Turn, size, Starts, SeenUnits, Seen
<1>3. /\ data \in Stream /\ data \in Buffer /\ pos \in Starts /\ pos \in Nat /\ pos < size /\ size \in Nat
      /\ final_data \in Seq(SeenUnits) /\ InOrder(final_data)
      /\ \A u \in SeenUnits : u[1] < pos <=> Has(final_data, u)
  BY <1>2, SizeIs, PlacesAre, BufferIs DEF ConverterInv, StreamInv
<1>4. /\ f \in Limits /\ pos <= f /\ \A x \in Limits : x < pos \/ f <= x
      /\ f = size => \A e \in Seen : e <= pos
      /\ f # size =>
           /\ f + SkippedAt(f) \in Seen /\ pos < f + SkippedAt(f)
           /\ \A e \in Seen : e <= pos \/ f + SkippedAt(f) <= e
  BY <1>1, <1>3, SearchIs
<1>5. /\ final_data' \in Seq(SeenUnits) /\ InOrder(final_data')
      /\ \A u \in SeenUnits : u[1] <= pos <=> Has(final_data', u)
      /\ f > pos => Len(final_data') > 0 /\ final_data'[Len(final_data')] = <<pos, f>>
  <2>1. /\ f > pos => <<pos, f>> \in SeenUnits
        /\ \A u \in SeenUnits : u[1] = pos => f > pos /\ u = <<pos, f>>
    BY <1>3, <1>4, UnitFrom
  <2>2. \A u \in SeenUnits : u[1] \in Nat /\ (u[1] <= pos <=> u[1] < pos \/ u[1] = pos)
    BY <1>3, UnitsAre
  <2>3. CASE f > pos
    <3>1. PICK v \in SeenUnits : v = <<pos, f>> /\ v[1] = pos
      BY <2>1, <2>3
    <3>2. \A u \in SeenUnits : Has(final_data, u) => u[2] <= v[1]
      BY <1>3, <3>1, UnitsEndBefore
    <3>3. final_data' = Append(final_data, v)
      BY <1>2, <2>3, <3>1
    <3>4. /\ final_data' \in Seq(SeenUnits) /\ InOrder(final_data')
          /\ \A u : Has(final_data', u) <=> Has(final_data, u) \/ u = v
          /\ Len(final_data') > 0 /\ final_data'[Len(final_data')] = v
      BY <1>3, <3>2, <3>3, AppendInOrder
    <3>5. \A u \in SeenUnits : u[1] = pos <=> u = v
      BY <2>1, <3>1
    <3> QED
      BY <1>3, <2>2, <3>1, <3>4, <3>5
  <2>4. CASE ~(f > pos)
    BY <1>2, <1>3, <2>1, <2>2, <2>4
  <2> QED
    BY <2>3, <2>4
<1>6. CASE f = size
  <2>1. \A u \in SeenUnits : u[1] <= pos
    BY <1>3, <1>4, <1>6, UnitsAre DEF Starts
  <2>2. f > pos /\ at' = "tail" /\ pos' = pos
    BY <1>2, <1>3, <1>6
  <2>3. ConverterTypeOK'
    BY <1>2, <1>3, <1>5, <2>2, UnitsInBuffer DEF ConverterTypeOK
  <2>4. StreamInv'
    BY <1>2, <1>3, <1>5, <1>6, <2>1, <2>2 DEF StreamInv
  <2> QED
    BY <1>2, <1>3, <2>2, <2>3, <2>4 DEF ConverterInv, OnlyTheLastUnitTwice
<1>7. CASE f # size
  <2>1. at' = "loop" /\ pos' \in Seen /\ pos' > pos /\ pos' \in 0 .. size - 1
        /\ \A e \in Seen : e <= pos \/ pos' <= e
    BY <1>2, <1>3, <1>4, <1>7, PlacesAre DEF Starts
  <2>2. \A u \in SeenUnits : u[1] < pos' <=> u[1] <= pos
    <3> SUFFICES ASSUME NEW u \in SeenUnits
                 PROVE  u[1] < pos' <=> u[1] <= pos
      OBVIOUS
    <3>1. u[1] \in Nat /\ (u[1] = 0 \/ u[1] \in Seen)
      BY <1>3, UnitsAre DEF Starts
    <3> QED
      BY <1>3, <2>1, <3>1
  <2>3. ConverterTypeOK'
    <3>1. final_data' \in Seq((0 .. size) \X (0 .. size))
      BY <1>3, <1>5, UnitsInBuffer
    <3>2. pos' \in 0 .. size
      BY <1>3, <2>1
    <3> QED
      BY <1>2, <1>3, <2>1, <3>1, <3>2 DEF ConverterTypeOK
  <2>4. pos' \in Starts
    BY <2>1 DEF Starts
  <2>5. \A u \in SeenUnits' : u[1] < pos' <=> Has(final_data', u)
    BY <1>2, <1>5, <2>2, Zenon
  <2>6. StreamInv'
    <3>1. at' = "loop" /\ pos' \in Starts' /\ final_data' \in Seq(SeenUnits') /\ InOrder(final_data')
      BY <1>2, <1>5, <2>1, <2>4
    <3> QED
      BY <2>5, <3>1 DEF StreamInv, InOrder, Has
  <2> QED
    BY <1>2, <1>3, <2>1, <2>3, <2>6 DEF ConverterInv, OnlyTheLastUnitTwice
<1> QED
  BY <1>6, <1>7

LEMMA LastUnitStep ==
  ASSUME ConverterInv, LastUnit, size >= 3
  PROVE  ConverterInv'
<1>1. /\ at = "tail" /\ at' = "done" /\ data' = data /\ pos' = pos
      /\ size' = size /\ Starts' = Starts /\ SeenUnits' = SeenUnits
      /\ ConverterTypeOK /\ size \in Nat
  BY SizeIs DEF ConverterInv, LastUnit, size, Starts, SeenUnits, Seen
<1>2. /\ data \in Stream /\ pos \in Starts /\ pos \in 0 .. size - 1 /\ size \in Nat
      /\ final_data \in Seq(SeenUnits) /\ InOrder(final_data)
      /\ \A u \in SeenUnits : Has(final_data, u)
      /\ Len(final_data) > 0 /\ final_data[Len(final_data)] = <<pos, size>>
  BY <1>1, SizeIs, BufferIs, PlacesAre DEF ConverterInv, StreamInv
<1>3. final_data' = Append(final_data, <<pos, size>>)
  BY <1>2 DEF LastUnit
<1>4. Ordered(SeenUnits) = final_data
  BY <1>2, Enumeration
<1>5. OnlyTheLastUnitTwice'
  <2>1. Ordered(SeenUnits)' = final_data
    BY <1>1, <1>4
  <2>2. final_data' = Append(final_data, final_data[Len(final_data)])
    BY <1>2, <1>3
  <2>3. final_data # <<>>
    BY <1>2
  <2> QED
    BY <2>1, <2>2, <2>3 DEF OnlyTheLastUnitTwice
<1>6. ConverterTypeOK'
  <2>1. /\ final_data \in Seq((0 .. size) \X (0 .. size))
        /\ <<pos, size>> \in (0 .. size) \X (0 .. size)
    BY <1>2, UnitsInBuffer
  <2>2. final_data' \in Seq((0 .. size) \X (0 .. size))
    BY <1>3, <2>1
  <2> QED
    BY <1>1, <1>2, <2>2 DEF ConverterTypeOK
<1> QED
  BY <1>1, <1>2, <1>5, <1>6 DEF ConverterInv, StreamInv

(* There are no units in an empty buffer. *)
LEMMA EmptyBuffer ==
  ASSUME size = 0
  PROVE  Ordered(SeenUnits) = <<>>
<1>1. Seen = {}
  <2>1. \A e \in CodeEnds(data) : \E i \in 0 .. Len(data) : e = i + 3
    BY DEF CodeEnds
  <2> QED
    BY <2>1 DEF Seen, size
<1>2. \A u \in SeenUnits : u[1] = 0 /\ u[2] = 0 /\ u[1] < u[2]
  BY <1>1 DEF SeenUnits, UnitsBetween, size
<1>3. SeenUnits = {}
  BY <1>2
<1>4. Cardinality({}) = 0 /\ 1 .. 0 = {}
  BY FS_EmptySet
<1> DEFINE Q == [1 .. Cardinality({}) -> {}]
<1>5. <<>> \in Q /\ DOMAIN <<>> = {}
  BY <1>4
<1>6. \E q \in Q : \A i, j \in DOMAIN q : i < j => q[i][2] <= q[j][1]
  BY <1>5
<1>7. Ordered({}) \in Q
  BY <1>6, Zenon DEF Ordered
<1>8. \A q \in Q : q = <<>>
  <2>1. \A q \in Q : q \in Seq({}) /\ Len(q) = 0
    BY <1>4
  <2> QED
    BY <2>1, EmptySeq
<1> QED
  BY <1>3, <1>7, <1>8

LEMMA ShortBufferStep ==
  ASSUME ConverterInv, [Next]_vars, size < 3
  PROVE  ConverterInv'
<1>1. /\ ConverterTypeOK /\ size \in {0, 1, 2} /\ pos \in 0 .. size
      /\ data \in Buffer /\ final_data \in Seq((0 .. size) \X (0 .. size))
      /\ at \in {"loop", "tail", "done", "undefined"}
  BY SizeIs DEF ConverterInv, ConverterTypeOK
<1>2. data' = data /\ size' = size /\ pos' = pos /\ SeenUnits' = SeenUnits
  <2>1. data' = data /\ pos' = pos
    BY <1>1 DEF Next, Turn, SearchPastTheEnd, EndOfLoop, LastUnit, vars
  <2> QED
    BY <2>1 DEF size, SeenUnits, Seen
<1>3. CASE size = 0
  <2>1. final_data = <<>> /\ pos = 0
    BY <1>1, <1>3 DEF ConverterInv
  <2>2. final_data' = <<>> /\ at' \in {"loop", "tail", "done", "undefined"}
    BY <1>1, <1>3, <2>1 DEF Next, Turn, SearchPastTheEnd, EndOfLoop, LastUnit, vars
  <2>3. Ordered(SeenUnits)' = <<>>
    BY <1>2, <1>3, EmptyBuffer
  <2>4. ConverterTypeOK'
    BY <1>1, <1>2, <2>2 DEF ConverterTypeOK
  <2> QED
    BY <1>2, <1>3, <2>2, <2>3, <2>4 DEF ConverterInv, OnlyTheLastUnitTwice
<1>4. CASE size \in {1, 2}
  <2>1. at \in {"loop", "undefined"} /\ pos = 0
    BY <1>4 DEF ConverterInv
  <2>2. pos < size /\ ~(size >= 3) /\ ~(pos >= size)
    BY <1>4, <2>1
  <2>3. final_data' = final_data /\ at' \in {"loop", "undefined"}
    <3>1. CASE SearchPastTheEnd
      BY <3>1 DEF SearchPastTheEnd
    <3>2. CASE UNCHANGED vars
      BY <2>1, <3>2 DEF vars
    <3>3. ~Turn /\ ~EndOfLoop /\ ~LastUnit
      BY <2>1, <2>2 DEF Turn, EndOfLoop, LastUnit
    <3> QED
      BY <3>1, <3>2, <3>3 DEF Next
  <2>4. ConverterTypeOK'
    BY <1>1, <1>2, <2>3 DEF ConverterTypeOK
  <2> QED
    BY <1>2, <1>4, <2>1, <2>3, <2>4 DEF ConverterInv, OnlyTheLastUnitTwice
<1> QED
  BY <1>1, <1>3, <1>4

LEMMA ConverterStep == ConverterInv /\ [Next]_vars => ConverterInv'
<1> SUFFICES ASSUME ConverterInv, [Next]_vars
             PROVE  ConverterInv'
  OBVIOUS
<1>1. CASE size < 3
  BY <1>1, ShortBufferStep
<1>2. CASE size >= 3
  <2>1. pos < size
    BY <1>2, SizeIs, PlacesAre DEF ConverterInv, StreamInv
  <2>2. CASE UNCHANGED vars
    BY <2>2 DEF vars, ConverterInv, StreamInv, ConverterTypeOK, Starts, size, Seen, SeenUnits,
                OnlyTheLastUnitTwice
  <2>3. ~SearchPastTheEnd /\ ~EndOfLoop
    <3>1. size \in Nat /\ pos \in Nat
      BY SizeIs DEF ConverterInv, ConverterTypeOK
    <3> QED
      BY <1>2, <2>1, <3>1 DEF SearchPastTheEnd, EndOfLoop
  <2> QED
    BY <1>2, <2>2, <2>3, TurnStep, LastUnitStep DEF Next
<1>3. size \in Nat
  BY SizeIs DEF ConverterInv
<1> QED
  BY <1>1, <1>2, <1>3

(* The search stays within the buffer: what is appended are intervals of it. *)
THEOREM ConverterTypeCorrect == Spec => []ConverterTypeOK
<1>1. ConverterInv => ConverterTypeOK
  BY DEF ConverterInv
<1> QED
  BY <1>1, ConverterInit, ConverterStep, PTL DEF Spec

(* The units of the buffer between the start codes that something follows, *)
(* all of them and in their order, and only the last one again: for every  *)
(* buffer of any length over any bytes, also one that ends with zeros or a *)
(* start code or is empty.  (Of one and two bytes nothing is said.)        *)
THEOREM LastUnitTwice == Spec => []OnlyTheLastUnitTwice
<1>1. ConverterInv => OnlyTheLastUnitTwice
  BY DEF ConverterInv
<1> QED
  BY <1>1, ConverterInit, ConverterStep, PTL DEF Spec
-----------------------------------------------------------------------------
(***************************************************************************)
(* Splitting at the long start codes and then at the short ones.           *)
(***************************************************************************)
LEMMA LongCodeIs ==
  ASSUME data \in Stream, NEW i \in Nat, i + 4 <= size
  PROVE  Bytes(data, i, i + 4) = <<0, 0, 0, 1>> <=> data[i + 1] = 0 /\ CodeAt(i + 1)
<1>1. \A k \in i + 1 .. i + 4 : data[k] \in Byte
  BY BufferIs
<1> DEFINE code == SubSeq(data, i + 1, i + 4)
<1>2. /\ code \in Seq(Byte) /\ Len(code) = 4
      /\ code[1] = data[i + 1] /\ code[2] = data[i + 2]
      /\ code[3] = data[i + 3] /\ code[4] = data[i + 4]
  <2>1. /\ code \in Seq(Byte)
        /\ Len(code) = IF i + 1 <= i + 4 THEN i + 4 - (i + 1) + 1 ELSE 0
        /\ \A k \in 1 .. i + 4 - (i + 1) + 1 : code[k] = data[i + 1 + k - 1]
    BY <1>1, SubSeqProperties
  <2> HIDE DEF code
  <2>2. Len(code) = 4 /\ \A k \in 1 .. 4 : code[k] = data[i + k]
    BY <2>1
  <2> QED
    BY <2>1, <2>2
<1> HIDE DEF code
<1>3. code = <<0, 0, 0, 1>> <=> code[1] = 0 /\ code[2] = 0 /\ code[3] = 0 /\ code[4] = 1
  BY <1>2
<1>4. Bytes(data, i, i + 4) = code
  BY DEF Bytes, code
<1>5. CodeAt(i + 1) <=> data[i + 2] = 0 /\ data[i + 3] = 0 /\ data[i + 4] = 1
  <2>1. i + 1 + 1 = i + 2 /\ i + 1 + 2 = i + 3 /\ i + 1 + 3 = i + 4
    OBVIOUS
  <2> QED
    BY <2>1, Zenon DEF CodeAt
<1> QED
  BY <1>2, <1>3, <1>4, <1>5

\* the parts of an interval between begins and ends
Parts(begins, ends) ==
    {q \in begins \X ends : q[1] <= q[2] /\ \A x \in ends : x < q[1] \/ q[2] <= x}

LEMMA PartsAre ==
  ASSUME NEW begins, NEW ends
  PROVE  \A q : q \in Parts(begins, ends) <=>
            \E a \in begins : \E b \in ends :
               q = <<a, b>> /\ a <= b /\ \A x \in ends : x < a \/ b <= x
BY DEF Parts

\* the start codes with three zeros, by their ends
LongEnds == {e \in Seen : CodeBegin(data, e) = e - 4}
LongLimits == {e - 4 : e \in LongEnds} \cup {size}

\* the others that lie between a and b
ShortEnds(a, b) == {e \in Seen : a <= e - 3 /\ e <= b}
ShortLimits(a, b) == {e - 3 : e \in ShortEnds(a, b)} \cup {b}

LEMMA LongPartsAre ==
  ASSUME data \in Stream, EndsInUnit(data)
  PROVE  \A q : q \in Split(<<0, size>>, <<0, 0, 0, 1>>) <=>
            \E a \in {0} \cup LongEnds : \E b \in LongLimits :
               q = <<a, b>> /\ a <= b /\ \A x \in LongLimits : x < a \/ b <= x
<1> DEFINE hits == {h \in 0 .. size - 4 : Bytes(data, h, h + 4) = <<0, 0, 0, 1>>}
<1>1. hits = {e - 4 : e \in LongEnds}
  <2>1. ASSUME NEW h \in hits
        PROVE  \E e \in LongEnds : h = e - 4
    <3>1. h \in Nat /\ h + 4 <= size /\ size \in Nat
      BY BufferIs
    <3>2. data[h + 1] = 0 /\ CodeAt(h + 1)
      BY <3>1, LongCodeIs
    <3>3. PICK e \in Nat : e = h + 4 /\ e - 3 = h + 1 /\ e - 4 = h /\ e >= 4
      BY <3>1
    <3>4. e # size
      <4>1. ASSUME e = size PROVE FALSE
        <5>1. size - 3 \in Nat /\ size - 3 + 3 <= size
          BY <3>1, <3>3, <4>1
        <5> QED
          BY <3>2, <3>3, <4>1, <5>1, ShortCodeIs, BufferIs DEF EndsInUnit, size
      <4> QED
        BY <4>1
    <3>5. e \in Seen
      BY <3>1, <3>2, <3>3, <3>4, EndsAre
    <3>6. CodeBegin(data, e) = e - 4
      BY <3>2, <3>3, <3>5, BeginIs
    <3> QED
      BY <3>3, <3>5, <3>6 DEF LongEnds
  <2>2. ASSUME NEW e \in LongEnds
        PROVE  e - 4 \in hits
    <3>1. e \in 3 .. size - 1 /\ CodeAt(e - 3) /\ size \in Nat
      BY BufferIs, EndsAre DEF LongEnds
    <3>2. e >= 4 /\ data[e - 3] = 0
      BY <3>1, BeginIs DEF LongEnds
    <3>3. PICK h \in Nat : e = h + 4 /\ e - 3 = h + 1 /\ e - 4 = h /\ h + 4 <= size
      BY <3>1, <3>2
    <3>4. Bytes(data, h, h + 4) = <<0, 0, 0, 1>>
      BY <3>1, <3>2, <3>3, LongCodeIs
    <3> QED
      BY <3>1, <3>3, <3>4
  <2> QED
    BY <2>1, <2>2
<1>2. {h + 4 : h \in hits} = LongEnds
  <2>1. \A e \in LongEnds : e - 4 + 4 = e
    BY EndsAre, BufferIs DEF LongEnds
  <2> HIDE DEF hits
  <2> QED
    BY <1>1, <2>1
<1>3. Len(<<0, 0, 0, 1>>) = 4
  OBVIOUS
<1>4. <<0, size>>[1] = 0 /\ <<0, size>>[2] = size
  OBVIOUS
<1>5. Split(<<0, size>>, <<0, 0, 0, 1>>) = Parts({0} \cup {h + 4 : h \in hits}, hits \cup {size})
  BY <1>3, <1>4, ZenonT(30) DEF Split, Parts
<1> HIDE DEF hits
<1> DEFINE split == Split(<<0, size>>, <<0, 0, 0, 1>>)
           begins == {0} \cup LongEnds
           ends == LongLimits
<1>6. split = Parts(begins, ends)
  BY <1>1, <1>2, <1>5 DEF LongLimits
<1>7. split = Parts(begins, ends) => \A q : q \in split <=>
         \E c \in begins : \E d \in ends :
            q = <<c, d>> /\ c <= d /\ \A x \in ends : x < c \/ d <= x
  <2> HIDE DEF split, begins, ends
  <2> QED
    BY PartsAre
<1> QED
  BY <1>6, <1>7, Zenon

LEMMA ShortPartsAre ==
  ASSUME data \in Stream, EndsInUnit(data), NEW a \in Nat, NEW b \in Nat, b <= size
  PROVE  \A q : q \in Split(<<a, b>>, <<0, 0, 1>>) <=>
            \E c \in {a} \cup ShortEnds(a, b) : \E d \in ShortLimits(a, b) :
               q = <<c, d>> /\ c <= d /\ \A x \in ShortLimits(a, b) : x < c \/ d <= x
<1> DEFINE hits == {h \in a .. b - 3 : Bytes(data, h, h + 3) = <<0, 0, 1>>}
<1>1. hits = {e - 3 : e \in ShortEnds(a, b)}
  <2>1. ASSUME NEW h \in hits
        PROVE  \E e \in ShortEnds(a, b) : h = e - 3
    <3>1. h \in Nat /\ h + 3 <= size /\ size \in Nat /\ a <= h /\ h + 3 <= b
      BY BufferIs
    <3>2. ShortCodeAt(data, h)
      BY <3>1 DEF ShortCodeAt, size
    <3>3. PICK e \in Nat : e = h + 3 /\ e - 3 = h
      BY <3>1
    <3>4. e \in Seen
      <4>1. h \in 0 .. Len(data) /\ size = Len(data)
        BY <3>1 DEF size
      <4>2. e # size
        <5>1. e = size => h = Len(data) - 3
          BY <3>1, <3>3, <4>1
        <5> QED
          BY <3>2, <5>1 DEF EndsInUnit
      <4>3. e \in CodeEnds(data)
        BY <3>2, <3>3, <4>1 DEF CodeEnds
      <4> QED
        BY <3>1, <3>3, <4>1, <4>2, <4>3 DEF Seen
    <3> QED
      BY <3>1, <3>3, <3>4 DEF ShortEnds
  <2>2. ASSUME NEW e \in ShortEnds(a, b)
        PROVE  e - 3 \in hits
    <3>1. e \in 3 .. size - 1 /\ CodeAt(e - 3) /\ size \in Nat /\ a <= e - 3 /\ e <= b
      BY BufferIs, EndsAre DEF ShortEnds
    <3>2. PICK h \in Nat : e = h + 3 /\ e - 3 = h /\ h + 3 <= size
      BY <3>1
    <3>3. ShortCodeAt(data, h)
      BY <3>1, <3>2, ShortCodeIs
    <3> QED
      BY <3>1, <3>2, <3>3 DEF ShortCodeAt
  <2> QED
    BY <2>1, <2>2
<1>2. {h + 3 : h \in hits} = ShortEnds(a, b)
  <2>1. \A e \in ShortEnds(a, b) : e - 3 + 3 = e
    BY EndsAre, BufferIs DEF ShortEnds
  <2> HIDE DEF hits
  <2> QED
    BY <1>1, <2>1
<1>3. Len(<<0, 0, 1>>) = 3
  OBVIOUS
<1>4. <<a, b>>[1] = a /\ <<a, b>>[2] = b
  OBVIOUS
<1>5. Split(<<a, b>>, <<0, 0, 1>>) = Parts({a} \cup {h + 3 : h \in hits}, hits \cup {b})
  BY <1>3, <1>4, ZenonT(30) DEF Split, Parts
<1> HIDE DEF hits
<1> DEFINE split == Split(<<a, b>>, <<0, 0, 1>>)
           begins == {a} \cup ShortEnds(a, b)
           ends == ShortLimits(a, b)
<1>6. split = Parts(begins, ends)
  BY <1>1, <1>2, <1>5 DEF ShortLimits
<1>7. split = Parts(begins, ends) => \A q : q \in split <=>
         \E c \in begins : \E d \in ends :
            q = <<c, d>> /\ c <= d /\ \A x \in ends : x < c \/ d <= x
  <2> HIDE DEF split, begins, ends
  <2> QED
    BY PartsAre
<1> QED
  BY <1>6, <1>7, Zenon

(* Where the code e is long, no code that lies in a part of the long split *)
(* ends; a code there is short.                                            *)
LEMMA CodesInPart ==
  ASSUME data \in Stream, NEW a \in {0} \cup LongEnds, NEW b \in LongLimits,
         \A x \in LongLimits : x < a \/ b <= x,
         NEW e \in ShortEnds(a, b)
  PROVE  CodeBegin(data, e) = e - 3
<1>1. /\ e \in Seen /\ e \in 3 .. size - 1 /\ size \in Nat
      /\ a <= e - 3 /\ e <= b
  BY EndsAre, BufferIs DEF ShortEnds
<1>2. a \in Nat /\ (a # 0 => a \in Seen)
  BY EndsAre, BufferIs DEF LongEnds
<1>3. ASSUME e >= 4, data[e - 3] = 0
      PROVE  FALSE
  <2>1. CodeBegin(data, e) = e - 4
    BY <1>1, <1>3, BeginIs
  <2>2. e - 4 \in LongLimits
    BY <1>1, <2>1 DEF LongLimits, LongEnds
  <2>3. b \in Nat
    BY EndsAre, BufferIs, BeginIs DEF LongLimits, LongEnds
  <2>4. e - 4 < a
    BY <1>1, <1>2, <2>2, <2>3
  <2>5. a # 0 /\ a < e
    BY <1>1, <1>2, <1>3, <2>4
  <2>6. a <= e - 4
    BY <1>1, <1>2, <2>1, <2>5, EndsApart
  <2> QED
    BY <1>1, <1>2, <2>4, <2>6
<1> QED
  BY <1>1, <1>3, BeginIs

(* What the two splits leave that is not empty. *)
Pieces == {q \in UNION {Split(p, <<0, 0, 1>>) : p \in Split(<<0, size>>, <<0, 0, 0, 1>>)} :
              NotEmpty(q)}

LEMMA LongPlaces ==
  ASSUME data \in Stream
  PROVE  /\ size \in Nat
         /\ \A a \in {0} \cup LongEnds : a \in Nat /\ a < size /\ a \in Starts
         /\ \A e \in LongEnds : e \in Seen /\ e - 4 \in Nat /\ CodeBegin(data, e) = e - 4
         /\ \A b \in LongLimits : b \in Nat /\ b <= size /\ b \in Limits
         /\ \A e \in Seen :
              /\ e \in Nat /\ 3 <= e /\ e < size
              /\ CodeBegin(data, e) = e - 3 \/ e \in LongEnds
<1>1. \A e \in Seen : e \in 3 .. size - 1 /\ CodeBegin(data, e) \in {e - 3, e - 4}
  BY EndsAre, BeginIs
<1>2. \A e \in LongEnds : e \in Seen /\ CodeBegin(data, e) = e - 4 /\ e - 4 \in 0 .. size
  <2> SUFFICES ASSUME NEW e \in LongEnds
               PROVE  e \in Seen /\ CodeBegin(data, e) = e - 4 /\ e - 4 \in 0 .. size
    OBVIOUS
  <2>1. e \in Seen /\ CodeBegin(data, e) = e - 4 /\ e \in 3 .. size - 1 /\ size \in Nat
    BY <1>1, BufferIs DEF LongEnds
  <2>2. CodeBegin(data, e) \in 0 .. e - 3
    BY <2>1, PlacesAre
  <2> QED
    BY <2>1, <2>2
<1>3. \A b \in LongLimits : b = size \/ \E e \in LongEnds : b = e - 4
  BY DEF LongLimits
<1>4. \A b \in LongLimits : b \in Limits
  BY <1>2, <1>3 DEF Limits
<1> QED
  BY <1>1, <1>2, <1>3, <1>4, BufferIs DEF Starts, LongEnds

(* Every piece is a unit. *)
LEMMA PiecesAreUnits ==
  ASSUME data \in Stream, EndsInUnit(data), NEW q \in Pieces
  PROVE  q \in SeenUnits
<1>1. PICK a \in {0} \cup LongEnds : \E b \in LongLimits :
         /\ a <= b /\ \A x \in LongLimits : x < a \/ b <= x
         /\ q \in Split(<<a, b>>, <<0, 0, 1>>) /\ NotEmpty(q)
  <2>1. PICK p \in Split(<<0, size>>, <<0, 0, 0, 1>>) : q \in Split(p, <<0, 0, 1>>) /\ NotEmpty(q)
    BY DEF Pieces
  <2>2. \E a \in {0} \cup LongEnds : \E b \in LongLimits :
           p = <<a, b>> /\ a <= b /\ \A x \in LongLimits : x < a \/ b <= x
    BY LongPartsAre
  <2> QED
    BY <2>1, <2>2
<1>2. PICK b \in LongLimits :
         /\ a <= b /\ \A x \in LongLimits : x < a \/ b <= x
         /\ q \in Split(<<a, b>>, <<0, 0, 1>>) /\ NotEmpty(q)
  BY <1>1
<1>3. /\ a \in Nat /\ a \in Starts /\ b \in Nat /\ b <= size /\ b \in Limits /\ size \in Nat
  BY LongPlaces
<1>4. PICK c \in {a} \cup ShortEnds(a, b) : \E d \in ShortLimits(a, b) :
         q = <<c, d>> /\ c <= d /\ \A x \in ShortLimits(a, b) : x < c \/ d <= x
  BY <1>2, <1>3, ShortPartsAre
<1>5. PICK d \in ShortLimits(a, b) :
         q = <<c, d>> /\ c <= d /\ \A x \in ShortLimits(a, b) : x < c \/ d <= x
  BY <1>4
<1>6. \A e \in ShortEnds(a, b) :
         /\ e \in Seen /\ e \in Nat /\ CodeBegin(data, e) = e - 3
         /\ e - 3 \in ShortLimits(a, b) /\ a <= e - 3 /\ e <= b
  BY <1>2, CodesInPart, LongPlaces DEF ShortEnds, ShortLimits
<1>7. c \in Starts /\ c \in Nat /\ a <= c
  BY <1>3, <1>6 DEF Starts
<1>8. d \in Limits /\ d \in Nat /\ d <= b
  BY <1>3, <1>6, PlacesAre DEF Limits, ShortLimits
<1>9. c < d
  BY <1>2, <1>5 DEF NotEmpty
<1>10. ASSUME NEW x \in Limits, c <= x, x < d
       PROVE  FALSE
  <2>1. x \in Nat /\ x # size
    BY <1>3, <1>8, <1>10, PlacesAre
  <2>2. PICK e \in Seen : x = CodeBegin(data, e)
    BY <2>1 DEF Limits
  <2>3. e \in Nat /\ 3 <= e /\ e < size
    BY LongPlaces
  <2>4. CASE e \in LongEnds
    <3>1. x \in LongLimits
      BY <2>2, <2>4 DEF LongLimits, LongEnds
    <3> QED
      BY <1>2, <1>3, <1>7, <1>8, <1>10, <2>1, <3>1
  <2>5. CASE e \notin LongEnds
    <3>1. x = e - 3
      BY <2>2, <2>5, LongPlaces
    <3>2. e <= b
      <4>1. CASE b = size
        BY <1>3, <2>3, <4>1
      <4>2. ASSUME NEW f \in LongEnds, b = f - 4
            PROVE  e <= b
        <5>1. f \in Seen /\ f \in Nat /\ CodeBegin(data, f) = f - 4
          BY LongPlaces
        <5>2. e < f => e <= f - 4
          BY <5>1, EndsApart
        <5>3. f < e => f <= e - 3
          BY <2>2, <3>1, <5>1, EndsApart
        <5>4. e # f
          BY <2>5
        <5> QED
          BY <1>3, <1>8, <1>10, <2>3, <3>1, <4>2, <5>1, <5>2, <5>3, <5>4
      <4> QED
        BY <4>1, <4>2 DEF LongLimits
    <3>3. e \in ShortEnds(a, b)
      BY <1>3, <1>7, <1>10, <2>3, <3>1, <3>2 DEF ShortEnds
    <3>4. x \in ShortLimits(a, b)
      BY <1>6, <3>1, <3>3
    <3> QED
      BY <1>5, <1>7, <1>8, <1>10, <2>1, <3>4
  <2> QED
    BY <2>4, <2>5
<1>11. \A x \in Limits : x < c \/ d <= x
  BY <1>7, <1>8, <1>10, PlacesAre
<1> QED
  BY <1>5, <1>7, <1>8, <1>9, <1>11, UnitsAre

(* Every unit is a piece. *)
LEMMA UnitsArePieces ==
  ASSUME data \in Stream, EndsInUnit(data), NEW u \in SeenUnits
  PROVE  u \in Pieces
<1>1. PICK c \in Starts : \E d \in Limits :
         u = <<c, d>> /\ c < d /\ \A x \in Limits : x < c \/ d <= x
  BY UnitsAre
<1>2. PICK d \in Limits : u = <<c, d>> /\ c < d /\ \A x \in Limits : x < c \/ d <= x
  BY <1>1
<1>3. c \in Nat /\ d \in Nat /\ d <= size /\ size \in Nat
  BY PlacesAre, BufferIs
<1>4. PICK a \in {0} \cup LongEnds : a <= c /\ \A e \in LongEnds : e <= c => e <= a
  <2> DEFINE back == {c - e : e \in {f \in {0} \cup LongEnds : f <= c}}
  <2>1. back \in SUBSET Nat /\ back # {}
    <3>1. \A f \in {0} \cup LongEnds : f <= c => c - f \in Nat
      BY <1>3, LongPlaces
    <3>2. c - 0 \in back
      BY <1>3
    <3> QED
      BY <3>1, <3>2
  <2>2. PICK m \in back : \A k \in back : m <= k
    BY <2>1, LeastOf
  <2>3. PICK a \in {0} \cup LongEnds : a <= c /\ m = c - a
    BY <2>2
  <2>4. \A e \in LongEnds : e <= c => e <= a
    <3>1. ASSUME NEW e \in LongEnds, e <= c
          PROVE  e <= a
      <4>1. c - a <= c - e
        BY <2>2, <2>3, <3>1
      <4>2. a \in Nat /\ e \in Nat
        BY LongPlaces
      <4> QED
        BY <1>3, <4>1, <4>2
    <3> QED
      BY <3>1
  <2> QED
    BY <2>3, <2>4
<1>5. PICK b \in LongLimits : c <= b /\ \A x \in LongLimits : c <= x => b <= x
  <2> DEFINE after == {x \in LongLimits : c <= x}
  <2>1. after \in SUBSET Nat /\ after # {}
    <3>1. size \in after
      BY <1>2, <1>3 DEF LongLimits
    <3> QED
      BY <3>1, LongPlaces
  <2> QED
    BY <2>1, LeastOf
<1>6. a \in Nat /\ b \in Nat /\ b <= size /\ b \in Limits /\ a \in Starts
  BY LongPlaces
<1>7. d <= b /\ a <= b
  BY <1>2, <1>3, <1>4, <1>5, <1>6
<1>8. ASSUME NEW x \in LongLimits
      PROVE  x < a \/ b <= x
  <2>1. x \in Nat
    BY LongPlaces
  <2>2. CASE c <= x
    BY <1>5, <2>2
  <2>3. CASE x < c
    <3>1. PICK e \in LongEnds : x = e - 4
      BY <1>2, <1>3, <2>3 DEF LongLimits
    <3>2. e \in Seen /\ e \in Nat /\ CodeBegin(data, e) = e - 4
      BY LongPlaces
    <3>3. c \in Seen
      BY <2>1, <2>3 DEF Starts
    <3>4. e <= c
      <4>1. c < e => c <= e - 4
        BY <3>2, <3>3, EndsApart
      <4> QED
        BY <1>3, <2>3, <3>1, <3>2, <4>1
    <3>5. e <= a
      BY <1>4, <3>4
    <3> QED
      BY <1>6, <3>1, <3>2, <3>5
  <2> QED
    BY <1>3, <2>1, <2>2, <2>3
<1>9. <<a, b>> \in Split(<<0, size>>, <<0, 0, 0, 1>>)
  BY <1>7, <1>8, LongPartsAre
<1>10. \A e \in ShortEnds(a, b) :
         /\ e \in Seen /\ e \in Nat /\ CodeBegin(data, e) = e - 3
         /\ a <= e - 3 /\ e <= b
  BY <1>8, CodesInPart, LongPlaces DEF ShortEnds
<1>11. c \in {a} \cup ShortEnds(a, b)
  <2>1. ASSUME c # a
        PROVE  c \in ShortEnds(a, b)
    <3>1. c \in Seen /\ c # 0
      BY <1>3, <1>4, <1>6, <2>1 DEF Starts
    <3>2. c \notin LongEnds
      BY <1>3, <1>4, <1>6, <2>1
    <3>3. CodeBegin(data, c) = c - 3 /\ 3 <= c
      BY <3>1, <3>2, LongPlaces
    <3>4. a <= c - 3
      <4>1. CASE a = 0
        BY <1>3, <3>3, <4>1
      <4>2. CASE a # 0
        BY <1>3, <1>4, <1>6, <2>1, <3>1, <3>3, <4>2, EndsApart DEF Starts
      <4> QED
        BY <4>1, <4>2
    <3> QED
      BY <1>5, <3>1, <3>4 DEF ShortEnds
  <2> QED
    BY <2>1
<1>12. d \in ShortLimits(a, b)
  <2>1. ASSUME d # b
        PROVE  \E e \in ShortEnds(a, b) : d = e - 3
    <3>1. d # size
      BY <1>3, <1>6, <1>7, <2>1
    <3>2. PICK e \in Seen : d = CodeBegin(data, e)
      BY <3>1 DEF Limits
    <3>3. e \in Nat /\ 3 <= e /\ e < size
      BY LongPlaces
    <3>4. e \notin LongEnds
      <4>1. ASSUME e \in LongEnds PROVE FALSE
        <5>1. d \in LongLimits
          BY <3>2, <4>1 DEF LongLimits, LongEnds
        <5> QED
          BY <1>2, <1>3, <1>5, <1>6, <1>7, <2>1, <5>1
      <4> QED
        BY <4>1
    <3>5. d = e - 3
      BY <3>2, <3>4, LongPlaces
    <3>6. e <= b
      <4>1. CASE b = size
        BY <1>3, <3>3, <4>1
      <4>2. ASSUME NEW f \in LongEnds, b = f - 4
            PROVE  e <= b
        <5>1. f \in Seen /\ f \in Nat /\ CodeBegin(data, f) = f - 4
          BY LongPlaces
        <5>2. e < f
          BY <1>7, <3>3, <3>5, <4>2, <5>1
        <5> QED
          BY <4>2, <5>1, <5>2, EndsApart
      <4> QED
        BY <4>1, <4>2 DEF LongLimits
    <3>7. e \in ShortEnds(a, b)
      BY <1>2, <1>3, <1>4, <1>6, <3>3, <3>5, <3>6 DEF ShortEnds
    <3> QED
      BY <3>5, <3>7
  <2> QED
    BY <2>1 DEF ShortLimits
<1>13. \A x \in ShortLimits(a, b) : x < c \/ d <= x
  <2>1. ASSUME NEW e \in ShortEnds(a, b)
        PROVE  e - 3 < c \/ d <= e - 3
    <3>1. e - 3 \in Limits
      BY <1>10 DEF Limits
    <3> QED
      BY <1>2, <3>1
  <2> QED
    BY <1>7, <2>1 DEF ShortLimits
<1>14. u \in Split(<<a, b>>, <<0, 0, 1>>)
  BY <1>2, <1>3, <1>6, <1>11, <1>12, <1>13, ShortPartsAre
<1>15. NotEmpty(u)
  BY <1>2 DEF NotEmpty
<1> QED
  BY <1>9, <1>14, <1>15 DEF Pieces

(* Something follows every start code of a stream that ends in a unit. *)
LEMMA WholeUnits ==
  ASSUME data \in Stream, EndsInUnit(data)
  PROVE  UnitsInOrder(data) = Ordered(SeenUnits)
<1>1. CodeEnds(data) = Seen
  <2>1. ASSUME NEW e \in CodeEnds(data)
        PROVE  e < size
    <3>1. PICK i \in 0 .. Len(data) : ShortCodeAt(data, i) /\ e = i + 3
      BY DEF CodeEnds
    <3>2. i \in Nat /\ i + 3 <= size /\ size = Len(data) /\ size \in Nat
      BY <3>1, BufferIs, ShortCodeIs DEF size
    <3>3. i # Len(data) - 3
      BY <3>1 DEF EndsInUnit
    <3> QED
      BY <3>1, <3>2, <3>3
  <2> QED
    BY <2>1 DEF Seen
<1> QED
  BY <1>1, Zenon DEF UnitsInOrder, Units, SeenUnits

(* The generator starts with the units of the stream, in their order. *)
LEMMA NalusAreUnits ==
  ASSUME data \in Stream, EndsInUnit(data)
  PROVE  Nalus = UnitsInOrder(data)
<1>1. Pieces = SeenUnits
  BY PiecesAreUnits, UnitsArePieces
<1>2. Nalus = Ordered(Pieces)
  BY Zenon DEF Nalus, Pieces
<1> QED
  BY <1>1, <1>2, WholeUnits

(* The units can be enumerated in their order: those that begin before k,  *)
(* for every k.                                                            *)
LEMMA UnitsBefore ==
  ASSUME data \in Stream, NEW k \in Nat
  PROVE  \E q \in Seq(SeenUnits) :
            InOrder(q) /\ \A u \in SeenUnits : u[1] < k <=> Has(q, u)
<1> DEFINE Enumerable(l) == \E q \in Seq(SeenUnits) :
                               InOrder(q) /\ \A u \in SeenUnits : u[1] < l <=> Has(q, u)
           wrong == {l \in Nat : ~Enumerable(l)}
<1>1. SUFFICES ASSUME wrong # {}
               PROVE  FALSE
  OBVIOUS
<1>2. PICK m \in wrong : \A l \in wrong : m <= l
  <2>1. wrong \in SUBSET Nat
    OBVIOUS
  <2> HIDE DEF wrong
  <2> QED
    BY <1>1, <2>1, LeastOf
<1>3. m \in Nat /\ ~Enumerable(m)
  OBVIOUS
<1>4. m # 0
  <2>1. Enumerable(0)
    <3>1. <<>> \in Seq(SeenUnits) /\ InOrder(<<>>) /\ \A u : ~Has(<<>>, u)
      BY DEF InOrder, Has
    <3>2. \A u \in SeenUnits : ~(u[1] < 0)
      BY UnitsAre
    <3> QED
      BY <3>1, <3>2, Zenon
  <2> QED
    BY <1>3, <2>1
<1>5. PICK p \in Nat : m = p + 1
  <2>1. m - 1 \in Nat /\ m = m - 1 + 1
    BY <1>3, <1>4
  <2> QED
    BY <2>1
<1>6. PICK q \in Seq(SeenUnits) :
         InOrder(q) /\ \A u \in SeenUnits : u[1] < p <=> Has(q, u)
  <2>1. p \notin wrong
    <3> HIDE DEF wrong
    <3> QED
      BY <1>2, <1>5
  <2> QED
    BY <2>1
<1> HIDE DEF Enumerable, wrong
<1>7. \A u \in SeenUnits : u[1] \in Nat /\ (u[1] < m <=> u[1] < p \/ u[1] = p)
  BY <1>5, UnitsAre, SMTT(30)
<1>8. CASE \A u \in SeenUnits : u[1] # p
  <2>1. \A u \in SeenUnits : u[1] < m <=> Has(q, u)
    BY <1>6, <1>7, <1>8
  <2> QED
    BY <1>3, <1>6, <2>1 DEF Enumerable
<1>9. ASSUME NEW v \in SeenUnits, v[1] = p
      PROVE  FALSE
  <2>1. v[1] \in Starts
    BY UnitsAre
  <2>2. \A u \in SeenUnits : Has(q, u) => u[2] <= v[1]
    BY <1>6, <1>9, <2>1, UnitsEndBefore
  <2>3. \A u \in SeenUnits : u[1] = p => u = v
    <3>1. ASSUME NEW u \in SeenUnits, u[1] = p
          PROVE  u = v
      <4>1. /\ u = <<u[1], u[2]>> /\ u[2] \in Limits /\ u[2] \in Nat /\ p < u[2]
            /\ \A x \in Limits : x < p \/ u[2] <= x
        BY <3>1, UnitsAre
      <4>2. /\ v = <<v[1], v[2]>> /\ v[2] \in Limits /\ v[2] \in Nat /\ p < v[2]
            /\ \A x \in Limits : x < p \/ v[2] <= x
        BY <1>9, UnitsAre
      <4>3. u[2] = v[2]
        BY <4>1, <4>2
      <4> QED
        BY <1>9, <3>1, <4>1, <4>2, <4>3
    <3> QED
      BY <3>1
  <2>4. PICK r : r = Append(q, v)
    OBVIOUS
  <2>5. /\ r \in Seq(SeenUnits) /\ InOrder(r)
        /\ \A u : Has(r, u) <=> Has(q, u) \/ u = v
    BY <1>6, <2>2, <2>4, AppendInOrder
  <2>6. \A u \in SeenUnits : u[1] < m <=> Has(r, u)
    BY <1>6, <1>7, <1>9, <2>3, <2>5
  <2> QED
    BY <1>3, <2>5, <2>6 DEF Enumerable
<1> QED
  BY <1>8, <1>9

(* UnitsInOrder is a sequence of the units, in their order. *)
LEMMA UnitsInOrderIs ==
  ASSUME data \in Stream, EndsInUnit(data)
  PROVE  /\ UnitsInOrder(data) \in Seq(SeenUnits) /\ InOrder(UnitsInOrder(data))
         /\ \A u \in SeenUnits : Has(UnitsInOrder(data), u)
<1>1. size \in Nat
  BY BufferIs
<1>2. PICK q \in Seq(SeenUnits) :
         InOrder(q) /\ \A u \in SeenUnits : u[1] < size <=> Has(q, u)
  BY <1>1, UnitsBefore
<1>3. \A u \in SeenUnits : u[1] < size
  BY <1>1, UnitsAre
<1>4. \A u \in SeenUnits : Has(q, u)
  BY <1>2, <1>3
<1>5. UnitsInOrder(data) = q
  BY <1>2, <1>4, Enumeration, WholeUnits
<1> QED
  BY <1>2, <1>4, <1>5
-----------------------------------------------------------------------------
(***************************************************************************)
(* The samples.                                                            *)
(***************************************************************************)

(* The type of a unit is in the low five bits of its first byte. *)
LEMMA SliceIs ==
  ASSUME data \in Stream, NEW u \in SeenUnits
  PROVE  NaluType(u) \in {1, 5} <=> IsSlice(u)
<1>1. u[1] + 1 \in 1 .. size
  BY UnitsAre, BufferIs
<1>2. data[u[1] + 1] \in 0 .. 255
  BY <1>1, BufferIs, ConverterAssumption
<1>3. \A b \in 0 .. 255 : b % 32 \in {1, 5} <=> \E high \in 0 .. 7 : b - 32 * high \in {1, 5}
  <2>1. ASSUME NEW b \in 0 .. 255
        PROVE  b \div 32 \in 0 .. 7 /\ b - 32 * (b \div 32) = b % 32
    BY Z3
  <2>2. ASSUME NEW b \in 0 .. 255, NEW high \in 0 .. 7, b - 32 * high \in {1, 5}
        PROVE  b % 32 = b - 32 * high
    BY <2>2, Z3
  <2> QED
    BY <2>1, <2>2
<1> QED
  BY <1>2, <1>3 DEF NaluType, At, IsSlice

GroupInv ==
    /\ nalus \in Seq(SeenUnits)
    /\ samples \in Seq(Seq(SeenUnits)) /\ Len(samples) > 0
    /\ UnitsKept
    /\ OneSlicePerFile

LEMMA GroupInit ==
  ASSUME GenInit, EndsInUnit(data)
  PROVE  GroupInv
<1>1. /\ data \in Stream /\ nalus = Nalus /\ samples = << <<>> >>
  BY DEF GenInit, Init, EndsInUnit, Stream
<1> DEFINE units == UnitsInOrder(data)
           cut == [f \in 0 .. 1 |-> 0]
<1>2. units \in Seq(SeenUnits) /\ Len(units) \in Nat /\ nalus = units
  <2>1. units \in Seq(SeenUnits) /\ nalus = units
    BY <1>1, NalusAreUnits, UnitsInOrderIs
  <2> HIDE DEF units
  <2> QED
    BY <2>1
<1> HIDE DEF units
<1>3. /\ samples \in Seq(Seq(SeenUnits)) /\ Len(samples) = 1
      /\ samples[1] = <<>> /\ Len(samples[1]) = 0
  BY <1>1
<1>4. SubSeq(units, 1, 0) = <<>> /\ SubSeq(units, 1, Len(units)) = units
  BY <1>2, SubSeqEmpty, SubSeqFull
<1>5. UnitsKept
  <2>1. /\ cut \in [0 .. Len(samples) -> 0 .. Len(units)] /\ cut[0] = 0
        /\ \A f \in 1 .. Len(samples) : /\ cut[f - 1] <= cut[f]
                                        /\ samples[f] = SubSeq(units, cut[f - 1] + 1, cut[f])
        /\ nalus = SubSeq(units, cut[Len(samples)] + 1, Len(units))
    <3>1. /\ cut \in [0 .. Len(samples) -> 0 .. Len(units)]
          /\ cut[0] = 0 /\ cut[1] = 0 /\ 0 + 1 = 1 /\ 1 - 1 = 0
      BY <1>2, <1>3
    <3> HIDE DEF cut
    <3>2. 1 .. Len(samples) = {1}
      BY <1>3
    <3> QED
      BY <1>2, <1>3, <1>4, <3>1, <3>2
  <2> QED
    BY <2>1 DEF UnitsKept, units
<1>6. OneSlicePerFile
  BY <1>3 DEF OneSlicePerFile
<1> QED
  BY <1>2, <1>3, <1>5, <1>6 DEF GroupInv

(* What Reduce does to the samples. *)
LEMMA ReduceIs ==
  ASSUME data \in Stream, GroupInv, Reduce,
         NEW n, n = Len(samples), NEW h, h = Head(nalus)
  PROVE  /\ data' = data /\ h \in SeenUnits
         /\ nalus' = Tail(nalus) /\ nalus' \in Seq(SeenUnits)
         /\ n \in Nat /\ n > 0 /\ samples[n] \in Seq(SeenUnits)
         /\ samples' \in Seq(Seq(SeenUnits))
         /\ \A f \in 1 .. n - 1 : samples'[f] = samples[f]
         /\ samples'[n] = Append(samples[n], h)
         /\ ~IsSlice(h) => Len(samples') = n
         /\ IsSlice(h) => Len(samples') = n + 1 /\ samples'[n + 1] = <<>>
<1>1. /\ nalus \in Seq(SeenUnits) /\ nalus # <<>> /\ nalus' = Tail(nalus) /\ data' = data
      /\ samples \in Seq(Seq(SeenUnits)) /\ n \in Nat /\ n > 0
      /\ NaluType(h) \in {1, 5} <=> IsSlice(h)
  BY SliceIs, HeadTailProperties DEF GroupInv, Reduce, vars
<1>2. h \in SeenUnits /\ nalus' \in Seq(SeenUnits)
  BY <1>1, HeadTailProperties
<1> DEFINE grown == [samples EXCEPT ![n] = Append(@, h)]
<1>3. samples' = IF IsSlice(h) THEN Append(grown, <<>>) ELSE grown
  BY <1>1 DEF Reduce
<1>4. Append(samples[n], h) \in Seq(SeenUnits) /\ <<>> \in Seq(SeenUnits)
  BY <1>1, <1>2
<1>5. /\ grown \in Seq(Seq(SeenUnits)) /\ Len(grown) = n
      /\ \A f \in 1 .. n - 1 : grown[f] = samples[f]
      /\ grown[n] = Append(samples[n], h)
  BY <1>1, <1>4
<1> HIDE DEF grown
<1> QED
  BY <1>1, <1>2, <1>3, <1>4, <1>5

LEMMA ReduceKeepsUnits ==
  ASSUME data \in Stream, EndsInUnit(data), GroupInv, Reduce
  PROVE  UnitsKept'
<1> DEFINE units == UnitsInOrder(data)
<1>1. PICK n, h : n = Len(samples) /\ h = Head(nalus)
  OBVIOUS
<1>2. /\ data' = data /\ nalus' = Tail(nalus)
      /\ n \in Nat /\ n > 0 /\ samples[n] \in Seq(SeenUnits) /\ h \in SeenUnits
      /\ samples' \in Seq(Seq(SeenUnits))
      /\ \A f \in 1 .. n - 1 : samples'[f] = samples[f]
      /\ samples'[n] = Append(samples[n], h)
      /\ Len(samples') = n \/ (Len(samples') = n + 1 /\ samples'[n + 1] = <<>>)
  BY <1>1, ReduceIs DEF GroupInv
<1>3. PICK cut \in [0 .. n -> 0 .. Len(units)] :
         /\ cut[0] = 0
         /\ \A f \in 1 .. n : /\ cut[f - 1] <= cut[f]
                              /\ samples[f] = SubSeq(units, cut[f - 1] + 1, cut[f])
         /\ nalus = SubSeq(units, cut[n] + 1, Len(units))
  BY <1>1 DEF GroupInv, UnitsKept
<1>4. units \in Seq(SeenUnits) /\ Len(units) \in Nat /\ units' = units
  <2>1. units \in Seq(SeenUnits) /\ units' = units
    BY <1>2, UnitsInOrderIs
  <2> HIDE DEF units
  <2> QED
    BY <2>1
<1> HIDE DEF units
<1>5. PICK c \in Nat : c = cut[n] /\ c < Len(units)
  <2>1. cut[n] \in 0 .. Len(units)
    BY <1>2
  <2>2. nalus # <<>>
    BY DEF Reduce
  <2>3. cut[n] # Len(units)
    BY <1>3, <1>4, <2>2, SubSeqEmpty
  <2> QED
    BY <1>4, <2>1, <2>3
<1>6. h = units[c + 1] /\ nalus' = SubSeq(units, c + 2, Len(units))
  <2>1. c + 1 \in 1 .. Len(units) /\ Len(units) \in c + 1 .. Len(units) /\ c + 1 + 1 = c + 2
    BY <1>4, <1>5
  <2>2. /\ Head(SubSeq(units, c + 1, Len(units))) = units[c + 1]
        /\ Tail(SubSeq(units, c + 1, Len(units))) = SubSeq(units, c + 1 + 1, Len(units))
    BY <1>4, <2>1, HeadTailOfSubSeq
  <2>3. nalus = SubSeq(units, c + 1, Len(units))
    BY <1>3, <1>5
  <2> QED
    BY <1>1, <1>2, <2>1, <2>2, <2>3, Zenon
<1>7. samples'[n] = SubSeq(units, cut[n - 1] + 1, c + 1) /\ cut[n - 1] <= c
  <2>0. n \in 1 .. n /\ n - 1 \in 0 .. n
    BY <1>2
  <2>1. /\ cut[n - 1] <= c /\ cut[n - 1] \in Nat
        /\ samples[n] = SubSeq(units, cut[n - 1] + 1, c)
    <3>1. cut[n - 1] \in 0 .. Len(units)
      BY <2>0
    <3>2. cut[n - 1] <= cut[n] /\ samples[n] = SubSeq(units, cut[n - 1] + 1, cut[n])
      BY <1>3, <2>0
    <3> QED
      BY <1>5, <3>1, <3>2
  <2>2. /\ cut[n - 1] + 1 \in 1 .. Len(units) /\ c + 1 \in cut[n - 1] + 1 .. Len(units)
        /\ c + 1 - 1 = c
    BY <1>4, <1>5, <2>1
  <2>3. SubSeq(units, cut[n - 1] + 1, c + 1) = samples[n] \o <<h>>
    <3>1. PICK i, j : i = cut[n - 1] + 1 /\ j = c + 1 /\ j - 1 = c
      BY <1>5
    <3>2. i \in 1 .. Len(units) /\ j \in i .. Len(units)
      BY <2>2, <3>1
    <3>3. SubSeq(units, i, j) = SubSeq(units, i, j - 1) \o <<units[j]>>
      BY <1>4, <3>2, SubSeqRecursiveSecond
    <3>4. SubSeq(units, i, j - 1) = samples[n] /\ units[j] = h
      BY <1>6, <2>1, <3>1, Zenon
    <3>5. SubSeq(units, i, j) = samples[n] \o <<h>>
      BY <3>3, <3>4
    <3> QED
      BY <3>1, <3>5, Zenon
  <2>4. Append(samples[n], h) = samples[n] \o <<h>>
    BY <1>2, AppendIsConcat
  <2> QED
    BY <1>2, <2>1, <2>3, <2>4, Zenon
<1>8. PICK m \in Nat : m = Len(samples') /\ (m = n \/ m = n + 1) /\ n \in Nat
  BY <1>2
<1> DEFINE next == [f \in 0 .. m |-> IF f < n THEN cut[f] ELSE c + 1]
<1>9. /\ next \in [0 .. m -> 0 .. Len(units)] /\ next[0] = 0
      /\ \A f \in 0 .. m : next[f] = IF f < n THEN cut[f] ELSE c + 1
  <2>1. \A f \in 0 .. m : f < n => cut[f] \in 0 .. Len(units)
    BY <1>2, <1>8
  <2>2. c + 1 \in 0 .. Len(units)
    BY <1>4, <1>5
  <2>3. next \in [0 .. m -> 0 .. Len(units)]
    BY <2>1, <2>2
  <2>4. 0 \in 0 .. m /\ 0 < n
    BY <1>2, <1>8
  <2> QED
    BY <1>3, <2>3, <2>4
<1> HIDE DEF next
<1>10. ASSUME NEW f \in 1 .. m
       PROVE  next[f - 1] <= next[f] /\ samples'[f] = SubSeq(units, next[f - 1] + 1, next[f])
  <2>1. f - 1 \in 0 .. m /\ f \in 0 .. m
    BY <1>8
  <2>2. CASE f < n
    <3>1. f \in 1 .. n - 1 /\ f \in 1 .. n /\ f - 1 < n
      BY <1>2, <2>2
    <3> QED
      BY <1>2, <1>3, <1>9, <2>1, <2>2, <3>1
  <2>3. CASE f = n
    <3>1. f - 1 < n /\ ~(f < n) /\ n - 1 \in 0 .. n
      BY <1>2, <2>3
    <3>2. next[f - 1] = cut[n - 1] /\ next[f] = c + 1 /\ cut[n - 1] \in Nat
      BY <1>9, <2>1, <2>3, <3>1
    <3>3. cut[n - 1] <= c + 1
      BY <1>5, <1>7, <3>2
    <3> QED
      BY <1>7, <2>3, <3>2, <3>3
  <2>4. CASE f = n + 1
    <3>1. f - 1 = n /\ ~(f < n) /\ ~(f - 1 < n) /\ m = n + 1
      BY <1>2, <1>8, <2>4
    <3>2. samples'[f] = <<>>
      BY <1>2, <1>8, <2>4, <3>1
    <3>3. SubSeq(units, c + 1 + 1, c + 1) = <<>>
      BY <1>5, SubSeqEmpty
    <3> QED
      BY <1>5, <1>9, <2>1, <3>1, <3>2, <3>3
  <2>5. f < n \/ f = n \/ f = n + 1
    BY <1>2, <1>8
  <2> QED
    BY <2>2, <2>3, <2>4, <2>5
<1>11. nalus' = SubSeq(units, next[m] + 1, Len(units))
  <2>1. m \in 0 .. m /\ ~(m < n) /\ c + 1 + 1 = c + 2
    BY <1>8
  <2>2. next[m] = c + 1
    BY <1>9, <2>1
  <2> QED
    BY <1>6, <2>1, <2>2
<1>12. \E k \in [0 .. m -> 0 .. Len(units)] :
         /\ k[0] = 0
         /\ \A f \in 1 .. m : /\ k[f - 1] <= k[f]
                              /\ samples'[f] = SubSeq(units, k[f - 1] + 1, k[f])
         /\ nalus' = SubSeq(units, k[m] + 1, Len(units))
  BY <1>9, <1>10, <1>11
<1> QED
  BY <1>2, <1>8, <1>12 DEF UnitsKept, units

LEMMA ReduceKeepsSlices ==
  ASSUME data \in Stream, GroupInv, Reduce
  PROVE  OneSlicePerFile'
<1>1. PICK n, h : n = Len(samples) /\ h = Head(nalus)
  OBVIOUS
<1>2. PICK m \in Nat : m = Len(samples')
  BY <1>1, ReduceIs
<1>3. /\ data' = data /\ n \in Nat /\ n > 0 /\ h \in SeenUnits
      /\ samples[n] \in Seq(SeenUnits) /\ samples' \in Seq(Seq(SeenUnits))
      /\ \A f \in 1 .. n - 1 : samples'[f] = samples[f]
      /\ samples'[n] = Append(samples[n], h)
      /\ ~IsSlice(h) => m = n
      /\ IsSlice(h) => m = n + 1 /\ samples'[n + 1] = <<>>
  BY <1>1, <1>2, ReduceIs DEF GroupInv
<1>4. /\ \A f \in 1 .. n - 1 : samples[f] # <<>>
      /\ \A f \in 1 .. n : \A k \in 1 .. Len(samples[f]) :
            IsSlice(samples[f][k]) <=> k = Len(samples[f]) /\ f < n
  BY <1>1 DEF GroupInv, OneSlicePerFile
<1>5. PICK l \in Nat :
         /\ l = Len(samples[n]) /\ Len(samples'[n]) = l + 1 /\ samples'[n] # <<>>
         /\ \A k \in 1 .. l : samples'[n][k] = samples[n][k]
         /\ samples'[n][l + 1] = h
  <2> DEFINE old == samples[n]
             new == samples'[n]
  <2>1. old \in Seq(SeenUnits) /\ new = Append(old, h) /\ h \in SeenUnits
    BY <1>3
  <2> HIDE DEF old, new
  <2>2. /\ Len(old) \in Nat /\ Len(new) = Len(old) + 1 /\ new # <<>>
        /\ \A k \in 1 .. Len(old) : new[k] = old[k]
        /\ new[Len(old) + 1] = h
    BY <2>1, AppendProperties, LenProperties
  <2> QED
    BY <2>2 DEF old, new
<1>6. \A f \in 1 .. m - 1 : samples'[f] # <<>>
  <2> SUFFICES ASSUME NEW f \in 1 .. m - 1
               PROVE  samples'[f] # <<>>
    OBVIOUS
  <2>1. f \in 1 .. n - 1 \/ f = n
    BY <1>3
  <2> QED
    BY <1>3, <1>4, <1>5, <2>1
<1>7. \A f \in 1 .. m : \A k \in 1 .. Len(samples'[f]) :
         IsSlice(samples'[f][k]) <=> k = Len(samples'[f]) /\ f < m
  <2> SUFFICES ASSUME NEW f \in 1 .. m, NEW k \in 1 .. Len(samples'[f])
               PROVE  IsSlice(samples'[f][k]) <=> k = Len(samples'[f]) /\ f < m
    OBVIOUS
  <2>1. CASE f \in 1 .. n - 1
    <3>1. f \in 1 .. n /\ f < n /\ f < m
      BY <1>3, <2>1
    <3> QED
      BY <1>3, <1>4, <2>1, <3>1
  <2>2. CASE f = n
    <3>1. CASE k = l + 1
      BY <1>3, <1>5, <2>2, <3>1
    <3>2. CASE k # l + 1
      <4>1. k \in 1 .. l /\ n \in 1 .. n
        BY <1>3, <1>5, <2>2, <3>2
      <4>2. ~IsSlice(samples[n][k])
        BY <1>3, <1>4, <1>5, <4>1
      <4> QED
        BY <1>5, <2>2, <3>2, <4>1, <4>2
    <3> QED
      BY <3>1, <3>2
  <2>3. CASE f = n + 1
    <3>1. samples'[f] = <<>>
      BY <1>3, <2>3
    <3> QED
      BY <3>1
  <2>4. f \in 1 .. n - 1 \/ f = n \/ f = n + 1
    BY <1>3
  <2> QED
    BY <2>1, <2>2, <2>3, <2>4
<1> QED
  BY <1>2, <1>3, <1>6, <1>7 DEF OneSlicePerFile, IsSlice

LEMMA GroupStep ==
  ASSUME data \in Stream, EndsInUnit(data), GroupInv, [GenNext]_genVars
  PROVE  GroupInv'
<1>1. CASE Reduce
  <2>1. PICK n, h : n = Len(samples) /\ h = Head(nalus)
    OBVIOUS
  <2>2. /\ data' = data /\ nalus' \in Seq(SeenUnits)
        /\ samples' \in Seq(Seq(SeenUnits)) /\ Len(samples') > 0
    BY <1>1, <2>1, ReduceIs
  <2>3. SeenUnits' = SeenUnits
    BY <2>2 DEF SeenUnits, Seen, size
  <2> QED
    BY <1>1, <2>2, <2>3, ReduceKeepsUnits, ReduceKeepsSlices DEF GroupInv
<1>2. ASSUME UNCHANGED <<data, nalus, samples>>
      PROVE  GroupInv'
  <2>1. SeenUnits' = SeenUnits
    BY <1>2 DEF SeenUnits, Seen, size
  <2> QED
    BY <1>2, <2>1, ZenonT(40) DEF GroupInv, UnitsKept, OneSlicePerFile, IsSlice
<1>3. CASE [Next]_vars /\ UNCHANGED <<nalus, samples>>
  BY <1>2, <1>3 DEF Next, Turn, SearchPastTheEnd, EndOfLoop, LastUnit, vars
<1> QED
  BY <1>1, <1>2, <1>3 DEF GenNext, genVars, vars, MergeUnit, ParseUnit, NextFile, Done
-----------------------------------------------------------------------------
(***************************************************************************)
(* The files.                                                              *)
(***************************************************************************)
Length(u) == u[2] - u[1]

Octet == 0 .. 255

LEMMA UnitBytes ==
  ASSUME data \in Stream, NEW u \in SeenUnits
  PROVE  /\ Length(u) \in 1 .. size
         /\ Bytes(data, u[1], u[2]) \in Seq(Octet)
         /\ Len(Bytes(data, u[1], u[2])) = Length(u)
         /\ \A i \in 1 .. Length(u) : Bytes(data, u[1], u[2])[i] = data[u[1] + i]
<1>1. PICK a, b : u[1] = a /\ u[2] = b
  OBVIOUS
<1>2. a \in Nat /\ b \in Nat /\ a < b /\ b <= size /\ size \in Nat
  BY <1>1, UnitsAre, BufferIs
<1>3. \A i \in a + 1 .. b : data[i] \in Octet
  <2>1. \A i \in a + 1 .. b : i \in 1 .. size
    BY <1>2
  <2>2. \A i \in 1 .. size : data[i] \in Octet
    BY BufferIs, ConverterAssumption DEF Octet
  <2> QED
    BY <2>1, <2>2
<1> DEFINE q == SubSeq(data, a + 1, b)
<1>4. /\ q \in Seq(Octet)
      /\ Len(q) = IF a + 1 <= b THEN b - (a + 1) + 1 ELSE 0
      /\ \A i \in 1 .. b - (a + 1) + 1 : q[i] = data[a + 1 + i - 1]
  BY <1>2, <1>3, SubSeqProperties
<1>5. Bytes(data, u[1], u[2]) = q
  BY <1>1 DEF Bytes
<1> HIDE DEF q
<1>6. Len(q) = b - a /\ \A i \in 1 .. b - a : q[i] = data[a + i]
  <2>1. Len(q) = b - a /\ b - (a + 1) + 1 = b - a
    BY <1>2, <1>4
  <2>2. ASSUME NEW i \in 1 .. b - a
        PROVE  q[i] = data[a + i]
    <3>1. a + 1 + i - 1 = a + i
      BY <1>2
    <3>2. q[i] = data[a + 1 + i - 1]
      BY <1>4, <2>1
    <3> QED
      BY <3>1, <3>2
  <2> QED
    BY <2>1, <2>2
<1>7. b - a \in 1 .. size
  BY <1>2
<1> QED
  BY <1>1, <1>4, <1>5, <1>6, <1>7 DEF Length

LEMMA OctetIs == \A x : x \in Octet <=> x \in Nat /\ x < 256
BY DEF Octet

LEMMA HalvesAre ==
  ASSUME NEW n \in Nat, NEW high, NEW low, high = n \div Half, low = n % Half
  PROVE  high \in Nat /\ low \in Nat /\ low < Half /\ Half * high + low = n
BY SMT DEF Half

LEMMA BytesAre ==
  ASSUME NEW n \in Nat, n < Half, NEW high, NEW low, high = n \div 256, low = n % 256
  PROVE  high \in Octet /\ low \in Octet /\ 256 * high + low = n
<1>1. high \in Nat /\ high < 256 /\ low \in Nat /\ low < 256 /\ 256 * high + low = n
  BY SMT DEF Half
<1> QED
  BY <1>1, OctetIs, SMT

(* The four bytes of a length stand for it, as long as it fits. *)
LEMMA BigEndianIs ==
  ASSUME data \in Stream, NEW n \in 0 .. size
  PROVE  /\ BigEndian(n) \in Seq(Octet) /\ Len(BigEndian(n)) = 4
         /\ Half * (256 * BigEndian(n)[1] + BigEndian(n)[2])
              + (256 * BigEndian(n)[3] + BigEndian(n)[4]) = n
<1>3. n \in Nat /\ n <= MaxSize /\ MaxSize \in Nat
  BY BufferIs, ConverterAssumption
<1>4. PICK high, low : high = n \div Half /\ low = n % Half
  OBVIOUS
<1>5. high \in Nat /\ low \in Nat /\ low < Half /\ Half * high + low = n
  BY <1>3, <1>4, HalvesAre, SMT
<1>6. high < Half
  BY <1>3, <1>4, GeneratorAssumption, SMT DEF Half
<1>7. PICK a, b, c, d : /\ a = high \div 256 /\ b = high % 256
                        /\ c = low \div 256 /\ d = low % 256
  OBVIOUS
<1>8. a \in Octet /\ b \in Octet /\ 256 * a + b = high
  BY <1>5, <1>6, <1>7, BytesAre, SMT
<1>9. c \in Octet /\ d \in Octet /\ 256 * c + d = low
  BY <1>5, <1>7, BytesAre, SMT
<1>10. BigEndian(n) = <<a, b, c, d>>
  BY <1>4, <1>7, SMT DEF BigEndian
<1>11. BigEndian(n) \in Seq(Octet) /\ Len(BigEndian(n)) = 4
  BY <1>8, <1>9, <1>10
<1> QED
  BY <1>5, <1>8, <1>9, <1>10, <1>11, SMT

\* The units 1 .. n, each after its length, are the bytes; unit k lies behind
\* off[k - 1], up to off[k].
LaidOut(off, units, n, bytes) ==
    /\ bytes \in Seq(Octet)
    /\ off \in [0 .. n -> Nat] /\ off[0] = 0 /\ off[n] = Len(bytes)
    /\ \A k \in 1 .. n :
          /\ off[k] = off[k - 1] + 4 + Length(units[k]) /\ off[k] <= Len(bytes)
          /\ \A i \in 1 .. 4 : bytes[off[k - 1] + i] = BigEndian(Length(units[k]))[i]
          /\ \A i \in 1 .. Length(units[k]) : bytes[off[k - 1] + 4 + i] = data[units[k][1] + i]

\* c is a and then b
Joins(c, a, b) ==
    /\ c \in Seq(Octet) /\ Len(a) \in Nat /\ Len(c) = Len(a) + Len(b)
    /\ \A i \in 1 .. Len(a) : c[i] = a[i]
    /\ \A i \in 1 .. Len(b) : c[Len(a) + i] = b[i]

LEMMA ConcatIs ==
  ASSUME NEW a \in Seq(Octet), NEW b \in Seq(Octet)
  PROVE  Joins(a \o b, a, b)
<1> DEFINE c == a \o b
<1>1. /\ c \in Seq(Octet) /\ Len(c) = Len(a) + Len(b)
      /\ \A i \in 1 .. Len(a) + Len(b) : c[i] = IF i <= Len(a) THEN a[i] ELSE b[i - Len(a)]
  BY ConcatProperties
<1> HIDE DEF c
<1>2. PICK l \in Nat, m \in Nat : l = Len(a) /\ m = Len(b)
  OBVIOUS
<1>3. \A i \in 1 .. l : c[i] = a[i]
  BY <1>1, <1>2
<1>4. ASSUME NEW i \in 1 .. m
      PROVE  c[l + i] = b[i]
  <2>1. PICK j \in 1 .. l + m : j = l + i /\ j - l = i /\ ~(j <= l)
    OBVIOUS
  <2>2. c[j] = b[j - l]
    BY <1>1, <1>2, <2>1
  <2> QED
    BY <2>1, <2>2
<1> QED
  BY <1>1, <1>2, <1>3, <1>4 DEF Joins, c

LEMMA LaidOutNext ==
  ASSUME data \in Stream, NEW units \in Seq(SeenUnits), NEW n \in Nat, n < Len(units),
         NEW off, NEW bytes, LaidOut(off, units, n, bytes),
         NEW u, u = units[n + 1],
         NEW new, new = bytes \o BigEndian(Length(u)) \o Bytes(data, u[1], u[2])
  PROVE  \E o : LaidOut(o, units, n + 1, new)
<1>1. u \in SeenUnits
  OBVIOUS
<1> DEFINE code == BigEndian(Length(u))
           load == Bytes(data, u[1], u[2])
<1>2. /\ code \in Seq(Octet) /\ Len(code) = 4
      /\ load \in Seq(Octet) /\ Len(load) = Length(u)
      /\ \A i \in 1 .. Length(u) : load[i] = data[u[1] + i]
  <2>1. Length(u) \in 0 .. size
    BY <1>1, UnitBytes
  <2> QED
    BY <1>1, <2>1, UnitBytes, BigEndianIs
<1>3. Length(u) \in Nat
  BY <1>1, UnitBytes
<1>4. /\ bytes \in Seq(Octet) /\ Len(bytes) \in Nat /\ off \in [0 .. n -> Nat]
      /\ off[0] = 0 /\ off[n] = Len(bytes)
  BY DEF LaidOut
<1>5. new = (bytes \o code) \o load
  OBVIOUS
<1> HIDE DEF code, load
<1>6. PICK front : front = bytes \o code
  OBVIOUS
<1>7. new = front \o load
  BY <1>5, <1>6
<1>8. PICK l \in Nat : l = Len(bytes)
  BY <1>4
<1>9. /\ front \in Seq(Octet) /\ Len(front) = l + 4
      /\ \A i \in 1 .. l : front[i] = bytes[i]
      /\ \A i \in 1 .. 4 : front[l + i] = code[i]
  <2>0. Joins(front, bytes, code)
    BY <1>2, <1>4, <1>6, ConcatIs
  <2>1. /\ front \in Seq(Octet) /\ Len(front) = Len(bytes) + Len(code)
        /\ \A i \in 1 .. Len(bytes) : front[i] = bytes[i]
        /\ \A i \in 1 .. Len(code) : front[Len(bytes) + i] = code[i]
    BY <2>0 DEF Joins
  <2> QED
    BY <1>2, <1>8, <2>1
<1>10. /\ new \in Seq(Octet) /\ Len(new) = l + 4 + Length(u)
       /\ \A i \in 1 .. l : new[i] = bytes[i]
       /\ \A i \in 1 .. 4 : new[l + i] = code[i]
       /\ \A i \in 1 .. Length(u) : new[l + 4 + i] = data[u[1] + i]
  <2>1. /\ new \in Seq(Octet) /\ Len(new) = l + 4 + Length(u)
        /\ \A i \in 1 .. l + 4 : new[i] = front[i]
        /\ \A i \in 1 .. Length(u) : new[l + 4 + i] = load[i]
    <3>0. Joins(new, front, load)
      BY <1>2, <1>7, <1>9, ConcatIs
    <3>1. /\ new \in Seq(Octet) /\ Len(new) = Len(front) + Len(load)
          /\ \A i \in 1 .. Len(front) : new[i] = front[i]
          /\ \A i \in 1 .. Len(load) : new[Len(front) + i] = load[i]
      BY <3>0 DEF Joins
    <3> QED
      BY <1>2, <1>9, <3>1
  <2>2. \A i \in 1 .. l : i \in 1 .. l + 4
    OBVIOUS
  <2>3. \A i \in 1 .. 4 : l + i \in 1 .. l + 4
    OBVIOUS
  <2> QED
    BY <1>2, <1>9, <2>1, <2>2, <2>3
<1> DEFINE o == [k \in 0 .. n + 1 |-> IF k <= n THEN off[k] ELSE l + 4 + Length(u)]
<1>11. /\ o \in [0 .. n + 1 -> Nat] /\ o[n + 1] = l + 4 + Length(u)
       /\ \A k \in 0 .. n : o[k] = off[k]
  BY <1>3, <1>4
<1> HIDE DEF o
<1>12. ASSUME NEW k \in 1 .. n + 1
       PROVE  /\ o[k] = o[k - 1] + 4 + Length(units[k]) /\ o[k] <= Len(new)
              /\ \A i \in 1 .. 4 : new[o[k - 1] + i] = BigEndian(Length(units[k]))[i]
              /\ \A i \in 1 .. Length(units[k]) :
                    new[o[k - 1] + 4 + i] = data[units[k][1] + i]
  <2>1. CASE k = n + 1
    <3>1. o[k - 1] = l /\ units[k] = u /\ o[k] = l + 4 + Length(u)
      <4>1. k - 1 = n /\ n \in 0 .. n
        BY <2>1
      <4> QED
        BY <1>4, <1>8, <1>11, <2>1, <4>1
    <3>2. o[k] <= Len(new)
      BY <1>3, <1>10, <3>1
    <3> QED
      BY <1>10, <3>1, <3>2 DEF code
  <2>2. CASE k # n + 1
    <3>1. k \in 1 .. n /\ k \in 0 .. n /\ k - 1 \in 0 .. n
      BY <2>2
    <3>2. PICK a \in Nat : a = off[k - 1] /\ a = o[k - 1]
      BY <1>4, <1>11, <3>1
    <3>3. PICK v \in SeenUnits : v = units[k]
      BY <3>1
    <3>4. /\ o[k] = a + 4 + Length(v) /\ o[k] <= l
          /\ \A i \in 1 .. 4 : bytes[a + i] = BigEndian(Length(v))[i]
          /\ \A i \in 1 .. Length(v) : bytes[a + 4 + i] = data[v[1] + i]
      <4>1. /\ off[k] = off[k - 1] + 4 + Length(units[k]) /\ off[k] <= Len(bytes)
            /\ \A i \in 1 .. 4 : bytes[off[k - 1] + i] = BigEndian(Length(units[k]))[i]
            /\ \A i \in 1 .. Length(units[k]) :
                  bytes[off[k - 1] + 4 + i] = data[units[k][1] + i]
        BY <3>1 DEF LaidOut
      <4>2. o[k] = off[k]
        BY <1>11, <3>1
      <4>3. off[k] = a + 4 + Length(v) /\ off[k] <= l
        BY <1>8, <3>2, <3>3, <4>1
      <4>4. /\ \A i \in 1 .. 4 : bytes[a + i] = BigEndian(Length(v))[i]
            /\ \A i \in 1 .. Length(v) : bytes[a + 4 + i] = data[v[1] + i]
        BY <3>2, <3>3, <4>1, Zenon
      <4> QED
        BY <4>2, <4>3, <4>4, Zenon
    <3>5. Length(v) \in Nat
      BY UnitBytes
    <3>6. \A i \in 1 .. 4 : new[a + i] = BigEndian(Length(v))[i]
      <4> SUFFICES ASSUME NEW i \in 1 .. 4
                   PROVE  new[a + i] = BigEndian(Length(v))[i]
        OBVIOUS
      <4>1. a + i \in 1 .. l
        BY <3>4, <3>5
      <4> QED
        BY <1>10, <3>4, <4>1
    <3>7. \A i \in 1 .. Length(v) : new[a + 4 + i] = data[v[1] + i]
      <4> SUFFICES ASSUME NEW i \in 1 .. Length(v)
                   PROVE  new[a + 4 + i] = data[v[1] + i]
        OBVIOUS
      <4>1. a + 4 + i \in 1 .. l
        BY <3>4, <3>5
      <4> QED
        BY <1>10, <3>4, <4>1
    <3>8. o[k] <= Len(new)
      <4>1. Len(new) = l + 4 + Length(u)
        BY <1>10
      <4>2. o[k] <= l /\ o[k] \in Nat
        BY <3>4, <3>5
      <4> QED
        BY <1>3, <4>1, <4>2
    <3> QED
      BY <3>2, <3>3, <3>4, <3>6, <3>7, <3>8
  <2> QED
    BY <2>1, <2>2
<1>13. o[0] = 0 /\ o[n + 1] = Len(new)
  <2>1. o[0] = 0
    BY <1>4, <1>11
  <2>2. o[n + 1] = Len(new)
    BY <1>10, <1>11
  <2> QED
    BY <2>1, <2>2
<1>14. LaidOut(o, units, n + 1, new)
  BY <1>10, <1>11, <1>12, <1>13 DEF LaidOut
<1> QED
  BY <1>14

Decoded(bytes, o) ==
    Half * (256 * bytes[o + 1] + bytes[o + 2]) + (256 * bytes[o + 3] + bytes[o + 4])

(* The length before unit k, as the parser reads it; and where the unit is. *)
LEMMA LengthIs ==
  ASSUME data \in Stream, NEW units \in Seq(SeenUnits), NEW n \in Nat, n <= Len(units),
         NEW off, NEW bytes, LaidOut(off, units, n, bytes),
         NEW k \in 1 .. n, NEW o, o = off[k - 1]
  PROVE  /\ o \in Nat /\ units[k] \in SeenUnits
         /\ Length(units[k]) \in Nat /\ Length(units[k]) > 0
         /\ Decoded(bytes, o) = Length(units[k])
         /\ off[k] = o + 4 + Length(units[k]) /\ off[k] <= Len(bytes)
<1>1. k - 1 \in 0 .. n /\ k \in 1 .. Len(units)
  OBVIOUS
<1>2. o \in Nat /\ units[k] \in SeenUnits
  BY <1>1 DEF LaidOut
<1>3. PICK l : l = Length(units[k])
  OBVIOUS
<1>4. l \in 1 .. size
  BY <1>2, <1>3, UnitBytes
<1>5. l \in Nat /\ l > 0 /\ l \in 0 .. size
  BY <1>4, BufferIs
<1>6. \A i \in 1 .. 4 : bytes[o + i] = BigEndian(l)[i]
  BY <1>3 DEF LaidOut
<1>7. /\ bytes[o + 1] = BigEndian(l)[1] /\ bytes[o + 2] = BigEndian(l)[2]
      /\ bytes[o + 3] = BigEndian(l)[3] /\ bytes[o + 4] = BigEndian(l)[4]
  BY <1>6
<1>8. Half * (256 * BigEndian(l)[1] + BigEndian(l)[2])
        + (256 * BigEndian(l)[3] + BigEndian(l)[4]) = l
  BY <1>5, BigEndianIs
<1>9. Decoded(bytes, o) = l
  BY <1>7, <1>8, ZenonT(30) DEF Decoded
<1>10. off[k] = o + 4 + l /\ off[k] <= Len(bytes)
  BY <1>3 DEF LaidOut
<1> QED
  BY <1>2, <1>3, <1>5, <1>9, <1>10

\* What the parser found, up to its offset, are the first of the units.
FileIs(off, units, n, bytes, o, f) ==
    /\ LaidOut(off, units, n, bytes)
    /\ Len(f) <= n /\ o = off[Len(f)]
    /\ \A k \in 1 .. Len(f) : f[k] = <<off[k - 1] + 4, off[k]>>
    /\ n < Len(units) => f = <<>>

LEMMA EmptyFileIs ==
  ASSUME NEW units
  PROVE  \E off : FileIs(off, units, 0, <<>>, 0, <<>>)
<1> DEFINE off == [k \in 0 .. 0 |-> 0]
<1>1. off \in [0 .. 0 -> Nat] /\ off[0] = 0
  OBVIOUS
<1> HIDE DEF off
<1>2. <<>> \in Seq(Octet) /\ Len(<<>>) = 0
  OBVIOUS
<1>3. LaidOut(off, units, 0, <<>>)
  BY <1>1, <1>2 DEF LaidOut
<1>4. FileIs(off, units, 0, <<>>, 0, <<>>)
  BY <1>1, <1>2, <1>3 DEF FileIs
<1> QED
  BY <1>4

(* The parser is at the end of the file only when it has found all units.  *)
LEMMA EndIs ==
  ASSUME data \in Stream, NEW units \in Seq(SeenUnits), NEW n \in Nat, n <= Len(units),
         NEW off, NEW bytes, NEW o, NEW f \in Seq(Nat \X Nat), FileIs(off, units, n, bytes, o, f)
  PROVE  /\ o \in Nat /\ Len(bytes) \in Nat
         /\ o < Len(bytes) => Len(f) < n
         /\ o >= Len(bytes) => Len(f) = n
<1>1. /\ LaidOut(off, units, n, bytes) /\ Len(f) \in Nat /\ Len(f) <= n /\ o = off[Len(f)]
      /\ off \in [0 .. n -> Nat] /\ off[n] = Len(bytes) /\ bytes \in Seq(Octet)
  <2>1. LaidOut(off, units, n, bytes) /\ Len(f) <= n /\ o = off[Len(f)]
    BY DEF FileIs
  <2>2. off \in [0 .. n -> Nat] /\ off[n] = Len(bytes) /\ bytes \in Seq(Octet)
    BY <2>1 DEF LaidOut
  <2>3. Len(f) \in Nat
    BY LenProperties
  <2> QED
    BY <2>1, <2>2, <2>3
<1>2. o \in Nat /\ Len(bytes) \in Nat
  BY <1>1
<1>3. o < Len(bytes) => Len(f) # n
  BY <1>1, <1>2
<1>4. ASSUME Len(f) < n
      PROVE  o < Len(bytes)
  <2>1. PICK k \in 1 .. n : k = Len(f) + 1 /\ k - 1 = Len(f)
    BY <1>1, <1>4
  <2>2. /\ off[k] = o + 4 + Length(units[k]) /\ off[k] <= Len(bytes)
        /\ Length(units[k]) \in Nat
    <3>1. o = off[k - 1]
      BY <1>1, <2>1
    <3>2. LaidOut(off, units, n, bytes)
      BY <1>1
    <3> QED
      BY <3>1, <3>2, LengthIs
  <2> QED
    BY <1>2, <2>2
<1> QED
  BY <1>1, <1>2, <1>3, <1>4

FileInv ==
    /\ index \in Nat /\ index > 0 /\ merged \in Nat /\ found \in Seq(Nat \X Nat)
    /\ ~(Converted /\ nalus = <<>>) =>
          index = 1 /\ merged = 0 /\ file = <<>> /\ offset = 0 /\ found = <<>>
    /\ index <= Len(samples) =>
          /\ merged <= Len(sample)
          /\ \E off : FileIs(off, sample, merged, file, offset, found)

LEMMA FileInit == GenInit => FileInv
<1> SUFFICES ASSUME GenInit
             PROVE  FileInv
  OBVIOUS
<1>1. /\ index = 1 /\ merged = 0 /\ file = <<>> /\ offset = 0 /\ found = <<>>
      /\ samples = << <<>> >>
  BY DEF GenInit
<1>2. sample = <<>> /\ Len(sample) = 0 /\ <<>> \in Seq(Nat \X Nat)
  BY <1>1 DEF sample
<1>3. \E off : FileIs(off, sample, merged, file, offset, found)
  BY <1>1, EmptyFileIs
<1> QED
  BY <1>1, <1>2, <1>3 DEF FileInv

LEMMA SampleIs ==
  ASSUME GroupInv, index \in Nat, index > 0, index <= Len(samples)
  PROVE  sample \in Seq(SeenUnits) /\ Len(sample) \in Nat
<1>1. samples \in Seq(Seq(SeenUnits)) /\ index \in 1 .. Len(samples)
  BY DEF GroupInv
<1>2. sample \in Seq(SeenUnits)
  BY <1>1 DEF sample
<1> QED
  BY <1>2

LEMMA MergeUnitStep ==
  ASSUME data \in Stream, GroupInv, FileInv, MergeUnit
  PROVE  FileInv'
<1>1. /\ data' = data /\ at' = at /\ nalus' = nalus /\ samples' = samples
      /\ index' = index /\ offset' = offset /\ found' = found /\ sample' = sample
      /\ merged' = merged + 1 /\ merged < Len(sample)
      /\ Converted /\ nalus = <<>> /\ index <= Len(samples)
  BY DEF MergeUnit, Writing, vars, sample
<1>2. /\ index \in Nat /\ index > 0 /\ merged \in Nat /\ found \in Seq(Nat \X Nat)
      /\ sample \in Seq(SeenUnits) /\ Len(sample) \in Nat
  BY <1>1, SampleIs DEF FileInv
<1>3. PICK off : FileIs(off, sample, merged, file, offset, found)
  BY <1>1 DEF FileInv
<1>4. PICK u : u = sample[merged + 1]
  OBVIOUS
<1>5. file' = file \o BigEndian(Length(u)) \o Bytes(data, u[1], u[2])
  BY <1>4 DEF MergeUnit, Length
<1>6. PICK o : LaidOut(o, sample, merged + 1, file')
  BY <1>1, <1>2, <1>3, <1>4, <1>5, LaidOutNext DEF FileIs
<1>7. found = <<>> /\ offset = 0
  BY <1>1, <1>3 DEF FileIs, LaidOut
<1>8. FileIs(o, sample, merged', file', offset', found')
  <2>1. LaidOut(o, sample, merged', file') /\ o[0] = 0
    BY <1>1, <1>6 DEF LaidOut
  <2>2. /\ found' = <<>> /\ offset' = 0 /\ Len(found') = 0 /\ Len(found') <= merged'
        /\ \A k : k \notin 1 .. Len(found')
    BY <1>1, <1>2, <1>7
  <2> QED
    BY <2>1, <2>2 DEF FileIs
<1>9. FileIs(o, sample, merged, file, offset, found)'
  BY <1>1, <1>8 DEF FileIs, LaidOut
<1> QED
  BY <1>1, <1>2, <1>9 DEF FileInv, Converted

LEMMA ParseUnitStep ==
  ASSUME data \in Stream, GroupInv, FileInv, ParseUnit
  PROVE  FileInv'
<1>1. /\ data' = data /\ at' = at /\ nalus' = nalus /\ samples' = samples
      /\ index' = index /\ merged' = merged /\ file' = file /\ sample' = sample
      /\ Converted /\ nalus = <<>> /\ index <= Len(samples)
      /\ merged = Len(sample) /\ offset < Len(file)
      /\ found' = Append(found, <<naluStartIndex, naluEndIndex>>) /\ offset' = naluEndIndex
  BY DEF ParseUnit, Reading, Writing, vars, sample
<1>2. /\ index \in Nat /\ index > 0 /\ merged \in Nat /\ found \in Seq(Nat \X Nat)
      /\ sample \in Seq(SeenUnits) /\ merged <= Len(sample)
  BY <1>1, SampleIs DEF FileInv
<1>3. PICK off : FileIs(off, sample, merged, file, offset, found)
  BY <1>1 DEF FileInv
<1>4. PICK k \in 1 .. merged : k = Len(found) + 1 /\ k - 1 = Len(found)
  <2>1. Len(found) < merged /\ Len(found) \in Nat
    <3>1. Len(found) \in Nat
      BY <1>2, LenProperties
    <3>2. offset < Len(file) => Len(found) < merged
      BY <1>2, <1>3, EndIs
    <3> QED
      BY <1>1, <3>1, <3>2
  <2> QED
    BY <1>2, <2>1
<1>5. offset = off[k - 1] /\ LaidOut(off, sample, merged, file)
  BY <1>3, <1>4 DEF FileIs
<1>6. /\ offset \in Nat
      /\ Decoded(file, offset) = Length(sample[k])
      /\ off[k] = offset + 4 + Length(sample[k])
      /\ Length(sample[k]) \in Nat
  BY <1>2, <1>5, LengthIs
<1>7. length = Length(sample[k])
  BY <1>6, Zenon DEF length, Decoded
<1>8. naluStartIndex = offset + 4 /\ naluEndIndex = off[k]
  BY <1>6, <1>7 DEF naluStartIndex, naluEndIndex
<1>9. off[k] \in Nat /\ offset + 4 \in Nat
  BY <1>6
<1>10. PICK v \in Nat \X Nat : v = <<off[k - 1] + 4, off[k]>> /\ found' = Append(found, v)
  BY <1>1, <1>5, <1>8, <1>9
<1>11. /\ found' \in Seq(Nat \X Nat) /\ Len(found') = k /\ found'[k] = v
       /\ \A i \in 1 .. k - 1 : found'[i] = found[i]
  BY <1>2, <1>4, <1>10
<1>12. ASSUME NEW i \in 1 .. k
       PROVE  found'[i] = <<off[i - 1] + 4, off[i]>>
  <2>1. CASE i = k
    BY <1>10, <1>11, <2>1
  <2>2. CASE i # k
    <3>1. i \in 1 .. k - 1 /\ i \in 1 .. Len(found)
      BY <1>4, <2>2
    <3> QED
      BY <1>3, <1>11, <3>1 DEF FileIs
  <2> QED
    BY <2>1, <2>2
<1>13. FileIs(off, sample, merged, file, offset', found')
  <2>1. Len(found') <= merged /\ offset' = off[Len(found')]
    BY <1>1, <1>8, <1>11
  <2>2. ~(merged < Len(sample))
    BY <1>1, <1>2
  <2>3. \A i \in 1 .. Len(found') : found'[i] = <<off[i - 1] + 4, off[i]>>
    BY <1>11, <1>12
  <2> QED
    BY <1>5, <2>1, <2>2, <2>3 DEF FileIs
<1>14. FileIs(off, sample, merged, file, offset, found)'
  BY <1>1, <1>13 DEF FileIs, LaidOut
<1> QED
  BY <1>1, <1>2, <1>11, <1>14 DEF FileInv, Converted

(* While nothing is written, nothing is read. *)
LEMMA EmptyFileStep ==
  ASSUME FileInv, GroupInv',
         index' \in Nat, index' > 0, merged' = 0, file' = <<>>, offset' = 0, found' = <<>>,
         ~(Converted' /\ nalus' = <<>>) => index' = 1
  PROVE  FileInv'
<1>1. \E off : FileIs(off, sample, merged, file, offset, found)'
  <2>1. PICK off : FileIs(off, sample', merged', file', offset', found')
    BY EmptyFileIs
  <2>2. FileIs(off, sample, merged, file, offset, found)'
    BY <2>1 DEF FileIs, LaidOut
  <2> QED
    BY <2>2
<1>2. index' <= Len(samples') => merged' <= Len(sample')
  <2>1. ASSUME index' <= Len(samples')
        PROVE  Len(sample') \in Nat
    <3>1. samples' \in Seq(Seq(SeenUnits'))
      BY DEF GroupInv
    <3> QED
      BY <2>1, <3>1 DEF sample
  <2> QED
    BY <2>1
<1>3. <<>> \in Seq(Nat \X Nat)
  OBVIOUS
<1> QED
  BY <1>1, <1>2, <1>3 DEF FileInv

LEMMA FileStep ==
  ASSUME data \in Stream, GroupInv, GroupInv', FileInv, [GenNext]_genVars
  PROVE  FileInv'
<1>1. CASE Next /\ UNCHANGED <<nalus, samples, index, merged, file, offset, found>>
  <2>1. ~Converted
    BY <1>1 DEF Next, Turn, SearchPastTheEnd, EndOfLoop, LastUnit, Converted
  <2> QED
    BY <1>1, <2>1, EmptyFileStep DEF FileInv
<1>2. CASE Reduce
  <2>1. nalus # <<>> /\ UNCHANGED <<index, merged, file, offset, found>>
    BY <1>2 DEF Reduce
  <2>2. index = 1 /\ merged = 0 /\ file = <<>> /\ offset = 0 /\ found = <<>>
    BY <2>1 DEF FileInv
  <2> QED
    BY <2>1, <2>2, EmptyFileStep
<1>3. CASE MergeUnit
  BY <1>3, MergeUnitStep
<1>4. CASE ParseUnit
  BY <1>4, ParseUnitStep
<1>5. CASE NextFile
  <2>1. /\ Converted' /\ nalus' = <<>> /\ index' = index + 1
        /\ merged' = 0 /\ file' = <<>> /\ offset' = 0 /\ found' = <<>>
    BY <1>5 DEF NextFile, Reading, Writing, vars, Converted
  <2>2. index \in Nat
    BY DEF FileInv
  <2> QED
    BY <2>1, <2>2, EmptyFileStep
<1>6. CASE UNCHANGED genVars
  <2>1. UNCHANGED <<data, at, nalus, samples, index, merged, file, offset, found, sample>>
    BY <1>6 DEF genVars, sample
  <2> QED
    BY <2>1 DEF FileInv, FileIs, LaidOut, Converted
<1> QED
  BY <1>1, <1>2, <1>3, <1>4, <1>5, <1>6 DEF GenNext, Done
-----------------------------------------------------------------------------
(***************************************************************************)
(* The two converters together, on a stream that ends in a unit.           *)
(***************************************************************************)
GenInv ==
    /\ ConverterInv
    /\ EndsInUnit(data) => GroupInv /\ FileInv

LEMMA GenInitial == GenInit => GenInv
<1>1. GenInit => Init
  BY DEF GenInit
<1> QED
  BY <1>1, ConverterInit, GroupInit, FileInit DEF GenInv

LEMMA GenStep == GenInv /\ [GenNext]_genVars => GenInv'
<1> SUFFICES ASSUME GenInv, [GenNext]_genVars
             PROVE  GenInv'
  OBVIOUS
<1>1. [Next]_vars
  BY DEF GenNext, genVars, vars, Reduce, MergeUnit, ParseUnit, NextFile, Done
<1>2. ConverterInv /\ ConverterInv'
  BY <1>1, ConverterStep DEF GenInv
<1>3. data' = data
  BY <1>1 DEF Next, Turn, SearchPastTheEnd, EndOfLoop, LastUnit, vars
<1>4. ASSUME EndsInUnit(data)
      PROVE  GroupInv' /\ FileInv'
  <2>1. data \in Stream
    BY <1>2, <1>4 DEF ConverterInv, ConverterTypeOK, EndsInUnit, Stream
  <2>2. GroupInv /\ FileInv
    BY <1>4 DEF GenInv
  <2>3. GroupInv'
    BY <1>4, <2>1, <2>2, GroupStep
  <2> QED
    BY <2>1, <2>2, <2>3, FileStep
<1>5. EndsInUnit(data') => EndsInUnit(data)
  BY <1>3
<1> QED
  BY <1>2, <1>4, <1>5 DEF GenInv

LEMMA GenInvariant == GenSpec => []GenInv
BY GenInitial, GenStep, PTL DEF GenSpec

(* Cut at some places, the units of the stream are the samples and what is *)
(* not grouped: none is lost, split, joined or moved, whichever start      *)
(* codes the stream has and in whichever order, if it is at least as long  *)
(* as a start code and does not end with one.                              *)
THEOREM NoUnitIsLost == GenSpec => [](EndsInUnit(data) => UnitsKept)
<1>1. GenInv => (EndsInUnit(data) => UnitsKept)
  BY DEF GenInv, GroupInv
<1> QED
  BY <1>1, GenInvariant, PTL

(* Every sample but the last ends with a coded slice, its only one, if the *)
(* stream ends in a unit.                                                  *)
THEOREM OneSlice == GenSpec => [](EndsInUnit(data) => OneSlicePerFile)
<1>1. GenInv => (EndsInUnit(data) => OneSlicePerFile)
  BY DEF GenInv, GroupInv
<1> QED
  BY <1>1, GenInvariant, PTL

(* The parser reads every unit that was written, and nothing else, as long *)
(* as lengths fit into four bytes and the stream ends in a unit.           *)
THEOREM WrittenIsRead == GenSpec => [](EndsInUnit(data) => ParsesBack)
<1>1. ASSUME GenInv, EndsInUnit(data) PROVE ParsesBack
  <2> SUFFICES ASSUME Reading
               PROVE  /\ offset < Len(file) => offset + 4 < Len(file) /\ naluEndIndex <= Len(file)
                      /\ offset >= Len(file) =>
                           /\ Len(found) = Len(sample)
                           /\ \A k \in 1 .. Len(sample) :
                                Bytes(file, found[k][1], found[k][2])
                                  = Bytes(data, sample[k][1], sample[k][2])
    BY DEF ParsesBack
  <2>1. /\ data \in Stream /\ index \in Nat /\ index > 0 /\ index <= Len(samples)
        /\ merged = Len(sample) /\ merged \in Nat /\ found \in Seq(Nat \X Nat)
        /\ GroupInv /\ \E off : FileIs(off, sample, merged, file, offset, found)
    BY <1>1 DEF GenInv, ConverterInv, ConverterTypeOK, FileInv, Reading, Writing, EndsInUnit, Stream
  <2>2. sample \in Seq(SeenUnits) /\ merged <= Len(sample)
    BY <2>1, SampleIs
  <2>3. PICK off : FileIs(off, sample, merged, file, offset, found)
    BY <2>1
  <2>4. /\ offset \in Nat /\ Len(file) \in Nat
        /\ offset < Len(file) => Len(found) < merged
        /\ offset >= Len(file) => Len(found) = merged
    BY <2>1, <2>2, <2>3, EndIs
  <2>5. LaidOut(off, sample, merged, file) /\ file \in Seq(Octet)
    BY <2>3 DEF FileIs, LaidOut
  <2>5a. /\ data \in Stream /\ merged \in Nat /\ LaidOut(off, sample, merged, file)
        /\ sample \in Seq(SeenUnits) /\ merged <= Len(sample)
    BY <2>1, <2>2, <2>5
  <2>6. ASSUME offset < Len(file)
        PROVE  offset + 4 < Len(file) /\ naluEndIndex <= Len(file)
    <3>1. Len(found) \in Nat
      BY <2>1, LenProperties
    <3>2. PICK k \in 1 .. merged : k - 1 = Len(found)
      <4>1. Len(found) + 1 \in 1 .. merged /\ Len(found) + 1 - 1 = Len(found)
        BY <2>1, <2>4, <2>6, <3>1
      <4> QED
        BY <4>1
    <3>3. offset = off[k - 1]
      BY <2>3, <3>2 DEF FileIs
    <3>4. /\ Length(sample[k]) \in Nat /\ Length(sample[k]) > 0
          /\ Decoded(file, offset) = Length(sample[k])
          /\ off[k] = offset + 4 + Length(sample[k]) /\ off[k] <= Len(file)
      BY <2>5a, <3>3, LengthIs
    <3>5. naluEndIndex = offset + 4 + Length(sample[k])
      BY <3>4, Zenon DEF naluEndIndex, naluStartIndex, length, Decoded
    <3> QED
      BY <2>4, <3>4, <3>5
  <2>7. ASSUME offset >= Len(file), NEW k \in 1 .. Len(sample)
        PROVE  Bytes(file, found[k][1], found[k][2]) = Bytes(data, sample[k][1], sample[k][2])
    <3>1. k \in 1 .. merged /\ k \in 1 .. Len(found)
      BY <2>1, <2>4, <2>7
    <3>2. PICK o : o = off[k - 1]
      OBVIOUS
    <3>3. PICK u, l : u = sample[k] /\ l = Length(u)
      OBVIOUS
    <3>4. /\ o \in Nat /\ u \in SeenUnits /\ l \in Nat /\ l > 0
          /\ off[k] = o + 4 + l /\ off[k] <= Len(file)
      BY <2>5a, <3>1, <3>2, <3>3, LengthIs
    <3>5. found[k] = <<o + 4, o + 4 + l>>
      BY <2>3, <3>1, <3>2, <3>4 DEF FileIs
    <3>6. \A i \in 1 .. l : file[o + 4 + i] = data[u[1] + i]
      BY <2>5, <3>1, <3>2, <3>3 DEF LaidOut
    <3> DEFINE read == Bytes(file, o + 4, o + 4 + l)
               written == Bytes(data, u[1], u[2])
    <3>7. /\ written \in Seq(Octet) /\ Len(written) = l
          /\ \A i \in 1 .. l : written[i] = data[u[1] + i]
      BY <2>1, <3>3, <3>4, UnitBytes
    <3>8. read \in Seq(Octet) /\ Len(read) = l /\ \A i \in 1 .. l : read[i] = file[o + 4 + i]
      <4>1. PICK a, b : a = o + 4 + 1 /\ b = o + 4 + l
        OBVIOUS
      <4>2. a \in Nat /\ b \in Nat /\ a <= b /\ b - a + 1 = l
        BY <3>4, <4>1
      <4>3. \A i \in a .. b : file[i] \in Octet
        <5>1. \A i \in a .. b : i \in 1 .. Len(file)
          BY <2>4, <3>4, <4>1
        <5> QED
          BY <2>5, <5>1, ElementOfSeq
      <4> DEFINE q == SubSeq(file, a, b)
      <4>4. /\ q \in Seq(Octet) /\ Len(q) = IF a <= b THEN b - a + 1 ELSE 0
            /\ \A i \in 1 .. b - a + 1 : q[i] = file[a + i - 1]
        BY <4>2, <4>3, SubSeqProperties
      <4>5. read = q
        BY <4>1 DEF Bytes
      <4> HIDE DEF q, read
      <4>6. \A i \in 1 .. l : q[i] = file[o + 4 + i]
        <5> SUFFICES ASSUME NEW i \in 1 .. l
                     PROVE  q[i] = file[o + 4 + i]
          OBVIOUS
        <5>1. a + i - 1 = o + 4 + i
          BY <3>4, <4>1
        <5>2. q[i] = file[a + i - 1]
          BY <4>2, <4>4
        <5> QED
          BY <5>1, <5>2
      <4> QED
        BY <4>2, <4>4, <4>5, <4>6
    <3> HIDE DEF read, written
    <3>9. read = written
      BY <3>6, <3>7, <3>8, SeqEqual
    <3> QED
      BY <3>3, <3>5, <3>9 DEF read, written
  <2> QED
    BY <2>1, <2>4, <2>6, <2>7
<1>2. GenInv => (EndsInUnit(data) => ParsesBack)
  BY <1>1
<1> QED
  BY <1>2, GenInvariant, PTL
=============================================================================
