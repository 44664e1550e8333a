------------------------------- MODULE AnnexB -------------------------------
(***************************************************************************)
(* Byte streams in which NAL units are separated by start codes, 0 0 1 or  *)
(* 0 0 0 1: what the units of a stream are, said without any search.  The  *)
(* converters of this repository (src/rtspparser.cpp and                   *)
(* src/samples/generate_h264.py) are checked against it.                   *)
(*                                                                         *)
(* A stream is a sequence; the interval <<a, b>> is its bytes a+1 .. b, in *)
(* the way of the code: from index a on, up to but not including b.        *)
(***************************************************************************)
EXTENDS Integers, Sequences, FiniteSets

Bytes(s, a, b) == SubSeq(s, a + 1, b)

ShortCodeAt(s, i) == i >= 0 /\ i + 3 <= Len(s) /\ Bytes(s, i, i + 3) = <<0, 0, 1>>

\* Every start code ends with 0 0 1; a zero before that belongs to it.
CodeEnds(s) == {i + 3 : i \in {j \in 0..Len(s) : ShortCodeAt(s, j)}}
CodeBegin(s, end) == IF end >= 4 /\ Bytes(s, end - 4, end - 3) = <<0>> THEN end - 4 ELSE end - 3

\* A unit lies between the end of a start code, or the beginning of the
\* stream, and the next start code, or the end of the stream.
UnitsBetween(s, ends) ==
    LET begins == {CodeBegin(s, e) : e \in ends} \cup {Len(s)}
    IN  {u \in ({0} \cup ends) \X begins :
            u[1] < u[2] /\ \A x \in begins : x < u[1] \/ u[2] <= x}

Units(s) == UnitsBetween(s, CodeEnds(s))

\* intervals that do not overlap, in their order
Ordered(intervals) ==
    CHOOSE q \in [1..Cardinality(intervals) -> intervals] :
        \A i, j \in DOMAIN q : i < j => q[i][2] <= q[j][1]

UnitsInOrder(s) == Ordered(Units(s))

\* as every stream does that an encoder has completed
EndsInUnit(s) == Len(s) >= 3 /\ ~ShortCodeAt(s, Len(s) - 3)
=============================================================================
