---------------------------- MODULE NalConverter ----------------------------
(***************************************************************************)
(* on_new_sample (src/rtspparser.cpp): the buffer of an access unit, with  *)
(* start codes, is turned into NAL units with their lengths before them.   *)
(* One action is one turn of the loop; a unit that was appended is its     *)
(* interval in the buffer.                                                 *)
(***************************************************************************)
EXTENDS AnnexB

CONSTANTS Byte,      \* the bytes to consider, 0 and 1 among them
          MaxSize    \* bound: of the buffer

ASSUME ConverterAssumption == {0, 1} \subseteq Byte /\ Byte \subseteq 0 .. 255 /\ MaxSize \in Nat

VARIABLES data,        \* the buffer
          pos,         \* where the search goes on
          final_data,  \* the units that were appended
          at           \* in the loop, after it, or where the code has no meaning

vars == <<data, pos, final_data, at>>

size == Len(data)

\* data[i] of the code
At(i) == data[i + 1]

Buffer == UNION {[1..n -> Byte] : n \in 0..MaxSize}

(* The search goes on within the buffer; what was appended is of it. *)
ConverterTypeOK ==
    /\ data \in Buffer
    /\ pos \in 0 .. size
    /\ final_data \in Seq((0 .. size) \X (0 .. size))
    /\ at \in {"loop", "tail", "done", "undefined"}

Init ==
    /\ data \in Buffer
    /\ pos = 0
    /\ final_data = <<>>
    /\ at = "loop"
-----------------------------------------------------------------------------
\* Mutated form: the search begins one byte late.
FoundFromNext ==
    {i \in pos + 1 .. size - 4 :
        \/ At(i) = 0 /\ At(i + 1) = 0 /\ At(i + 2) = 1
        \/ i < size - 4 /\ At(i) = 0 /\ At(i + 1) = 0 /\ At(i + 2) = 0 /\ At(i + 3) = 1}

\* the indices at which the search would stop
Found ==
    {i \in pos .. size - 4 :
        \/ At(i) = 0 /\ At(i + 1) = 0 /\ At(i + 2) = 1
        \/ i < size - 4 /\ At(i) = 0 /\ At(i + 1) = 0 /\ At(i + 2) = 0 /\ At(i + 3) = 1}

next_start_code == IF Found = {} THEN size ELSE CHOOSE i \in Found : \A j \in Found : i <= j

\* the length of the start code at i
SkippedAt(i) == IF At(i + 2) = 1 THEN 3 ELSE 4

Turn ==
    /\ at = "loop" /\ pos < size /\ size >= 3
    /\ final_data' = IF next_start_code > pos THEN Append(final_data, <<pos, next_start_code>>)
                     ELSE final_data
    /\ IF next_start_code = size
       THEN at' = "tail" /\ UNCHANGED pos
       ELSE pos' = next_start_code + SkippedAt(next_start_code) /\ UNCHANGED at
    /\ UNCHANGED data

\* size - 3 wraps around, and the search reads what is behind the buffer.
SearchPastTheEnd ==
    /\ at = "loop" /\ pos < size /\ size < 3
    /\ at' = "undefined"
    /\ UNCHANGED <<data, pos, final_data>>

\* pos < size holds until the break, unless the buffer is empty
EndOfLoop ==
    /\ at = "loop" /\ pos >= size
    /\ at' = "tail"
    /\ UNCHANGED <<data, pos, final_data>>

\* Mutated form: the last byte is cut off.
LastUnitShort ==
    /\ at = "tail"
    /\ final_data' = IF pos < size THEN Append(final_data, <<pos, size - 1>>) ELSE final_data
    /\ at' = "done"
    /\ UNCHANGED <<data, pos>>

\* "Handle the last NAL unit if no more start codes are found"
LastUnit ==
    /\ at = "tail"
    /\ final_data' = IF pos < size THEN Append(final_data, <<pos, size>>) ELSE final_data
    /\ at' = "done"
    /\ UNCHANGED <<data, pos>>

Next == Turn \/ SearchPastTheEnd \/ EndOfLoop \/ LastUnit

Spec == Init /\ [][Next]_vars
-----------------------------------------------------------------------------
\* The search ends one byte early: a start code that nothing follows is left in
\* the last unit, zeros at the end are too.
Seen == {e \in CodeEnds(data) : e < size}

SeenUnits == UnitsBetween(data, Seen)

(***************************************************************************)
(* Whatever start codes there are, next to each other, overlapping with    *)
(* zeros or at the ends of the buffer: what is appended are its units      *)
(* between the start codes that something follows, all of them in their    *)
(* order and no other; only the last one may come again.  (It does, from   *)
(* the loop and from what comes after it.)                                 *)
(***************************************************************************)
OnlyTheLastUnitTwice ==
    LET units == Ordered(SeenUnits)
    IN  at = "done" => \/ final_data = units
                       \/ units # <<>> /\ final_data = Append(units, units[Len(units)])
=============================================================================
