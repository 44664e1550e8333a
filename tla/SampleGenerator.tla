--------------------------- MODULE SampleGenerator --------------------------
(***************************************************************************)
(* The two converters of this repository, one after the other on the same  *)
(* stream: NalConverter, and H264ByteStream (src/samples/generate_h264.py),*)
(* which groups the NAL units into samples, each of which is written to a  *)
(* file; and H264FileParser (src/h264fileparser.cpp), which takes the file *)
(* apart again.  One action is one turn of each of the loops.  A unit is   *)
(* its interval in the stream; files have bytes.                           *)
(***************************************************************************)
EXTENDS NalConverter

\* the values of two bytes
Half == 256 * 256

\* The length of a unit fits into four bytes; to_bytes refuses any other.
ASSUME GeneratorAssumption == MaxSize \div Half < Half

VARIABLES nalus,    \* the units that were not grouped yet
          samples,  \* the units of each sample
          index,    \* the sample that is written and read
          merged,   \* the units of it that are in the file
          file,     \* the file
          offset,   \* i of the parser: where it goes on in the file
          found     \* the intervals of the units that the parser found

genVars == <<data, pos, final_data, at, nalus, samples, index, merged, file, offset, found>>
-----------------------------------------------------------------------------
\* bytes.split on the part p of the stream, as a set of parts: from the end of
\* each occurrence of code to the next one.  No start code overlaps itself, so
\* split passes over none.
Split(p, code) ==
    LET hits == {h \in p[1] .. p[2] - Len(code) : Bytes(data, h, h + Len(code)) = code}
        begins == {p[1]} \cup {h + Len(code) : h \in hits}
        ends == hits \cup {p[2]}
    IN  {q \in begins \X ends : q[1] <= q[2] /\ \A x \in ends : x < q[1] \/ q[2] <= x}

NotEmpty(p) == p[1] < p[2]

\* Mutated form: the long start codes are not looked for.
NalusShortOnly == Ordered({q \in Split(<<0, size>>, <<0, 0, 1>>) : NotEmpty(q)})

\* split at the long start codes first, then at the short ones
Nalus ==
    LET long_split == Split(<<0, size>>, <<0, 0, 0, 1>>)
    IN  Ordered({q \in UNION {Split(p, <<0, 0, 1>>) : p \in long_split} : NotEmpty(q)})

\* Mutated form: the mask is missing.
NaluTypeUnmasked(nalu) == At(nalu[1])

\* nalu[0] & 0x1F
NaluType(nalu) == At(nalu[1]) % 32

\* len(nalu).to_bytes(4, byteorder='big')
BigEndian(n) ==
    LET high == n \div Half
        low == n % Half
    IN  <<high \div 256, high % 256, low \div 256, low % 256>>

\* ntohl of the four bytes at offset
length ==
    LET high == 256 * file[offset + 1] + file[offset + 2]
        low == 256 * file[offset + 3] + file[offset + 4]
    IN  Half * high + low

GenInit ==
    /\ Init
    /\ nalus = Nalus
    /\ samples = << <<>> >>
    /\ index = 1 /\ merged = 0 /\ file = <<>>
    /\ offset = 0 /\ found = <<>>

\* NalConverter is through with the stream
Converted == at \in {"done", "undefined"}

\* reduce_nalus_to_samples: a sample ends with a coded slice
Reduce ==
    /\ Converted /\ nalus # <<>>
    /\ LET last == Len(samples)
           grown == [samples EXCEPT ![last] = Append(@, Head(nalus))]
       IN  samples' = IF NaluType(Head(nalus)) \in {1, 5} THEN Append(grown, <<>>) ELSE grown
    /\ nalus' = Tail(nalus)
    /\ UNCHANGED <<vars, index, merged, file, offset, found>>

\* the samples are complete, and there is one left
sample == samples[index]

Writing == Converted /\ nalus = <<>> /\ index <= Len(samples)

\* Mutated form: the length counts itself.
MergeUnitWithLength ==
    /\ Writing /\ merged < Len(sample)
    /\ LET nalu == sample[merged + 1]
       IN  file' = file \o BigEndian(nalu[2] - nalu[1] + 4) \o Bytes(data, nalu[1], nalu[2])
    /\ merged' = merged + 1
    /\ UNCHANGED <<vars, nalus, samples, index, offset, found>>

\* merge_sample
MergeUnit ==
    /\ Writing /\ merged < Len(sample)
    /\ LET nalu == sample[merged + 1]
       IN  file' = file \o BigEndian(nalu[2] - nalu[1]) \o Bytes(data, nalu[1], nalu[2])
    /\ merged' = merged + 1
    /\ UNCHANGED <<vars, nalus, samples, index, offset, found>>

\* the loop of H264FileParser::loadNextSample over a file that was written
naluStartIndex == offset + 4
naluEndIndex == naluStartIndex + length

Reading == Writing /\ merged = Len(sample)

ParseUnit ==
    /\ Reading /\ offset < Len(file)
    /\ found' = Append(found, <<naluStartIndex, naluEndIndex>>)
    /\ offset' = naluEndIndex
    /\ UNCHANGED <<vars, nalus, samples, index, merged, file>>

\* the next file; a sample without units makes none
NextFile ==
    /\ Reading /\ offset >= Len(file)
    /\ index' = index + 1
    /\ merged' = 0 /\ file' = <<>>
    /\ offset' = 0 /\ found' = <<>>
    /\ UNCHANGED <<vars, nalus, samples>>

Done == index > Len(samples) /\ UNCHANGED genVars

GenNext ==
    \/ Next /\ UNCHANGED <<nalus, samples, index, merged, file, offset, found>>
    \/ Reduce \/ MergeUnit \/ ParseUnit \/ NextFile
    \/ Done

GenSpec == GenInit /\ [][GenNext]_genVars
-----------------------------------------------------------------------------
(***************************************************************************)
(* No unit of the stream is lost, split or joined on its way to the files: *)
(* cut into pieces, the units are the samples, and what is not grouped.    *)
(***************************************************************************)
UnitsKept ==
    LET units == UnitsInOrder(data)
        last == Len(samples)
    IN  \E cut \in [0 .. last -> 0 .. Len(units)] :
            /\ cut[0] = 0
            /\ \A f \in 1 .. last : /\ cut[f - 1] <= cut[f]
                                    /\ samples[f] = SubSeq(units, cut[f - 1] + 1, cut[f])
            /\ nalus = SubSeq(units, cut[last] + 1, Len(units))

\* the low five bits of a unit's first byte are its type
IsSlice(unit) == \E high \in 0..7 : data[unit[1] + 1] - 32 * high \in {1, 5}

(***************************************************************************)
(* The stream advances by one file per frame: every sample but the last    *)
(* has one coded slice, as its last unit; what comes after the last slice  *)
(* is one more, which may be empty and is not written then.                *)
(***************************************************************************)
OneSlicePerFile ==
    /\ \A f \in 1 .. Len(samples) - 1 : samples[f] # <<>>
    /\ \A f \in 1 .. Len(samples) : \A k \in 1 .. Len(samples[f]) :
          IsSlice(samples[f][k]) <=> k = Len(samples[f]) /\ f < Len(samples)

(***************************************************************************)
(* What is written is read: no assertion of the parser fails, and at the   *)
(* end of the file it has found the bytes of all units of the sample.      *)
(***************************************************************************)
ParsesBack ==
    Reading =>
        /\ offset < Len(file) => offset + 4 < Len(file) /\ naluEndIndex <= Len(file)
        /\ offset >= Len(file) =>
             /\ Len(found) = Len(sample)
             /\ \A k \in 1 .. Len(sample) :
                   Bytes(file, found[k][1], found[k][2]) = Bytes(data, sample[k][1], sample[k][2])
=============================================================================
