--------------------------- MODULE H264FileParser ---------------------------
(***************************************************************************)
(* H264FileParser (src/h264fileparser.cpp) is a FileParser that keeps the  *)
(* last key frame for viewers who join: loadNextSample stores the units of *)
(* types 7, 8 and 5 one after the other on the thread of the stream;       *)
(* initialNALUS copies them one after the other on MainThread.  Nothing    *)
(* locks them.  The caches of src/h264rtspparser.cpp are the same code.    *)
(*                                                                         *)
(* A unit is the number of the sample it is from.  To store one is to      *)
(* begin and to end; what is read between is a data race.                  *)
(***************************************************************************)
EXTENDS FileParser, Sequences

CONSTANT Units   \* of each sample, the types of its units

KeyType == {7, 8, 5}

\* encoders repeat the parameter sets with every key frame; main.cpp loops
ASSUME UnitsAssumption ==
    /\ Units \in Seq({<<1>>, <<7, 8, 5>>}) /\ Units # <<>>
    /\ Units[1] = <<7, 8, 5>>
    /\ NumFiles = Len(Units)
    /\ Loop

VARIABLES loaded,    \* the place in Units of the sample loaded last, or 0
          todo,      \* its units that were not looked at
          storing,   \* the type that is being stored
          cache,     \* previousUnitType7, 8 and 5; 0 is nullopt
          toRead,    \* initialNALUS: the types it has still to copy
          got        \* initialNALUS: the units it has copied

h264Vars == <<vars, loaded, todo, storing, cache, toRead, got>>

Nothing == 0
Torn == -1
Reading == toRead # <<>> \/ got # <<>>
Loading == todo # <<>>

CacheTypeOK ==
    /\ loaded \in 0..Len(Units)
    /\ todo \in Seq({7, 8, 5, 1})
    /\ storing \in KeyType \cup {Nothing}
    /\ cache \in [KeyType -> 0..Len(Units)]
    /\ toRead \in Seq(KeyType)
    /\ got \in Seq(-1..Len(Units))

H264Init ==
    /\ Init
    /\ loaded = 0
    /\ todo = <<>>
    /\ storing = Nothing
    /\ cache = [t \in KeyType |-> 0]
    /\ toRead = <<>> /\ got = <<>>
-----------------------------------------------------------------------------
(***************************************************************************)
(* MainThread.  Stream::start loads the first sample in one go: the thread *)
(* of the stream has nothing to do yet.                                    *)
(***************************************************************************)
H264Start ==
    /\ ~Reading
    /\ Start
    /\ loaded' = sample' + 1
    /\ cache' = [t \in KeyType |-> loaded']
    /\ UNCHANGED <<todo, storing, toRead, got>>

\* Mutated form: stop does not wait for the mutex.
H264StopInMidLoad ==
    /\ ~Reading
    /\ Stop
    /\ UNCHANGED <<loaded, todo, storing, cache, toRead, got>>

\* Stream::stop waits for the mutex, which is held during a load; the cache stays
H264Stop ==
    /\ ~Reading /\ ~Loading
    /\ Stop
    /\ UNCHANGED <<loaded, todo, storing, cache, toRead, got>>

\* sendInitialNalus calls initialNALUS, once there was a stream
BeginRead ==
    /\ ~Reading /\ loaded # 0
    /\ toRead' = <<7, 8, 5>>
    /\ UNCHANGED <<vars, loaded, todo, storing, cache, got>>

ReadUnit ==
    /\ toRead # <<>>
    /\ LET t == Head(toRead)
       IN  \E unit \in IF storing = t THEN {Torn, cache[t], loaded} ELSE {cache[t]} :
             got' = Append(got, unit)
    /\ toRead' = Tail(toRead)
    /\ UNCHANGED <<vars, loaded, todo, storing, cache>>

Send ==
    /\ toRead = <<>> /\ got # <<>>
    /\ got' = <<>>
    /\ UNCHANGED <<vars, loaded, todo, storing, cache, toRead>>
-----------------------------------------------------------------------------
(***************************************************************************)
(* The thread of the stream: loadNextSample.                               *)
(***************************************************************************)
\* FileParser::loadNextSample.  At the end of the directory the recursive call
\* in it is virtual: it stores the units of the first sample, and the outer call
\* the same units once more, which leaves the cache as it is.
BeginLoad ==
    /\ ~Loading
    /\ LoadNextSample
    /\ loaded' = sample' + 1
    /\ todo' = Units[loaded']
    /\ UNCHANGED <<storing, cache, toRead, got>>

SkipUnit ==
    /\ Loading /\ Head(todo) \notin KeyType
    /\ todo' = Tail(todo)
    /\ UNCHANGED <<vars, loaded, storing, cache, toRead, got>>

BeginStore ==
    /\ Loading /\ Head(todo) \in KeyType /\ storing = Nothing
    /\ storing' = Head(todo)
    /\ UNCHANGED <<vars, loaded, todo, cache, toRead, got>>

\* Mutated form: a unit that is there is kept.
EndStoreOnce ==
    /\ storing # Nothing
    /\ cache' = [cache EXCEPT ![storing] = IF @ = 0 THEN loaded ELSE @]
    /\ storing' = Nothing
    /\ todo' = Tail(todo)
    /\ UNCHANGED <<vars, loaded, toRead, got>>

EndStore ==
    /\ storing # Nothing
    /\ cache' = [cache EXCEPT ![storing] = loaded]
    /\ storing' = Nothing
    /\ todo' = Tail(todo)
    /\ UNCHANGED <<vars, loaded, toRead, got>>

H264Next ==
    \/ H264Start \/ H264Stop \/ BeginRead \/ ReadUnit \/ Send
    \/ BeginLoad \/ SkipUnit \/ BeginStore \/ EndStore

H264Spec == H264Init /\ [][H264Next]_h264Vars
-----------------------------------------------------------------------------
\* the key frame before sample k, or sample k itself
KeyFrameAt(k) == CHOOSE j \in 1..k : /\ Units[j] # <<1>>
                                     /\ \A m \in j+1 .. k : Units[m] = <<1>>

(***************************************************************************)
(* Between two loads, also when the stream has stopped meanwhile or starts *)
(* anew, the cache holds the last key frame of what was loaded, and all of *)
(* it.                                                                     *)
(***************************************************************************)
CacheIsKeyFrame ==
    loaded # 0 /\ ~Loading => \A t \in KeyType : cache[t] = KeyFrameAt(loaded)

Whole(units) == \E k \in 1..Len(Units) : \A n \in DOMAIN units : units[n] = k

(***************************************************************************)
(* A viewer who joins a stream that has stopped gets one whole key frame.  *)
(* (While it runs loadNextSample may replace units as they are copied, and *)
(* what is sent may be of two key frames, or torn.)                        *)
(***************************************************************************)
WholeWhenStopped == Reading /\ ~started => Whole(got)
=============================================================================
