-------------------------- MODULE RtspStreamProofs --------------------------
(***************************************************************************)
(* Proofs about RtspStream, for any number of starts and samples and any   *)
(* of the faults, with stop called at any time.                            *)
(***************************************************************************)
EXTENDS RtspStream, TLAPS

CaptureInv ==
    /\ captures + (IF calling = "start" THEN 1 ELSE 0) <= starts
    /\ calling = "stopVideo" => ~isRunning /\ at = "lock"

(* Of the objects: what startCapture has made and stop has freed.  Both    *)
(* releases of the pipeline come with one of the appsink.                  *)
Capturing == capture \in {"play", "loop", "running"}

ObjectInv ==
    /\ "appsink" \in made => Capturing
    /\ Capturing => "appsink" \in made
    /\ capture = "sink" \/ Capturing => "pipeline" \in made
    /\ Capturing => \/ refs["pipeline"] = 1 /\ refs["appsink"] = 2
                    \/ refs["pipeline"] = 0 /\ refs["appsink"] = 0
    /\ refs["pipeline"] \in {0, 1}
    /\ capture \in {"idle", "launch"} => refs["pipeline"] = 0
    /\ playing => capture \in {"loop", "running"} /\ refs["pipeline"] = 1

(* While the stream is stopped there is no pipeline, and none will be      *)
(* launched, unless one was to be launched at the stop.                    *)
FlowInv ==
    ~isRunning /\ calling # "stopVideo" => early \/ (~ToLaunch /\ refs["pipeline"] = 0)

Inv == TypeOK /\ CaptureInv /\ ObjectInv /\ FlowInv

LEMMA InvInit == Init => Inv
<1> SUFFICES ASSUME Init PROVE Inv
  OBVIOUS
<1> USE DEF Init
<1>1. MaxStarts \in Nat /\ MaxSamples \in Nat
  BY RtspAssumption
<1>2. 0 \in 0..MaxSamples /\ 0 \in 0..MaxStarts
  BY <1>1
<1>3. /\ queue \in Seq(1..MaxSamples) /\ handed \in Seq(1..MaxSamples)
      /\ refs \in [Object -> 0..2] /\ made \subseteq Object
  OBVIOUS
<1>4. TypeOK
  BY <1>2, <1>3 DEF TypeOK
<1>5. CaptureInv /\ ObjectInv /\ FlowInv
  BY DEF CaptureInv, ObjectInv, FlowInv, ToLaunch, Capturing, Object
<1> QED
  BY <1>4, <1>5 DEF Inv

(* What a release does, whenever it comes: the pipeline is gone and with   *)
(* it the flow of samples.                                                 *)
LEMMA ReleaseFacts ==
  ASSUME Inv, Release
  PROVE  /\ refs' \in [Object -> 0..2]
         /\ made' = made
         /\ usedFreed' \in BOOLEAN /\ ended' \in BOOLEAN
         /\ refs'["pipeline"] = 0
         /\ Capturing => refs'["appsink"] = 0
         /\ playing' = FALSE
<1> USE DEF Inv, TypeOK, ObjectInv
<1>1. "pipeline" \in Object /\ "appsink" \in Object
  BY DEF Object
<1>2. \A o \in Object : o \in Live <=> o \in made /\ refs[o] # 0
  BY DEF Live, Dangling
<1>3. /\ made' = made
      /\ usedFreed' \in BOOLEAN /\ ended' \in BOOLEAN
      /\ playing' = (playing /\ "pipeline" \notin Live)
      /\ refs' = [o \in Object |->
                    IF o \notin Live THEN refs[o]
                    ELSE IF o = "appsink" /\ "pipeline" \in Live THEN refs[o] - 2
                    ELSE refs[o] - 1]
  BY DEF Release
<1>4. "appsink" \in Live => refs["appsink"] = 2 /\ "pipeline" \in Live
  BY <1>1, <1>2
<1>5. \A o \in Object : refs'[o] \in 0..2
  <2> TAKE o \in Object
  <2>1. refs[o] \in 0..2
    OBVIOUS
  <2> QED
    BY <1>2, <1>3, <1>4, <2>1
<1>6. "pipeline" \notin made => refs["pipeline"] = 0
  BY DEF Capturing
<1>7. refs'["pipeline"] = 0
  BY <1>1, <1>2, <1>3, <1>6
<1>8. Capturing => refs'["appsink"] = 0
  BY <1>1, <1>2, <1>3, <1>4
<1>9. playing' = FALSE
  <2>1. playing => "pipeline" \in made /\ refs["pipeline"] # 0
    BY DEF Capturing
  <2>2. playing => "pipeline" \in Live
    BY <1>1, <1>2, <2>1
  <2> QED
    BY <1>3, <2>2, Zenon
<1> QED
  BY <1>3, <1>5, <1>7, <1>8, <1>9

LEMMA StopReleases ==
  ASSUME StopAudio \/ StopVideo
  PROVE  Release
BY DEF StopAudio, StopVideo

(* The capture operation keeps the types of the references. *)
LEMMA CaptureObjects ==
  ASSUME made \subseteq Object, refs \in [Object -> 0..2], playing \in BOOLEAN,
         usedFreed \in BOOLEAN, ended \in BOOLEAN, captures \in 0..MaxStarts,
         Launch \/ GetSink \/ Play \/ RunLoop
  PROVE  /\ made' \subseteq Object /\ refs' \in [Object -> 0..2]
         /\ playing' \in BOOLEAN /\ usedFreed' \in BOOLEAN /\ ended' \in BOOLEAN
         /\ captures' \in 0..MaxStarts
         /\ capture' \in {"idle", "launch", "sink", "play", "loop", "running"}
         /\ UNCHANGED otherVars
<1>1. "pipeline" \in Object /\ "appsink" \in Object /\ "mainloop" \in Object
  BY DEF Object
<1>2. CASE Launch
  BY <1>1, <1>2 DEF Launch, failVars
<1>3. CASE GetSink
  <2>1. usedFreed' \in BOOLEAN /\ ended' \in BOOLEAN
    BY <1>3 DEF GetSink, UseOf
  <2>2. \/ made' = made \cup {"appsink"} /\ capture' = "play"
           /\ refs' = [refs EXCEPT !["appsink"] = IF "pipeline" \in Live THEN 2 ELSE 0]
        \/ made' = made \ {"appsink"} /\ capture' = "idle"
           /\ refs' = [refs EXCEPT !["pipeline"] = 0]
    BY <1>3 DEF GetSink
  <2>3. UNCHANGED <<otherVars, captures, playing>>
    BY <1>3 DEF GetSink
  <2> QED
    BY <1>1, <2>1, <2>2, <2>3
<1>4. CASE Play
  <2>1. usedFreed' \in BOOLEAN /\ ended' \in BOOLEAN
    BY <1>4 DEF Play, UseOf
  <2>2. capture' = "loop" /\ playing' = ("pipeline" \in Live)
        /\ UNCHANGED <<otherVars, captures, made, refs>>
    BY <1>4 DEF Play
  <2> QED
    BY <2>1, <2>2
<1>5. CASE RunLoop
  BY <1>1, <1>5 DEF RunLoop, failVars
<1> QED
  BY <1>2, <1>3, <1>4, <1>5

LEMMA AppendType ==
  ASSUME NEW S, NEW q \in Seq(S), NEW x \in S
  PROVE  Append(q, x) \in Seq(S)
OBVIOUS

LEMMA TypeStep == Inv /\ [Next]_vars => TypeOK'
<1> SUFFICES ASSUME Inv, [Next]_vars PROVE TypeOK'
  OBVIOUS
<1> USE RtspAssumption DEF TypeOK, otherVars, queueVars, sampleVars, captureVars, objectVars
<1>1. ASSUME NEW m \in {"start", "stop"}, Call(m) PROVE TypeOK'
  BY <1>1 DEF Inv, Call
<1>2. CASE Start
  BY <1>2 DEF Inv, CaptureInv, Start
<1>3. CASE StopAudio
  <2>1. /\ refs' \in [Object -> 0..2] /\ made' = made /\ playing' \in BOOLEAN
        /\ usedFreed' \in BOOLEAN /\ ended' \in BOOLEAN
    BY <1>3, ReleaseFacts, StopReleases
  <2>2. /\ isRunning' = FALSE /\ calling' = "stopVideo"
        /\ UNCHANGED <<at, sampleVars, queueVars, starts, captureVars, early>>
    BY <1>3 DEF StopAudio
  <2> QED
    BY <2>1, <2>2 DEF Inv
<1>4. CASE StopVideo
  <2>1. /\ refs' \in [Object -> 0..2] /\ made' = made /\ playing' \in BOOLEAN
        /\ usedFreed' \in BOOLEAN /\ ended' \in BOOLEAN
    BY <1>4, ReleaseFacts, StopReleases
  <2>2. /\ sample' = 0 /\ lost' = lost \cup ({sample} \ {0}) /\ early' = ToLaunch
        /\ calling' = "nothing"
        /\ UNCHANGED <<isRunning, at, handed, queueVars, starts, captureVars>>
    BY <1>4 DEF StopVideo
  <2>3. lost' \subseteq 1..MaxSamples /\ sample' \in 0..MaxSamples
    BY <2>2 DEF Inv
  <2>4. ToLaunch \in BOOLEAN
    BY DEF ToLaunch
  <2> QED
    BY <2>1, <2>2, <2>3, <2>4 DEF Inv
<1>5. CASE StopStopped \/ Lock \/ Wait \/ SpuriousWakeup
  BY <1>5 DEF Inv, StopStopped, Lock, Wait, SpuriousWakeup
<1>6. CASE Handle
  <2>1. sample # 0 => sample \in 1..MaxSamples
    BY DEF Inv
  <2>2. handed \in Seq(1..MaxSamples)
        /\ handed' = IF sample = 0 THEN handed ELSE Append(handed, sample)
    BY <1>6 DEF Inv, Handle
  <2>3. handed' \in Seq(1..MaxSamples)
    <3> HIDE DEF TypeOK, otherVars, queueVars, sampleVars, captureVars, objectVars
    <3>1. CASE sample = 0
      BY <2>2, <3>1
    <3>2. CASE sample # 0
      <4>1. sample \in 1..MaxSamples /\ handed' = Append(handed, sample)
        BY <2>1, <2>2, <3>2
      <4> QED
        BY <2>2, <4>1, AppendType
    <3> QED
      BY <3>1, <3>2
  <2> QED
    BY <1>6, <2>3 DEF Inv, Handle
<1>7. CASE Load
  <2>1. Head(queue) \in 1..MaxSamples /\ Tail(queue) \in Seq(1..MaxSamples)
    BY <1>7 DEF Inv, Load
  <2> QED
    BY <1>7, <2>1 DEF Inv, Load
<1>8. CASE NewSample
  <2>1. Append(queue, delivered') \in Seq(1..MaxSamples)
    BY <1>8 DEF Inv, NewSample
  <2> QED
    BY <1>8, <2>1 DEF Inv, NewSample
<1>9. CASE TakeCapture
  BY <1>9 DEF Inv, TakeCapture, failVars
<1>10. CASE Launch \/ GetSink \/ Play \/ RunLoop
  <2>1. /\ made' \subseteq Object /\ refs' \in [Object -> 0..2]
        /\ playing' \in BOOLEAN /\ usedFreed' \in BOOLEAN /\ ended' \in BOOLEAN
        /\ captures' \in 0..MaxStarts
        /\ capture' \in {"idle", "launch", "sink", "play", "loop", "running"}
        /\ UNCHANGED otherVars
    BY <1>10, CaptureObjects DEF Inv
  <2> QED
    BY <2>1 DEF Inv
<1>11. CASE UNCHANGED vars
  BY <1>11 DEF Inv, vars
<1> QED
  BY <1>1, <1>2, <1>3, <1>4, <1>5, <1>6, <1>7, <1>8, <1>9, <1>10, <1>11
     DEF Next, MainThread, StreamThread, CaptureThread

LEMMA CaptureStep == Inv /\ [Next]_vars => CaptureInv'
<1> SUFFICES ASSUME Inv, [Next]_vars PROVE CaptureInv'
  OBVIOUS
<1> USE DEF Inv, CaptureInv, otherVars, queueVars, sampleVars, captureVars, objectVars
<1>t. captures \in Nat /\ starts \in Nat
  BY RtspAssumption DEF TypeOK
<1>1. ASSUME NEW m \in {"start", "stop"}, Call(m) PROVE CaptureInv'
  BY <1>1, <1>t DEF Call
<1>2. CASE Start \/ StopVideo \/ StopStopped
  BY <1>2, <1>t DEF Start, StopVideo, StopStopped
<1>3. CASE StopAudio
  BY <1>3, <1>t DEF StopAudio, MutexFree
<1>4. CASE Lock \/ Handle \/ Wait \/ Load \/ SpuriousWakeup
  BY <1>4, <1>t DEF Lock, MutexFree, Handle, Wait, Load, SpuriousWakeup
<1>5. CASE NewSample
  BY <1>5, <1>t DEF NewSample
<1>6. CASE TakeCapture
  BY <1>6, <1>t DEF TakeCapture
<1>7. CASE Launch \/ GetSink \/ Play \/ RunLoop
  BY <1>7, <1>t DEF Launch, GetSink, Play, RunLoop
<1>8. CASE UNCHANGED vars
  BY <1>8 DEF vars
<1> QED
  BY <1>1, <1>2, <1>3, <1>4, <1>5, <1>6, <1>7, <1>8
     DEF Next, MainThread, StreamThread, CaptureThread

LEMMA ObjectStep == Inv /\ [Next]_vars => ObjectInv'
<1> SUFFICES ASSUME Inv, [Next]_vars PROVE ObjectInv'
  OBVIOUS
<1> USE DEF Inv, ObjectInv, Capturing, otherVars, queueVars, sampleVars, captureVars, objectVars
<1>t. refs \in [Object -> 0..2] /\ made \subseteq Object
  BY DEF TypeOK
<1>o. "pipeline" \in Object /\ "appsink" \in Object /\ "mainloop" \in Object
  BY DEF Object
<1>1. ASSUME NEW m \in {"start", "stop"}, Call(m) PROVE ObjectInv'
  BY <1>1 DEF Call
<1>2. CASE Start \/ StopStopped \/ StreamThread \/ SpuriousWakeup \/ NewSample
  BY <1>2 DEF Start, StopStopped, StreamThread, Lock, Handle, Wait, Load, SpuriousWakeup, NewSample
<1>3. CASE StopAudio \/ StopVideo
  <2>1. capture' = capture
    BY <1>3 DEF StopAudio, StopVideo
  <2>2. /\ made' = made /\ ~playing' /\ refs'["pipeline"] = 0
        /\ Capturing => refs'["appsink"] = 0
    BY <1>3, StopReleases, ReleaseFacts
  <2> QED
    BY <2>1, <2>2
<1>4. CASE TakeCapture
  BY <1>4 DEF TakeCapture
<1>5. CASE Launch
  BY <1>5, <1>t, <1>o DEF Launch
<1>6. CASE GetSink
  <2>1. capture = "sink" /\ playing' = playing /\ ~playing
    BY <1>6 DEF GetSink
  <2>2. CASE /\ capture' = "play" /\ made' = made \cup {"appsink"}
             /\ refs' = [refs EXCEPT !["appsink"] = IF "pipeline" \in Live THEN 2 ELSE 0]
    <3>1. "pipeline" \in Live <=> refs["pipeline"] = 1
      BY <2>1 DEF Live, Dangling
    <3>2. refs'["pipeline"] = refs["pipeline"]
          /\ refs'["appsink"] = IF "pipeline" \in Live THEN 2 ELSE 0
      BY <1>t, <1>o, <2>2
    <3> QED
      BY <2>1, <2>2, <3>1, <3>2
  <2>3. CASE /\ capture' = "idle" /\ made' = made \ {"appsink"}
             /\ refs' = [refs EXCEPT !["pipeline"] = 0]
    BY <1>t, <1>o, <2>1, <2>3
  <2> QED
    BY <1>6, <2>2, <2>3 DEF GetSink
<1>7. CASE Play
  <2>1. "pipeline" \in Live <=> refs["pipeline"] = 1
    BY <1>7 DEF Play, Live, Dangling
  <2> QED
    BY <1>7, <2>1 DEF Play
<1>8. CASE RunLoop
  <2>1. refs'["pipeline"] = refs["pipeline"] /\ refs'["appsink"] = refs["appsink"]
    BY <1>8, <1>t, <1>o DEF RunLoop
  <2> QED
    BY <1>8, <2>1 DEF RunLoop
<1>9. CASE UNCHANGED vars
  BY <1>9 DEF vars
<1> QED
  BY <1>1, <1>2, <1>3, <1>4, <1>5, <1>6, <1>7, <1>8, <1>9
     DEF Next, MainThread, StreamThread, CaptureThread

LEMMA FlowStep == Inv /\ [Next]_vars => FlowInv'
<1> SUFFICES ASSUME Inv, [Next]_vars PROVE FlowInv'
  OBVIOUS
<1> USE DEF Inv, FlowInv, ToLaunch, otherVars, queueVars, sampleVars, captureVars, objectVars
<1>t. refs \in [Object -> 0..2] /\ captures \in Nat
  BY RtspAssumption DEF TypeOK
<1>o. "pipeline" \in Object /\ "appsink" \in Object /\ "mainloop" \in Object
  BY DEF Object
<1>1. ASSUME NEW m \in {"start", "stop"}, Call(m) PROVE FlowInv'
  BY <1>1 DEF Call, CaptureInv, TypeOK
<1>2. CASE Start \/ StopAudio
  BY <1>2 DEF Start, StopAudio
<1>3. CASE StopVideo
  <2>1. refs'["pipeline"] = 0
    BY <1>3, StopReleases, ReleaseFacts
  <2>2. early' = ToLaunch /\ UNCHANGED <<captures, capture>>
    BY <1>3 DEF StopVideo
  <2> QED
    BY <2>1, <2>2
<1>4. CASE StopStopped
  BY <1>4 DEF StopStopped
<1>5. CASE StreamThread \/ SpuriousWakeup \/ NewSample
  BY <1>5 DEF StreamThread, Lock, Handle, Wait, Load, SpuriousWakeup, NewSample
<1>6. CASE TakeCapture
  BY <1>6 DEF TakeCapture
<1>7. CASE Launch
  BY <1>7, <1>t, <1>o DEF Launch
<1>8. CASE GetSink
  <2>1. refs'["pipeline"] \in {0, refs["pipeline"]}
    BY <1>8, <1>t, <1>o DEF GetSink
  <2>2. capture = "sink" /\ capture' \in {"play", "idle"}
        /\ UNCHANGED <<captures, isRunning, calling, early>>
    BY <1>8 DEF GetSink
  <2> QED
    BY <2>1, <2>2
<1>9. CASE Play
  BY <1>9 DEF Play
<1>10. CASE RunLoop
  BY <1>10, <1>t, <1>o DEF RunLoop
<1>11. CASE UNCHANGED vars
  BY <1>11 DEF vars
<1> QED
  BY <1>1, <1>2, <1>3, <1>4, <1>5, <1>6, <1>7, <1>8, <1>9, <1>10, <1>11
     DEF Next, MainThread, StreamThread, CaptureThread

LEMMA InvAlways == Spec => []Inv
<1>1. Inv /\ [Next]_vars => Inv'
  BY TypeStep, CaptureStep, ObjectStep, FlowStep DEF Inv
<1> QED
  BY <1>1, InvInit, PTL DEF Spec

(* Type correctness: no reference count leaves its range, whenever stop    *)
(* comes (rtspparser.cpp).                                                 *)
THEOREM TypeCorrect == Spec => []TypeOK
<1>1. Inv => TypeOK
  BY DEF Inv
<1> QED
  BY <1>1, InvAlways, PTL
-----------------------------------------------------------------------------
(***************************************************************************)
(* RtspParser::stop ends the flow of samples wherever the capture          *)
(* operation is in it, also between the making of the pipeline and its     *)
(* start; only a launch that is still to come escapes it.                  *)
(***************************************************************************)
THEOREM FlowEnds == Spec => []NoFlowAfterStop
<1>1. Inv => NoFlowAfterStop
  BY DEF Inv, FlowInv, ObjectInv, NoFlowAfterStop
<1> QED
  BY <1>1, InvAlways, PTL
-----------------------------------------------------------------------------
LEMMA FirstElement ==
  ASSUME NEW S, NEW q \in Seq(S), q # <<>>
  PROVE  1 \in DOMAIN q /\ q[1] \in S
OBVIOUS

(* What a pop and a push do to a queue that holds the numbers up to n. *)
LEMMA QueueFacts ==
  ASSUME NEW S, NEW q \in Seq(S), NEW n \in Nat,
         \A k \in DOMAIN q : q[k] = n - Len(q) + k
  PROVE  /\ q # <<>> => /\ Head(q) = n - Len(q) + 1
                        /\ Len(Tail(q)) = Len(q) - 1
                        /\ \A k \in DOMAIN Tail(q) : Tail(q)[k] = n - Len(Tail(q)) + k
         /\ Len(Append(q, n + 1)) = Len(q) + 1
         /\ \A k \in DOMAIN Append(q, n + 1) : Append(q, n + 1)[k] = n + 1 - (Len(q) + 1) + k
<1>1. Len(q) \in Nat /\ DOMAIN q = 1..Len(q)
  OBVIOUS
<1>2. ASSUME q # <<>>
      PROVE  /\ Head(q) = n - Len(q) + 1
             /\ Len(Tail(q)) = Len(q) - 1
             /\ \A k \in DOMAIN Tail(q) : Tail(q)[k] = n - Len(Tail(q)) + k
  <2>1. Len(q) >= 1 /\ Head(q) = q[1]
    BY <1>1, <1>2
  <2>2. Len(Tail(q)) = Len(q) - 1 /\ DOMAIN Tail(q) = 1 .. Len(q) - 1
    BY <1>2, <2>1
  <2>3. \A k \in 1 .. Len(q) - 1 : Tail(q)[k] = q[k + 1]
    BY <1>2, <2>1
  <2> QED
    BY <1>1, <2>1, <2>2, <2>3
<1>3. /\ Len(Append(q, n + 1)) = Len(q) + 1
      /\ DOMAIN Append(q, n + 1) = 1 .. Len(q) + 1
      /\ \A k \in 1 .. Len(q) : Append(q, n + 1)[k] = q[k]
      /\ Append(q, n + 1)[Len(q) + 1] = n + 1
  BY <1>1
<1>4. \A k \in 1 .. Len(q) + 1 : k \in 1 .. Len(q) \/ k = Len(q) + 1
  BY <1>1
<1>5. \A k \in DOMAIN Append(q, n + 1) : Append(q, n + 1)[k] = n + 1 - (Len(q) + 1) + k
  BY <1>1, <1>3, <1>4
<1> QED
  BY <1>2, <1>3, <1>5

(* What handing out x, beyond the ones handed out before, does to them. *)
LEMMA HandFacts ==
  ASSUME NEW m \in Nat, NEW q \in Seq(1..m), NEW x \in 1..m, \A k \in DOMAIN q : q[k] < x,
         \A k, l \in DOMAIN q : k < l => q[k] < q[l]
  PROVE  LET r == Append(q, x)
         IN  /\ {r[k] : k \in DOMAIN r} = {q[k] : k \in DOMAIN q} \cup {x}
             /\ \A k, l \in DOMAIN r : k < l => r[k] < r[l]
<1> DEFINE r == Append(q, x)
<1>1. Len(q) \in Nat /\ DOMAIN q = 1..Len(q) /\ \A k \in DOMAIN q : q[k] \in Int
  OBVIOUS
<1>2. /\ DOMAIN r = 1 .. Len(q) + 1
      /\ \A k \in 1 .. Len(q) : r[k] = q[k]
      /\ r[Len(q) + 1] = x
  BY <1>1
<1>3. \A k \in 1 .. Len(q) + 1 : k \in 1 .. Len(q) \/ k = Len(q) + 1
  BY <1>1
<1>4. Len(q) + 1 \in DOMAIN r /\ \A k \in DOMAIN q : k \in DOMAIN r
  BY <1>1, <1>2
<1> HIDE DEF r
<1>5. {r[k] : k \in DOMAIN r} = {q[k] : k \in DOMAIN q} \cup {x}
  BY <1>1, <1>2, <1>3, <1>4
<1>6. \A k, l \in DOMAIN r : k < l => r[k] < r[l]
  <2> TAKE k, l \in DOMAIN r
  <2> HAVE k < l
  <2>1. k \in 1..Len(q)
    BY <1>1, <1>2
  <2>2. CASE l \in 1..Len(q)
    BY <1>1, <1>2, <2>1, <2>2
  <2>3. CASE l = Len(q) + 1
    BY <1>1, <1>2, <2>1, <2>3
  <2> QED
    BY <1>2, <1>3, <2>2, <2>3
<1> QED
  BY <1>5, <1>6 DEF r

(* The numbers up to the last one popped, and where they are. *)
Popped == delivered - Len(queue)
Loaded == {sample} \ {0}

SampleInv ==
    /\ Popped \in Nat
    /\ \A k \in DOMAIN queue : queue[k] = Popped + k
    /\ \A k, l \in DOMAIN handed : k < l => handed[k] < handed[l]
    /\ sample \in {0, Popped}
    /\ 1..Popped = Handed \cup lost \cup Loaded
    /\ Handed \cap lost = {}
    /\ at \in {"lock", "handle"} => Loaded \cap (Handed \cup lost) = {}
    /\ at \notin {"lock", "handle"} => Loaded \subseteq Handed

LEMMA SampleStep == Inv /\ SampleInv /\ [Next]_vars => SampleInv'
<1> SUFFICES ASSUME Inv, SampleInv, [Next]_vars PROVE SampleInv'
  OBVIOUS
<1> USE DEF otherVars, queueVars, sampleVars, captureVars, objectVars
<1>t. /\ queue \in Seq(1..MaxSamples) /\ delivered \in Nat /\ Len(queue) \in Nat
      /\ handed \in Seq(1..MaxSamples) /\ sample \in 0..MaxSamples /\ MaxSamples \in Nat
      /\ at \in {"lock", "handle", "load", "asleep", "awake"}
  BY RtspAssumption DEF Inv, TypeOK
<1>1. CASE UNCHANGED <<at, sampleVars, queueVars>>
  BY <1>1 DEF SampleInv, Popped, Loaded, Handed
<1>2. CASE Lock \/ Wait \/ SpuriousWakeup
  <2>1. /\ UNCHANGED <<sample, handed, lost, queue, delivered>>
        /\ \/ at = "lock" /\ at' = "handle"
           \/ at \notin {"lock", "handle"} /\ at' \notin {"lock", "handle"}
    BY <1>2 DEF Lock, MutexFree, Wait, SpuriousWakeup
  <2>2. Popped' = Popped /\ Loaded' = Loaded /\ Handed' = Handed
    BY <2>1 DEF Popped, Loaded, Handed
  <2> QED
    BY <2>1, <2>2 DEF SampleInv
<1>3. CASE StopVideo
  <2>1. /\ sample' = 0 /\ lost' = lost \cup Loaded
        /\ UNCHANGED <<at, handed, queue, delivered>>
    BY <1>3 DEF StopVideo, Loaded
  <2>2. at = "lock"
    BY <1>3 DEF StopVideo, Inv, CaptureInv
  <2>3. Handed' = Handed /\ Popped' = Popped /\ Loaded' = {}
    BY <2>1 DEF Handed, Popped, Loaded
  <2>4. Handed' \cup lost' \cup Loaded' = Handed \cup lost \cup Loaded
        /\ Handed' \cap lost' = {}
    BY <2>1, <2>2, <2>3 DEF SampleInv
  <2> QED
    BY <2>1, <2>2, <2>3, <2>4 DEF SampleInv
<1>4. CASE Handle
  <2>1. /\ at = "handle" /\ at' = "load" /\ UNCHANGED <<sample, lost, queue, delivered>>
        /\ handed' = IF sample = 0 THEN handed ELSE Append(handed, sample)
    BY <1>4 DEF Handle
  <2>2. Popped' = Popped /\ Loaded' = Loaded
    BY <2>1 DEF Popped, Loaded
  <2>3. CASE sample = 0
    <3>1. handed' = handed /\ Loaded = {}
      BY <2>1, <2>3 DEF Loaded
    <3>2. Handed' = Handed
      BY <3>1 DEF Handed
    <3> QED
      BY <2>1, <2>2, <3>1, <3>2 DEF SampleInv
  <2>4. CASE sample # 0
    <3>1. Loaded = {sample} /\ sample = Popped /\ Popped \in Nat
      BY <2>4 DEF Loaded, SampleInv
    <3>2. sample \in 1..MaxSamples /\ handed' = Append(handed, sample)
      BY <1>t, <2>1, <2>4
    <3>3. ASSUME NEW k \in DOMAIN handed PROVE handed[k] < sample
      <4>1. handed[k] \in Handed
        BY DEF Handed
      <4>2. handed[k] \in 1..Popped /\ handed[k] # sample
        BY <2>1, <3>1, <4>1 DEF SampleInv
      <4> QED
        BY <3>1, <4>2
    <3>4. /\ Handed' = Handed \cup {sample}
          /\ \A k, l \in DOMAIN handed' : k < l => handed'[k] < handed'[l]
      <4>1. \A k, l \in DOMAIN handed : k < l => handed[k] < handed[l]
        BY DEF SampleInv
      <4>2. LET r == Append(handed, sample)
            IN  /\ {r[k] : k \in DOMAIN r} = {handed[k] : k \in DOMAIN handed} \cup {sample}
                /\ \A k, l \in DOMAIN r : k < l => r[k] < r[l]
        BY <1>t, <3>2, <3>3, <4>1, HandFacts
      <4> QED
        BY <3>2, <4>2 DEF Handed
    <3>5. Handed' \cup lost' \cup Loaded' = Handed \cup lost \cup Loaded
      BY <2>1, <2>2, <3>1, <3>4
    <3>6. Handed' \cap lost' = {} /\ Loaded' \subseteq Handed'
      BY <2>1, <2>2, <3>1, <3>4 DEF SampleInv
    <3> QED
      BY <2>1, <2>2, <3>4, <3>5, <3>6 DEF SampleInv
  <2> QED
    BY <2>3, <2>4
<1>5. CASE Load
  <2>1. /\ queue # <<>> /\ sample' = Head(queue) /\ queue' = Tail(queue)
        /\ at \notin {"lock", "handle"} /\ at' = "lock"
        /\ UNCHANGED <<handed, lost, delivered>>
    BY <1>5 DEF Load
  <2>2. \A k \in DOMAIN queue : queue[k] = delivered - Len(queue) + k
    BY DEF SampleInv, Popped
  <2>3. /\ Len(queue') = Len(queue) - 1
        /\ sample' = delivered - Len(queue) + 1
        /\ \A k \in DOMAIN queue' : queue'[k] = delivered - Len(queue') + k
    BY <1>t, <2>1, <2>2, QueueFacts
  <2>4. Popped' = Popped + 1 /\ sample' = Popped' /\ Popped' \in Nat /\ Popped \in Nat
    BY <1>t, <2>1, <2>3 DEF Popped, SampleInv
  <2>5. Handed' = Handed /\ Loaded' = {Popped + 1}
    BY <2>1, <2>4 DEF Handed, Loaded
  <2>6. 1..Popped = Handed \cup lost
    BY <2>1 DEF SampleInv
  <2>7. 1..Popped' = 1..Popped \cup {Popped + 1} /\ Popped + 1 \notin 1..Popped
    BY <2>4
  <2>8. 1..Popped' = Handed' \cup lost' \cup Loaded'
    BY <2>1, <2>5, <2>6, <2>7
  <2>9. Loaded' \cap (Handed' \cup lost') = {}
    BY <2>1, <2>5, <2>6, <2>7
  <2>10. \A k \in DOMAIN queue' : queue'[k] = Popped' + k
    BY <2>1, <2>3 DEF Popped
  <2> QED
    BY <2>1, <2>4, <2>5, <2>8, <2>9, <2>10 DEF SampleInv
<1>6. CASE NewSample
  <2>1. /\ delivered' = delivered + 1 /\ queue' = Append(queue, delivered + 1)
        /\ UNCHANGED sampleVars /\ (at' = at \/ (at = "asleep" /\ at' = "awake"))
    BY <1>6 DEF NewSample
  <2>2. \A k \in DOMAIN queue : queue[k] = delivered - Len(queue) + k
    BY DEF SampleInv, Popped
  <2>3. /\ Len(queue') = Len(queue) + 1
        /\ \A k \in DOMAIN queue' : queue'[k] = delivered + 1 - (Len(queue) + 1) + k
    BY <1>t, <2>1, <2>2, QueueFacts
  <2>4. Popped' = Popped /\ Handed' = Handed /\ Loaded' = Loaded
    BY <1>t, <2>1, <2>3 DEF Popped, Handed, Loaded
  <2>5. ASSUME NEW k \in DOMAIN queue' PROVE queue'[k] = Popped + k
    <3>1. queue'[k] = delivered + 1 - (Len(queue) + 1) + k
      BY <2>3
    <3>2. k \in Int
      BY <1>t, <2>1
    <3> QED
      BY <1>t, <3>1, <3>2 DEF Popped
  <2> QED
    BY <2>1, <2>4, <2>5 DEF SampleInv
<1>7. CASE StopAudio \/ Start \/ StopStopped \/ CaptureThread \/ UNCHANGED vars
           \/ \E m \in {"start", "stop"} : Call(m)
  BY <1>7, <1>1 DEF StopAudio, Start, StopStopped, Call, CaptureThread, TakeCapture, Launch,
                    GetSink, Play, RunLoop, vars
<1> QED
  BY <1>2, <1>3, <1>4, <1>5, <1>6, <1>7 DEF Next, MainThread, StreamThread

(* Between the thread of GStreamer and the handler no sample is lost but   *)
(* the loaded one at a stop, and none is handed out twice or overtaken.    *)
THEOREM NoneLost == Spec => []NoneLostInQueue
<1>1. Init => SampleInv
  <2> SUFFICES ASSUME Init PROVE SampleInv
    OBVIOUS
  <2>0. sample = 0 /\ handed = <<>> /\ lost = {} /\ queue = <<>> /\ delivered = 0 /\ at = "lock"
    BY DEF Init
  <2>1. Popped = 0 /\ Handed = {} /\ Loaded = {} /\ lost = {}
    <3>1. Len(queue) = 0 /\ Loaded = {}
      BY <2>0 DEF Loaded
    <3>2. Handed = {}
      BY <2>0 DEF Handed
    <3>3. Popped = 0
      <4>1. delivered = 0 /\ Len(queue) = 0
        BY <2>0, <3>1
      <4> QED
        BY <4>1 DEF Popped
    <3> QED
      BY <2>0, <3>1, <3>2, <3>3
  <2>2. 1..0 = {}
    OBVIOUS
  <2> QED
    BY <2>0, <2>1, <2>2 DEF SampleInv
<1>2. SampleInv => NoneLostInQueue
  BY DEF SampleInv, NoneLostInQueue, Popped, Loaded
<1> QED
  BY <1>1, <1>2, SampleStep, InvAlways, PTL DEF Spec

(* loadNextSample does not sleep, the stream's mutex held, while it has    *)
(* data: no notification is missed between the test and the wait.          *)
THEOREM SleepsWithoutData == Spec => []SleepsOnlyWithoutData
<1> USE DEF SleepsOnlyWithoutData
<1>1. Init => SleepsOnlyWithoutData
  BY DEF Init
<1>2. SleepsOnlyWithoutData /\ [Next]_vars => SleepsOnlyWithoutData'
  <2> SUFFICES ASSUME SleepsOnlyWithoutData, [Next]_vars PROVE SleepsOnlyWithoutData'
    OBVIOUS
  <2> USE DEF otherVars, queueVars, sampleVars, captureVars, objectVars
  <2>1. CASE StreamThread \/ SpuriousWakeup \/ NewSample
    BY <2>1 DEF StreamThread, Lock, Handle, Wait, Load, SpuriousWakeup, NewSample
  <2>2. CASE UNCHANGED <<at, queue>>
    BY <2>2
  <2>3. CASE MainThread \/ CaptureThread \/ UNCHANGED vars
             \/ \E m \in {"start", "stop"} : Call(m)
    BY <2>2, <2>3 DEF MainThread, StopAudio, StopVideo, Start, StopStopped, Call, CaptureThread,
                      TakeCapture, Launch, GetSink, Play, RunLoop, vars
  <2> QED
    BY <2>1, <2>3 DEF Next
<1> QED
  BY <1>1, <1>2, PTL DEF Spec
=============================================================================
