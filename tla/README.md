# StreamerQtClient in TLA+

Models, model-checking runs and proofs for the streamer in this repository: a
program that offers H264 (and opus) samples to browsers over WebRTC, from files
or from an RTSP source. References are to files of the repository, as
`file:line`.

## The system

| Part | State | Operations | Interacts with |
|---|---|---|---|
| `DispatchQueue` (`dispatchqueue.*`) | `queue`, `quit`, threads, one mutex, one condition variable | `dispatch`, `removePending`, the thread handler, destructor | one for the main thread (`MainThread`), one per `Stream`, one per `RtspParser` |
| `Stream` (`stream.*`) | `_isRunning`, mutex, its queue, the sample handler | `start`, `stop`, `sendSample`, `onSample` | calls its two sources and the handler with its mutex held; `sendSample` dispatches its successor |
| `FileParser`, `H264FileParser`, `OPUSFileParser` | `counter`, `sample`, `sampleTime_us`, last SPS/PPS/IDR | `start`, `stop`, `loadNextSample`, `initialNALUS` | called by `Stream`; `initialNALUS` by `main.cpp` on another thread |
| `RtspParser` and its subclasses | GStreamer globals, `data_queue`, its mutex and condition, a capture queue | `start`, `startCapture`, `on_new_sample`, `loadNextSample`, `stop` | GStreamer threads push, the stream's thread pops |
| Client registry (`main.cpp`, `helpers.*`) | `clients`, `Client::state`, `avStream`, `inputType` | `wsOnMessage`, `createPeerConnection`, `addToStream`, `startStream`, the sample handler | callbacks of libdatachannel dispatch to `MainThread`; the handler reads `clients` on the stream's thread |
| RTP clock (`main.cpp:445-457`, `509-514`) | time stamps, 32 bits | conversion from microseconds, sender reports | the RTP configuration of each client |
| Web page (`client.js`) | `pc`, `dc`, timers, the buttons | `start`, `stop`, `handleOffer`, `sendAnswer`, the data channel | signaling messages with the streamer, through a server that is not in the repository |
| `ArgParser`, `main` | options | `parse`; start-up, wait for input, exit | static objects are destroyed while threads run |
| Sample generators (`samples/*.py`) | - | cut a video into sample files | write the files `FileParser` reads |

What is hard in it, and what would make each part correct:

* **DispatchQueue**: `notify_one` after the unlock, threads that go to sleep
  while closures are pushed, shutdown with threads in any state. Correct: no
  wake-up lost, FIFO, each closure at most once, shutdown terminates.
* **Stream**: a `sendSample` popped before a `stop` survives it and may meet the
  next `start`; the mutex is held while the thread sleeps. Correct: at least one
  chain while it runs, not more and more of them, order of samples kept, nothing
  after `stop`, callers kept waiting by nothing but the contention for the mutex.
* **Registry**: events of a peer connection are turned into operations by id and
  run later; ids are used again; the handler reads what `MainThread` writes.
  Correct: who is gone is removed and nobody else, who is Ready is served, the
  stream stops when nobody is left, unlocked data has one owner at a time.
* **RtspParser**: an operation that never returns on a one-thread queue, globals
  shared by two parsers, a wait with the stream's mutex held, a bounded scan with
  unsigned arithmetic.
* **RTP clock, FileParser**: wrap-around of 32- and 64-bit counters.
* **main**: messages that are not what they should be; destruction order at exit,
  across two source files.

The full list of hazards, each with its line and the properties that cover it,
is in `PROJECT.json`.

## The modules

| Module | Models | State and actions |
|---|---|---|
| `Executor` | what a DispatchQueue promises | `pending`, `running`, `closed`; `Submit`, `Take`, `Finish`, `Clear`, `Close` |
| `DispatchQueue` | `dispatchqueue.*` | one action per critical section, plus what happens outside of one: `Notify` (after the unlock of `dispatch`), `FinishOp`, `NotifyAll`, `Join`. `state` is where each thread is in `dispatchThreadHandler` |
| `Player` | what a Stream promises | `playing`, `last`; `Start`, `Emit`, `Stop` |
| `Source` | what a source over a directory promises to its Stream | `started`, `current`, `time`; `Start`, `Load`, `Stop` |
| `Stream` | `stream.*` over a looping `FileParser` | `sendSample` in steps (`Lock`, `Handle`, `Load`, `DispatchNext`, `ReturnFromOp`) because it keeps the mutex across them; `Start` and `Stop` are one step each, enabled when the mutex is free. The queue is used through the actions of `Executor` |
| `FileParser` | `fileparser.*` | `sample`, `counter`, `time` with the widths of their types; `Start`, `LoadNextSample`, `Stop` |
| `H264FileParser` | `h264fileparser.*`, and the identical caches of `h264rtspparser.*` | extends `FileParser` by the cache of SPS, PPS and IDR: `loadNextSample` stores unit by unit (`BeginLoad`, `SkipUnit`, `BeginStore`, `EndStore`), `initialNALUS` copies unit by unit (`BeginRead`, `ReadUnit`, `Send`) |
| `RtspStream` | `rtspparser.*` under a `Stream` | the capture operation (`TakeCapture`, `Launch`, `GetSink`, `Play`, `RunLoop`), the push of GStreamer's thread (`NewSample`), the wait and pop with the mutex held (`Wait`, `Load`), `Start`, `StopAudio`, `StopVideo`; `stop` comes at any time; `refs` counts the references to GStreamer's objects, `handed` and `lost` say what became of each sample |
| `AnnexB` | external: byte streams with start codes | the units of a stream, said without a search |
| `NalConverter` | `on_new_sample` | for any buffer, the loop over start codes, `Turn`, its end, `EndOfLoop` and `SearchPastTheEnd`, and what follows it, `LastUnit` |
| `SampleGenerator` | `samples/generate_h264.py`, the loop of `H264FileParser` over a file | extends `NalConverter`, so that both converters get the same streams; `Nalus` are the two splits, `Reduce` groups a unit, `MergeUnit` writes one, `ParseUnit` finds one in the file again, `NextFile` |
| `Page` | `client.js` and the signaling channels | `Start`, `Stop`, `ReceiveOffer`, `SendAnswer`; FIFO channels `up`, `down` per page |
| `PingPong` | the data channels of a page, `client.js` and `main.cpp` | messages, timers and the global `dc`; `late` counts the timers that were too early for their `onclose`; `OnPing`, `Timeout`, `OnPong`, `OnClose`, `Stop`, `Lose` |
| `Streamer` | `main.cpp`, `Client` | extends `Page`. `mq` is MainThread's queue; one action per operation, several where an operation waits for the stream's mutex or works on data of the handler (`main` says what is left of it); `OnMalformed` is a message it cannot read; `BeginCollect`, `EndCollect`, `IterationFails`, `SendSample` are the sample handler, `LoadNextSample` the wait for an RTSP sample after it; `OnGathered`, `OnOpen`, `OnStateChange` the callbacks; `Connect`, `Lose`, `Close` the library's events |
| `RtpClock` | time stamps and sender reports of one track in `main.cpp` | uint32 arithmetic; `SendInitialNalus`, `NoInitialNalus`, `Handle` |
| `Shutdown` | from Enter to exit in `main.cpp`, `~Stream`, `~RtspParser`, `~DispatchQueue` | the threads of main, MainThread, the stream, the capture and the library; `gone` are the objects that were destroyed, `misused` those that were used afterwards, among them the globals of `rtspparser.cpp` and the strings of `main.cpp` |
| `ArgParser` | `ArgParser.*` with the callbacks of `main.cpp` | `toKey`, `shortToLongMap`; one action per branch of the loop over the arguments |
| `*Proofs` | theorems about the module they are named after; `H264FileParserProofs` also about `FileParser`, `SampleGeneratorProofs` about `NalConverter`, `MainPartsProofs` about `RtpClock`, `PingPong` and `ArgParser` | |
| `MC*` | instances for TLC | |

Composition:

* `DispatchQueue` implements `Executor`, whose actions `Stream` uses for its queue.
  `MainThread` in `Streamer` and `Shutdown`, and the capture thread in
  `RtspStream`, are executors with one worker.
* `FileParser` implements `Source`; `Stream` uses its source only as `Source`
  allows (`UsesSource`). `H264FileParser` takes the steps of `FileParser`.
* `Stream` implements `Player`. `Streamer`, `RtspStream` and `Shutdown` take from
  it that a running stream goes on calling the handler with the mutex held, and
  that nothing is handed out once `stop` has returned.

How code becomes a step:

* Undefined behaviour: the handler iterates over `clients` while `MainThread`
  may change it. When that happens (`mutated`) the iteration may have met any of
  the Ready clients that exist, or the process ends (`IterationFails`). What
  `initialNALUS` copies of a unit that is being replaced is `Torn`. The use of a
  destroyed object, or of one that `RtspParser::stop` has freed, may end the
  process or have no effect (`Shutdown`, `RtspStream`, `StopStream` of `Streamer`).
  A search that reads behind its buffer ends as `undefined` (`NalConverter`).
* An exception that leaves an operation on `MainThread` (`get` of a message that is
  malformed, `main.cpp:101`-`115`; a second answer; `send` on a closed track), and
  the null pointer of `main.cpp:506`, end the process (`main.at = "ended"`):
  nothing happens after it.
* A client and its peer connection are one number. `alive` is the set of clients
  somebody refers to with a `shared_ptr`; the weak pointers in the callbacks fail
  outside of it. The client that `emplace` drops is destroyed at once, before it
  can have gathered its candidates.
* libdatachannel's events are external: tracks open in any order after the
  connection is made, once each; a connection may be lost at any time; a peer
  connection that is destroyed, or that the page has closed, reports Closed once.
* Samples are numbers; a NAL unit in `H264FileParser` is the number of the sample
  it is from; only the converters have bytes.
* Mutated forms of a definition (a dropped notification, a swapped order) stand
  before it, named and commented as such. No specification uses them; each shows
  that a property would notice that mistake.

## The runs

| Run | Instance | Shows |
|---|---|---|
| `queue` | 2 threads, 2 outside callers, 4 closures | `WorkConserving`: no wake-up is lost; `DestructorReturns`; `ImplementsExecutor` with its liveness |
| `stream` | 2 callers, 3 samples | `ChainsBounded` and `ChainAlive`: one or two chains of `sendSample` while the stream runs; `StarvesOnlyByTurns`; `ImplementsPlayer` with its liveness; `UsesSource` |
| `streamer` | 2 pages, 2 requests, both inputs | `ReadyIsServed`, `RtpConfigOwned`, `SendsToOpenTracks`, `EraseScheduled`; `EndsOnlyWhen` and `ErasesLiveOnlyByReuse`: what ends the process, and what removes a live client; `OpenedIsAdmitted` and `StreamStopsAtLast` |
| `streamer_erase` | 1 page, 2 requests | `ErasesOnlyGoneClients` is violated (finding) |
| `rtsp` | 3 starts, stops at any time, 4 samples, a capture that may fail, a source that may fall silent | `NoneLostInQueue`, `SleepsOnlyWithoutData`, `NoFlowAfterStop`; `StopWaitsOnlyForData`; `FirstStartCaptures` |
| `rtsp_release` | 1 start, 1 sample | `NoUseAfterRelease` is violated (finding) |
| `h264` | 2 key frames, each followed by a slice; counter and time wrap | `ImplementsSource`; `CacheIsKeyFrame` between two loads; `WholeWhenStopped` |
| `clock` | time stamps of 6 bits, every start, samples that fall exactly on a second | `ReportedInTime`, `KeyFrameIsOlder` |
| `shutdown` | both inputs, 3 operations that wait | `StreamUsesLivingObjects`, `NoThreadLeft`, `ExitReturns`, `QuietExitUsesLivingObjects` |
| `convert` | every stream of 0 to 10 bytes out of 3 | `OnlyTheLastUnitTwice` (RTSP); `UnitsKept`, `OneSlicePerFile` and `ParsesBack` (sample files) |
| `args` | every command line of up to 5 tokens: 4 words with no dash, one or two | `AcceptsGrammar`: exactly what reads as options with values and flags, with the values of that reading |
| `ping` | 3 connections of a page | `TokensBounded`: Pings and Pongs multiply only by timers that are too early for their `onclose` |

Bounds, and why they are enough:

* `MaxOps` of the queue (closures dispatched): with two threads, four closures
  give a push during each phase of the other thread and two pushes before a
  notification.
* `NumSamples`: the loop of samples is gone through several times; `Stream` needs
  no bound on restarts or chains, its state space is finite because
  `ChainsBounded` holds.
* `MaxRequests` (clicks on start): two are needed for a second viewer, or for a
  second connection under one id, or for one that `emplace` drops.
* The checks for clients on `MainThread` have no bound, as in the code. One that
  cannot have an effect, because an earlier one waits and no erase is behind that,
  is left out when it would be dispatched (`DispatchCheck` says why).
* `MCAliceFirst`: the two pages are alike, so that the first connection is made for
  one of them by name. The run has liveness properties, for which TLC's symmetry is
  not sound, so this is a constraint on the steps.
* `MaxStarts`, `MaxSamples` of the RTSP stream: a start, a stop and a start that
  finds samples of the past in `data_queue` need two starts; a third one adds a
  second closure behind the capture that never returns. Four samples fill the
  queue and cover one that a stop empties, one it leaves behind, and later ones.
  When they are used up the source is silent for good; what `stop` may wait for
  before that is in `StopWaitsOnlyForData` too.
* `MaxCounter`, `TimeModulus`: the counter starts at its maximum, as uint32 does at
  `-1`, and time wraps within a few loops of the directory.
* `Modulus`, `Rate` and `Frame` of the clock: every position of the wrap relative to
  a second occurs, and, as a second is a whole number of samples, the boundary too;
  `MaxLate` samples go once around.
* `MaxOps` of the shutdown: a message that keeps the WebSocket alive, an operation
  that uses `avStream` and one more may wait at the moment the thread is joined.
* `MaxSize` of the converters: ten bytes hold two start codes of either length and
  units before, between and after them, or codes next to each other, at the front
  and at the end; one and two bytes are those for which `size - 3` wraps.

Deadlock is checked for the queue, the stream, the file source, the clock and the
converters. It is not for the others: with all requests used and everybody gone
the program waits for input, it ends, or the input of the model does.

### Fairness

* `DispatchQueue`: a thread that can go on does; operations return. Nothing is
  assumed of spurious wake-ups, of callers, or of the destructor being called.
* Weak fairness is all that is used: a thread of the process that can go on does.
  For the mutex of the stream that says nothing while `sendSample` takes it again
  and again: it keeps the mutex while it sleeps (`stream.cpp:68`), the mutex is free
  for moments only, and `std::mutex` does not promise it to those who wait. So a
  `stop` may starve, in `Stream`, `Streamer`, `RtspStream` and `Shutdown`, and the
  liveness properties name that as an exception instead of assuming it away:
  `[]<><<Lock>>_vars` and `[]<><<BeginSample>>_vars` say that `sendSample` gets the
  mutex again and again, `main.at = "stop"` that MainThread waits for it.
* Of the RTSP source and of GStreamer nothing is assumed: it may deliver nothing, or
  stop doing so (`LoadNextSample` of `Streamer`, `NewSample` of `RtspStream` and
  `LoadRtspSample` and `DestroyCapture` of `Shutdown` are without fairness).
* Nothing is assumed of pages, the signaling server, the network, the library's
  threads, or of somebody pressing Enter.

### What the runs found

Two runs end in a violation on purpose, each against a line of the repository
(`PROJECT.json` quotes it): an erase removes a live client (`streamer_erase`,
`main.cpp:283`), and `stop` of an RTSP stream frees what the second `stop` uses
(`rtsp_release`, `rtspparser.cpp:150`).

Other behaviour of the code is contained in the models, and the properties are
stated so that they say what remains true with it:

* What ends the process (`EndsOnlyWhen` has the whole list). Any single viewer can
  meet it in a message without an `sdp` or with an id that is not a string, which
  nothing catches on `MainThread` (`main.cpp:101`-`115`), and in the unlocked
  iteration over the map (`main.cpp:430`). With the RTSP input the second viewer
  does (`main.cpp:506`), and the stop for want of viewers may, as it releases
  everything twice. So may a track that closes before its first key frame is sent
  (`main.cpp:513`) and an answer under an id that was used before.
* The unlocked iteration may also miss a Ready client. `SendsToOpenTracks`: the
  handler never sends to one whose tracks have not opened.
* `stop` of an RTSP stream empties the sample that is loaded and keeps those in
  `data_queue` (`rtspparser.cpp:146`). `NoneLostInQueue`: that is all that is lost.
* A `stop` that comes before the capture operation has launched the pipeline does
  not keep it from playing, though nobody streams. `NoFlowAfterStop`: nothing else
  plays after a stop.
* A source that falls silent keeps `stop`, and MainThread with it, waiting
  (`rtspparser.cpp:167`). `StopWaitsOnlyForData`: nothing else does but the
  contention for the mutex.
* The capture operation never returns (`rtspparser.cpp:131`): a second start never
  captures, and a program that has streamed over RTSP hangs at exit.
  `FirstStartCaptures`, `ExitReturns`.
* At exit the queue, mutex and condition of `rtspparser.cpp:7`-`9` are destroyed
  before `avStream`, and so while the stream still waits on them or GStreamer
  pushes (`rtspparser.cpp` is linked last). `StreamUsesLivingObjects` speaks of the
  other objects the thread of the stream uses.
* `clients` outlives `MainThread`, and the callback of the WebSocket refers to the
  stack of `main` (`main.cpp:45`, `189`), which a message that waits or runs keeps
  callable. `QuietExitUsesLivingObjects`: without a capture, and with nobody left to
  call back when `main` returns, no destroyed object is used.
* The last NAL unit of an RTSP buffer is appended twice (`rtspparser.cpp:53`, `72`).
  A start code at the very end of the buffer is not found and stays in the last
  unit, and with one or two bytes the search reads past the end
  (`rtspparser.cpp:42`). `OnlyTheLastUnitTwice`: no other unit is repeated, and none
  that something follows is missing; it holds without the repetition too.
* Who joins a running stream may be sent units of two key frames
  (`h264fileparser.cpp:42`). `WholeWhenStopped`: not from one that has stopped.
* A sample exactly one second after the last report brings no report
  (`main.cpp:455` has `> 1`), though the comment before it says "at least 1 second
  ago". `ReportedInTime` says what the code does: more than a second does. The run
  `clock` has samples that fall on a second.
* A Pong on a later channel (`client.js:85`) adds one to the Pings and Pongs of that
  channel for as long as it lives. `TokensBounded`: this takes a timer that fires
  before the `onclose` of its own channel; what a closed channel leaves behind is
  bounded by that and does not grow with the channels that were ever open.
* `ArgParser` takes more than the usage text of `main.cpp:157` shows: either name
  with either number of dashes, and repetitions, of which the last value counts.

And outside of the models: the audio source is neither started nor chosen
(`stream.cpp:54`, `100`), so the audio track of every client stays silent;
`createStream1` passes the arguments of `h264RtspParser` in the wrong order
(`main.cpp:348`), which times the samples of an RTSP stream one second apart.

## The proofs

Checked by TLAPS for all values of the constants, under the named assumptions of
the modules (finite sets of threads, `MaxOps` a natural number, at least one
sample and so on).

`DispatchQueueProofs`
: `TypeCorrect`; `JoinIsAwake` (`NoSleeperAtJoin`), from the fact that `quit` is
  set before the destructor does anything else; `NoLostWakeup`
  (`WorkConserving`), which is inductive over the type invariant: while somebody
  sleeps, a push adds a closure and a notifying thread, a notification turns a
  notifying thread into a ready one, a take removes a closure and a ready thread,
  and a thread goes to sleep only when nothing is pending. The lemmas
  `ReadyGrows` and `ReadyShrinks` do the counting. `RefinesExecutor`:
  `Spec => Abs!Spec`, with `queue`, `op` and `quit` for the executor's variables.

`StreamProofs`
: `TypeCorrect`, then the invariant `ChainInv`: who holds the mutex when, one or
  two chains while the stream runs, rest otherwise, and `InOrder`: the sample
  that is loaded is the one after the one handed out last (except between the
  handler and `loadNextSample`). None of the properties is inductive without it:
  that `stop` leaves nothing pending says nothing of the closure that was popped
  before. From it `AtMostTwoChains`, `RunningStreamHasAChain`,
  `StoppedStreamIsQuiet`, `RefinesPlayer` (`Spec => Play!Spec`) and
  `UsesSourceWell`: the source is started when it is not, and loaded and stopped
  only while it is.

`H264FileParserProofs`
: of `FileParser`: `TypeCorrect`, also for an empty directory and without loop.
  `RefinesSource`: with a loop and a sample the parser implements `Source`; the
  invariant is that of a started source counter and sample are the same, and of a
  stopped one the counter is the largest, whose successor is 0. `ModNext` and its
  neighbours are the arithmetic of the wraps.
  Of `H264FileParser`: `IsFileParser` (`H264Spec => Spec`). `CacheCorrect`
  (`CacheIsKeyFrame`) needs where `loadNextSample` is in a sample and which of its
  units it has stored (`LoadInv`), and that a key frame's units are stored whole
  before the next load; `StoppedIsWhole` adds that what was copied while nothing
  is loaded is from one cache (`ReadInv`, `CopyInv`).

`RtspStreamProofs`
: `TypeCorrect` with the counting of references (`Inv`), for stops at any point of
  the capture operation; `NoneLost` (`NoneLostInQueue`): what is loaded and what is
  in `data_queue` are consecutive numbers up to the last delivered, and each number
  before them was handed out, once, or emptied by a stop; `SleepsWithoutData`: a
  push wakes who sleeps; `FlowEnds` (`NoFlowAfterStop`).

`StreamerProofs`
: for any set of pages, any number of requests and either input. `TypeCorrect`
  needs that a client's number is new when it is made, and that whoever can
  report its end was created for some page (`RegistryInv`). `ConfigOwned`
  (`RtpConfigOwned`) and `OpenTracksOnly` (`SendsToOpenTracks`) follow from
  `OpensInv` (an operation for a track is in the queue only once the track has
  opened) and `AdmissionInv` (the client's state says which tracks have opened;
  the client that is being admitted is not `Ready`, whom the handler has
  collected is). `Served` (`ReadyIsServed`) adds `ServedInv`: in mid-operation a
  client is `Ready` one step before `startStream`, and `MainThread` goes to stop
  the stream only while the map is empty, which no other thread changes.
  `EraseAlwaysScheduled` (`EraseScheduled`) is inductive over the type invariant:
  the step that takes an erase from the queue removes whoever has its id.
  `LiveErasedByReuse` (`ErasesLiveOnlyByReuse`): whatever erase is in the queue was
  caused by the end of a peer connection of that id (`CauseInv`).
  `EndsForKnownReasons` (`EndsOnlyWhen`) follows the answer to an offer on its way:
  from the channel to the page, through `handleOffer` and the channel back, to the
  operation on `MainThread`, it is in one place only (`AnswerInv`), so a client
  with an id of its own that has had an answer gets no other (`AnsweredInv`); and a
  stream exists only once a client has become `Ready` (`StreamInv`), which makes
  whom `sendInitialNalus` is for the second one. MainThread goes to stop only with an
  empty map, which only MainThread fills.

`ShutdownProofs`
: `TypeCorrect`; `LivingObjects` and `ThreadsEnd`, from an invariant that orders the
  destruction: the stream goes only when nobody holds it, MainThread only when
  `~Stream` is over on whichever thread ran it, and the clients after both;
  `QuietExit` (`QuietExitUsesLivingObjects`) adds what a quiet return of `main` rules
  out: with no client, no report and no message that waits or runs there is
  nobody who calls back, the operations that are left on `MainThread` find no
  client, and the sample that is under way finds `MainThread`
  (`SampleFindsObjects`).

`MainPartsProofs`
: of `RtpClock`, for every width of a time stamp and every clock: `ClockTypeCorrect`;
  `ReportsComeInTime` (`ReportedInTime`) from `ClockInv`: while no report is owed
  the time since the last one is no more than the difference of the two time
  stamps, which is at most a second, and one frame more does not wrap
  (`NextDifference`). That holds before the first report too, where the difference
  is to 0. `KeyFrameComesFirst` (`KeyFrameIsOlder`).
  Of `PingPong`, for any number of channels: `PingTypeCorrect` and
  `PingsDoNotMultiply` (`TokensBounded`). Every message and timer is a token; a
  step adds one (`AddToken`) only where it removes one (`RemoveToken`) or opens a
  channel, and tokens are at most the busy channels and `late` (`PingCounts`): a
  channel that is no longer busy has lost its last message, or its last timer, with
  the step that made it so. A channel in `dcTimeout` has a timer that has not
  fired, without which `dc.onclose` could take one too many.
  Of `ArgParser`, for any options and flags and any number of tokens:
  `ArgTypeCorrect` and `GrammarAccepted` (`AcceptsGrammar`). The invariant has a
  reading of the tokens that were looked at (`ParsedAs`): the parser has its values
  and flags, and every reading of the whole command line begins with it. So a
  token that cannot go on refutes them all (`ArgRefuse`), and at the end there is
  one reading or none (`ArgFinish`).

`SampleGeneratorProofs`
: for buffers of any length over any bytes. Of `NalConverter`:
  `ConverterTypeCorrect`: nothing outside of the buffer is appended. `LastUnitTwice`
  (`OnlyTheLastUnitTwice`): the loop stands at the beginning or at the end of a
  start code that something follows (`EndsAre`, `EndsApart`: start codes do not
  overlap), has the units that begin before that, in their order, and its search
  stops where the next unit ends (`SearchIs`); after the loop it has all of them.
  `Enumeration`: a sequence of all units in their order is the one that `Ordered`
  chooses, as two that differ would differ first somewhere (`OneOrder`).
  Of `SampleGenerator`, from `GenInv`, which has one part for each stage.
  `NoUnitIsLost` (`UnitsKept`): the splits leave the units (`NalusAreUnits`), in
  their order, and a unit that is grouped moves the last cut by one
  (`ReduceKeepsUnits`). There is a sequence of the units at all: if there were none
  up to some place, there would be a first such place (`UnitsBefore`).
  `OneSlice` (`OneSlicePerFile`), with the mask as remainder
  (`ReduceKeepsSlices`). `WrittenIsRead` (`ParsesBack`): the units are laid out in
  the file one after the other (`LaidOut`), so the parser, which stands where one
  ends (`EndIs`), reads the length that was written (`LengthIs`). This is the only
  part that needs `GeneratorAssumption`: the length of a unit fits four bytes
  (`BigEndianIs`); the generator raises an exception otherwise. The three theorems
  about the generator are of streams that end in a unit (`EndsInUnit`), as those of
  an encoder do: there the units of the stream and those that the RTSP converter
  sees are the same (`WholeUnits`), which lets the lemmas serve both. For streams
  that end with a start code the run `convert` checks them.

Every invariant and every action property of the passing runs is proved, and so
are the safety parts of the refinements. Not proved, only model-checked: what
holds under fairness (`DestructorReturns`, `StarvesOnlyByTurns`, `OpenedIsAdmitted`,
`StreamStopsAtLast`, `StopWaitsOnlyForData`, `FirstStartCaptures`, `ExitReturns`,
the liveness of the two refinements), which is out of the prover's reach. Only
proved, not among the runs: the type invariants of `RtspStream`, `Shutdown`,
`RtpClock`, `PingPong`, `ArgParser`, `NalConverter` and the cache, `NoSleeperAtJoin`
and `StoppedIsQuiet`.

## Not modelled, and the plan

* `libs/` has the headers of libdatachannel, FFmpeg and nlohmann's json, nearly all
  of the lines of the repository. It is third-party code, as is GStreamer; what
  `main.cpp` sees of a peer connection, and `rtspparser.cpp` of a pipeline, is
  modelled as external events.
* `generate_opus.py` and the command lines of both generators are calls of ffmpeg
  and file I/O. The build files have no behaviour at run time.
* Start-up polls the WebSocket until it is open or closed, and nothing else runs.
* What is presentation in the page: media elements, buttons, logs.
* Audio in `Stream`, as no step of the code gets to it; the times of RTSP samples.
* `KeyFrameIsOlder` leaves out who joins later than half the range of a time stamp.
* What happens behind the end of a buffer of one or two bytes, and after the use of
  an object that is gone, if the process survives it.

What is left to do: the times of RTSP samples, once the code sets them, and the
audio source in `Stream`, once a step of the code gets to it.
