----------------------------- MODULE SynthLink -----------------------------
(***************************************************************************)
(* The synth's control link: SynthService::handleRpc (synth.cpp), which    *)
(* walks one flush of the EE's command queue and answers it; the bridge    *)
(* that delivers the engine's replies on entry to SynthEE::Poll            *)
(* (ghpc_synth_bridge.cpp); the engine (SynthEngine); and, external, the   *)
(* EE's synth client, which is the guest program.                          *)
(*                                                                         *)
(* The EE's main thread runs everything but Render.  Between its critical  *)
(* sections the audio thread may render at any point, so a flush is walked *)
(* one critical section at a time, while what the EE does between two      *)
(* calls into the engine is one step.                                      *)
(*                                                                         *)
(* The guest is modelled from the comments of the four files, which were   *)
(* read off its disassembly: a poll dispatches the replies delivered to    *)
(* it, ships one SPU chunk if none is in flight, answers every data        *)
(* request with what its reader holds of the channel, closes them with an  *)
(* end record and flushes the queue.                                       *)
(***************************************************************************)
EXTENDS SynthEngine

CONSTANTS
    Real,          \* channels the EE's reader holds; a request for another
                   \* is skipped
    Bendable,      \* channels the whammy bends
    MaxSlip,       \* max_slip, how far from the song the guest lets a bent
                   \* channel get
    BentSteps,     \* bound: steps a bent channel takes in a frame, 1 / Rate
                   \* each, the song's among them
    MaxReplies,    \* kRingBytes / kSlotBytes, replies one delivery holds
    MaxLost,       \* bound: once so many replies are lost the guest's heap
                   \* has room
    MaxSamples,    \* bound: samples of a stream the reader ever holds
    MaxChunks,     \* bound: chunks of an SPU upload
    MaxCalls,      \* bound: calls the game makes between two polls
    MaxEvents      \* bound: game calls in all

ASSUME LinkAssumption ==
    /\ Real \subseteq Channels
    /\ Bendable \subseteq Channels
    /\ MaxSlip \in Nat
    /\ BentSteps \subseteq Nat
    /\ Freq \in BentSteps
    /\ MaxReplies \in Nat
    /\ MaxLost \in Nat
    /\ MaxSamples \in Nat
    /\ MaxChunks \in Nat
    /\ MaxCalls \in Nat
    /\ MaxEvents \in Nat

VARIABLES
    phase,      \* main thread: "game", "poll" (replies delivered, Poll not
                \* yet run), "walk" (handleRpc), "spin" (in Terminate, after
                \* its flush), "off" (terminated)
    calls,      \* the EE's command queue, flushed by CtlClientPoll
    flush,      \* records of the flush being walked
    reply,      \* handleRpc's highest ranked answer so far, <<>> if none
    deferred,   \* handleRpc's other answers
    delivery,   \* replies the bridge passes to this Poll
    ring,       \* the bridge has its guest buffer, g_ring # 0
    lost,       \* history: replies taken from the engine and not delivered
    \* the guest
    eeStream,   \* a stream: "none", "asked", "ready", "playing", "gone"
    eeVoice,    \* a sample: "none", "idle", "playing"
    held,       \* samples of each channel the stream's reader holds so far
    sent,       \* samples of a channel sent to the engine
    spuLeft,    \* chunks of the upload not yet shipped
    spuInFlight,\* gSpuInFlight
    bent,       \* channels of a stream the game has bent
    terminating,\* Terminate has no answer yet
    events      \* bound: game calls made so far

guestVars ==
    <<eeStream, eeVoice, held, sent, spuLeft, spuInFlight, bent, terminating>>
linkVars == <<phase, calls, flush, reply, deferred, delivery, ring, lost>>
vars == <<engineVars, linkVars, guestVars, events>>

----------------------------------------------------------------------------
(* Answers the service gives: the ones the guest waits for. *)
StreamOp(s) == [cmd |-> "StreamOp", stream |-> s]
SpuSendDone == [cmd |-> "SpuSendDone"]
Terminated == [cmd |-> "Terminated"]

(* Commands, EE to IOP. *)
Command(cmd, s) == [cmd |-> cmd, stream |-> s]
ChannelCommand(cmd, s, c) == [cmd |-> cmd, stream |-> s, channel |-> c]
VoiceCommand(cmd, v) == [cmd |-> cmd, voice |-> v]
DataRecord(len) == [cmd |-> "Data", len |-> len]
SpuChunk == [cmd |-> "SpuChunk"]
Terminate == [cmd |-> "Terminate"]

\* Mutant: Terminate's answer yields to the others.
RankTerminatedLast(answer) ==
    CASE answer.cmd = "SpuSendDone" -> 2
      [] answer.cmd = "StreamOp" -> 3
      [] answer.cmd = "Terminated" -> 1

Rank(answer) ==
    CASE answer.cmd = "SpuSendDone" -> 1
      [] answer.cmd = "StreamOp" -> 2
      [] answer.cmd = "Terminated" -> 3

Init ==
    /\ EngineInit
    /\ phase = "game"
    /\ calls = <<>>
    /\ flush = <<>>
    /\ reply = <<>>
    /\ deferred = <<>>
    /\ delivery = <<>>
    /\ ring = FALSE
    /\ lost = <<>>
    /\ eeStream = [s \in Streams |-> "none"]
    /\ eeVoice = [v \in Voices |-> "none"]
    /\ held = [s \in Streams |-> 0]
    /\ sent = [s \in Streams |-> [c \in Channels |-> 0]]
    /\ spuLeft = 0
    /\ spuInFlight = FALSE
    /\ bent = [s \in Streams |-> {}]
    /\ terminating = FALSE
    /\ events = 0

----------------------------------------------------------------------------
(* The game, between two polls: each call appends one record.             *)
GameCall(record) ==
    /\ phase = "game"
    /\ Len(calls) < MaxCalls
    /\ events < MaxEvents
    /\ calls' = Append(calls, record)
    /\ events' = events + 1
    /\ UNCHANGED <<engineVars, phase, flush, reply, deferred, delivery, ring,
                   lost, held, sent, spuLeft, spuInFlight, terminating>>

(* StreamEE::Poll, state 2: the stream is described and its answer awaited. *)
Prepare(s) ==
    /\ eeStream[s] = "none"
    /\ GameCall(Command("StreamInfo", s))
    /\ eeStream' = [eeStream EXCEPT ![s] = "asked"]
    /\ UNCHANGED <<eeVoice, bent>>

Play(s) ==
    /\ eeStream[s] = "ready"
    /\ GameCall(Command("Play", s))
    /\ eeStream' = [eeStream EXCEPT ![s] = "playing"]
    /\ UNCHANGED <<eeVoice, bent>>

Stop(s) ==
    /\ eeStream[s] = "playing"
    /\ GameCall(Command("Stop", s))
    /\ eeStream' = [eeStream EXCEPT ![s] = "ready"]
    /\ UNCHANGED <<eeVoice, bent>>

Destroy(s) ==
    /\ eeStream[s] \in {"ready", "playing"}
    /\ GameCall(Command("Destroy", s))
    /\ eeStream' = [eeStream EXCEPT ![s] = "gone"]
    /\ UNCHANGED <<eeVoice, bent>>

(* The whammy bends a channel and lets it go. *)
Bend(s, c) ==
    /\ eeStream[s] = "playing"
    /\ GameCall(ChannelCommand("SlipSpeed", s, c))
    /\ bent' = [bent EXCEPT ![s] = @ \cup {c}]
    /\ UNCHANGED <<eeStream, eeVoice>>

Unbend(s, c) ==
    /\ eeStream[s] = "playing"
    /\ c \in bent[s]
    /\ GameCall(ChannelCommand("SlipStop", s, c))
    /\ bent' = [bent EXCEPT ![s] = @ \ {c}]
    /\ UNCHANGED <<eeStream, eeVoice>>

Realign(s, c, samples) ==
    /\ eeStream[s] = "playing"
    /\ c \in bent[s]
    /\ GameCall([cmd |-> "SlipOffset", stream |-> s, channel |-> c,
                 samples |-> samples])
    /\ UNCHANGED <<eeStream, eeVoice, bent>>

CreateSample(v) ==
    /\ eeVoice[v] = "none"
    /\ GameCall(VoiceCommand("Create", v))
    /\ eeVoice' = [eeVoice EXCEPT ![v] = "idle"]
    /\ UNCHANGED <<eeStream, bent>>

StartSample(v) ==
    /\ eeVoice[v] \in {"idle", "playing"}
    /\ GameCall(VoiceCommand("Start", v))
    /\ eeVoice' = [eeVoice EXCEPT ![v] = "playing"]
    /\ UNCHANGED <<eeStream, bent>>

(* StopImpl clears mPlaying on the EE itself. *)
StopSample(v) ==
    /\ eeVoice[v] = "playing"
    /\ GameCall(VoiceCommand("StopSample", v))
    /\ eeVoice' = [eeVoice EXCEPT ![v] = "idle"]
    /\ UNCHANGED <<eeStream, bent>>

PauseSample(v, pause) ==
    /\ eeVoice[v] = "playing"
    /\ GameCall(VoiceCommand(IF pause THEN "Pause" ELSE "Resume", v))
    /\ UNCHANGED <<eeStream, eeVoice, bent>>

DestroySample(v) ==
    /\ eeVoice[v] # "none"
    /\ GameCall(VoiceCommand("DestroySample", v))
    /\ eeVoice' = [eeVoice EXCEPT ![v] = "none"]
    /\ UNCHANGED <<eeStream, bent>>

(* SPUStartSend; the next poll ships the first chunk. *)
Upload(n) ==
    /\ phase = "game"
    /\ spuLeft = 0
    /\ events < MaxEvents
    /\ spuLeft' = n
    /\ events' = events + 1
    /\ UNCHANGED <<engineVars, linkVars, eeStream, eeVoice, held, sent,
                   spuInFlight, bent, terminating>>

(* SynthEE::Terminate flushes its record and spins on the answer: the main *)
(* thread polls no more.                                                   *)
StartTerminate ==
    /\ phase = "game"
    /\ events < MaxEvents
    /\ events' = events + 1
    /\ phase' = "walk"
    /\ flush' = Append(calls, Terminate)
    /\ calls' = <<>>
    /\ terminating' = TRUE
    /\ UNCHANGED <<engineVars, reply, deferred, delivery, ring, lost, eeStream,
                   eeVoice, held, sent, spuLeft, spuInFlight, bent>>

(* The stream's reader gets one more sample of every channel off the disc. *)
ReadMore(s) ==
    /\ phase # "off"
    /\ eeStream[s] \in {"ready", "playing"}
    /\ held[s] < MaxSamples
    /\ held' = [held EXCEPT ![s] = @ + 1]
    /\ UNCHANGED <<engineVars, linkVars, eeStream, eeVoice, sent, spuLeft,
                   spuInFlight, bent, terminating, events>>

----------------------------------------------------------------------------
(* How many of the replies due a delivery passes on: all the buffer holds, *)
(* or none while guestMalloc has no room for the buffer.                   *)
Fitting(there) == IF there THEN Least(Len(RepliesDue), MaxReplies) ELSE 0

(* guestMalloc, for the first delivery that has something to pass on, and  *)
(* again for the next one when it has no room.                             *)
RingAllocated ==
    IF ring \/ RepliesDue = <<>> THEN UNCHANGED ring
    ELSE \/ ring' = TRUE
         \/ Len(lost) < MaxLost /\ UNCHANGED ring

(* deliverReplies, on a fresh entry to SynthEE::Poll: the replies are      *)
(* taken from the engine, and those that fit become calls of CtlDispatch.  *)
(* The others are gone: the engine has forgotten its answers and counts    *)
(* its requests as in flight.                                              *)
DeliverReplies ==
    /\ phase = "game"
    /\ phase' = "poll"
    /\ TakeReplies
    /\ RingAllocated
    /\ delivery' = SubSeq(RepliesDue, 1, Fitting(ring'))
    /\ lost' = lost \o SubSeq(RepliesDue, Fitting(ring') + 1, Len(RepliesDue))
    /\ UNCHANGED <<calls, flush, reply, deferred, guestVars, events>>

(* How often a record or an answer is in a queue of them. *)
Times(seq, x) == Cardinality({i \in DOMAIN seq : seq[i] = x})

(* What CtlDispatch makes of a sequence of replies, in the guest's state. *)
Brings(replies, answer) == \E i \in DOMAIN replies : replies[i] = answer

StreamsAfter(replies) ==
    [s \in Streams |->
       IF eeStream[s] = "asked" /\ Brings(replies, StreamOp(s))
       THEN "ready" ELSE eeStream[s]]

VoicesAfter(replies) ==
    [v \in Voices |->
       IF eeVoice[v] = "playing" /\ Brings(replies, SampleDone(v))
       THEN "idle" ELSE eeVoice[v]]

(* SendToIOP, for a stream: each request in order gets at most RequestLen  *)
(* samples and at most what the reader holds; a request it can give        *)
(* nothing is skipped; the end record follows the last one.                *)
Wanted(s, c) ==
    IF StreamsAfter(delivery)[s] \in {"ready", "playing"}
    THEN Times(delivery, DataRequest(s, c)) ELSE 0

Served(s, c) ==
    IF c \in Real THEN Least(held[s] - sent[s][c], Wanted(s, c) * RequestLen)
    ELSE 0

DataRecords(s, c) ==
    FlattenSeq([k \in 1..((Served(s, c) + RequestLen - 1) \div RequestLen) |->
      <<ChannelCommand("DataTarget", s, c),
        DataRecord(Least(RequestLen, Served(s, c) - (k - 1) * RequestLen))>>])

StreamRecords(s) ==
    IF \A c \in Channels : Wanted(s, c) = 0 THEN <<>>
    ELSE Append(FlattenSeq([c \in Channels |-> DataRecords(s, c)]),
                Command("BatchEnd", s))

(* SPUSendPoll. *)
AwaitsChunk == spuInFlight /\ ~Brings(delivery, SpuSendDone)
ShipsChunk == spuLeft > 0 /\ ~AwaitsChunk

(* The rest of SynthEE::Poll: the replies are dispatched, SPUSendPoll      *)
(* ships a chunk unless one is in flight, StreamEE::PollAll answers the    *)
(* data requests and CtlClientPoll flushes the queue if it holds anything. *)
Poll ==
    /\ phase = "poll"
    /\ flush' = calls
                \o (IF ShipsChunk THEN <<SpuChunk>> ELSE <<>>)
                \o FlattenSeq([i \in 1..Cardinality(Streams) |->
                                 StreamRecords(SetToSeq(Streams)[i])])
    /\ phase' = IF flush' = <<>> THEN "game" ELSE "walk"
    /\ eeStream' = StreamsAfter(delivery)
    /\ eeVoice' = VoicesAfter(delivery)
    /\ spuInFlight' = (ShipsChunk \/ AwaitsChunk)
    /\ spuLeft' = IF ShipsChunk THEN spuLeft - 1 ELSE spuLeft
    /\ sent' = [s \in Streams |->
                  [c \in Channels |-> sent[s][c] + Served(s, c)]]
    /\ calls' = <<>>
    /\ delivery' = <<>>
    /\ UNCHANGED <<engineVars, reply, deferred, ring, lost, held, bent,
                   terminating, events>>

----------------------------------------------------------------------------
\* Mutant: an answer that another one outranks is lost.
OfferLast(answer) ==
    IF reply = <<>> \/ Rank(answer) > Rank(reply[1])
    THEN reply' = <<answer>> /\ UNCHANGED deferred
    ELSE deferred' = Append(deferred, answer) /\ UNCHANGED reply

(* handleRpc.  Only one answer rides the result of the RPC: the highest    *)
(* ranked; one it displaces, or that does not outrank it, is deferred.     *)
Offer(answer) ==
    IF reply = <<>>
    THEN reply' = <<answer>> /\ UNCHANGED deferred
    ELSE IF Rank(answer) <= Rank(reply[1])
    THEN deferred' = Append(deferred, answer) /\ UNCHANGED reply
    ELSE deferred' = Append(deferred, reply[1]) /\ reply' = <<answer>>

(* One record of the flush.  handleRpc stops at a record it cannot read or *)
(* whose length runs past the flush, which would lose what follows: the    *)
(* guest's queue is a buffer of its own memory and holds whole records     *)
(* only (CtlClientCall), so flush is a sequence of them.  The service      *)
(* answers every SPU chunk: with GHPC_SPU_ACK=0, a tracing aid, it would   *)
(* leave them unanswered on purpose.                                       *)
Record(cmd) ==
    /\ phase = "walk"
    /\ flush # <<>>
    /\ Head(flush).cmd = cmd
    /\ flush' = Tail(flush)
    /\ UNCHANGED <<phase, calls, delivery, ring, lost, guestVars, events>>

Unanswered == UNCHANGED <<reply, deferred>>

HandleStreamInfo ==
    /\ Record("StreamInfo")
    /\ StreamInfo(Head(flush).stream)
    /\ Offer(StreamOp(Head(flush).stream))

HandleTerminate ==
    /\ Record("Terminate")
    /\ Offer(Terminated)
    /\ UNCHANGED engineVars

(* The chunk goes into SPU RAM, which no control flow here reads. *)
HandleSpuChunk ==
    /\ Record("SpuChunk")
    /\ Offer(SpuSendDone)
    /\ UNCHANGED engineVars

HandleStream ==
    /\ \/ Record("Play") /\ StreamPlay(Head(flush).stream)
       \/ Record("Stop") /\ StreamStop(Head(flush).stream)
       \/ Record("Destroy") /\ StreamDestroy(Head(flush).stream)
    /\ Unanswered

HandleSlip ==
    /\ \/ /\ Record("SlipSpeed")
          /\ StreamSlipSpeed(Head(flush).stream, Head(flush).channel)
       \/ /\ Record("SlipOffset")
          /\ StreamSlipOffset(Head(flush).stream, Head(flush).channel,
                              Head(flush).samples)
    /\ Unanswered

(* SlipStop's first critical section; its second is a SlipOffset to 0. *)
HandleSlipStop ==
    /\ phase = "walk"
    /\ flush # <<>>
    /\ Head(flush).cmd = "SlipStop"
    /\ StreamSlipOff(Head(flush).stream, Head(flush).channel)
    /\ flush' = <<[cmd |-> "SlipOffset", stream |-> Head(flush).stream,
                   channel |-> Head(flush).channel, samples |-> 0]>>
                \o Tail(flush)
    /\ UNCHANGED <<phase, calls, delivery, ring, lost, guestVars, events>>
    /\ Unanswered

HandleData ==
    /\ \/ /\ Record("DataTarget")
          /\ StreamDataTarget(Head(flush).stream, Head(flush).channel)
       \/ Record("Data") /\ StreamData(Head(flush).len)
       \/ Record("BatchEnd") /\ StreamDataBatchEnd(Head(flush).stream)
    /\ Unanswered

HandleSample ==
    /\ \/ Record("Create") /\ SampleCreate(Head(flush).voice)
       \/ Record("Start") /\ SampleStart(Head(flush).voice)
       \/ Record("StopSample") /\ SampleStop(Head(flush).voice)
       \/ Record("Pause") /\ SamplePause(Head(flush).voice, TRUE)
       \/ Record("Resume") /\ SamplePause(Head(flush).voice, FALSE)
       \/ Record("DestroySample") /\ SampleDestroy(Head(flush).voice)
    /\ Unanswered

(* The walk is over: the deferred answers are queued for the next poll and *)
(* the one that rides the result is called before the RPC returns.         *)
FinishFlush ==
    /\ phase = "walk"
    /\ flush = <<>>
    /\ QueueReplies(deferred)
    /\ deferred' = <<>>
    /\ reply' = <<>>
    /\ eeStream' = StreamsAfter(reply)
    /\ eeVoice' = VoicesAfter(reply)
    /\ spuInFlight' = (spuInFlight /\ ~Brings(reply, SpuSendDone))
    /\ terminating' = (terminating /\ ~Brings(reply, Terminated))
    /\ phase' = IF terminating' THEN "spin"
                ELSE IF terminating THEN "off" ELSE "game"
    /\ UNCHANGED <<calls, flush, delivery, ring, lost, held, sent, spuLeft, bent,
                   events>>

(* The audio thread.  The guest gives a bent channel the song's speed when *)
(* another would take it further than MaxSlip from the song.               *)
Bends ==
    {bend \in [DOMAIN streams -> [Bendable -> BentSteps]] :
       \A s \in DOMAIN streams, c \in Bendable :
         bend[s][c] # Freq =>
           /\ streams[s].channels[c].slipping
           /\ IF bend[s][c] > Freq THEN Offset(streams[s], c) < MaxSlip
              ELSE Offset(streams[s], c) > -MaxSlip}

Audio ==
    /\ \E bend \in Bends, ended \in SUBSET Sounding : Render(bend, ended)
    /\ UNCHANGED <<linkVars, guestVars, events>>

----------------------------------------------------------------------------
Game ==
    \/ \E s \in Streams : Prepare(s) \/ Play(s) \/ Stop(s) \/ Destroy(s)
    \/ \E s \in Streams, c \in Bendable :
         \/ Bend(s, c) \/ Unbend(s, c)
         \/ \E samples \in -MaxSlip..MaxSlip : Realign(s, c, samples)
    \/ \E v \in Voices :
         \/ CreateSample(v) \/ StartSample(v) \/ StopSample(v)
         \/ DestroySample(v)
         \/ \E pause \in BOOLEAN : PauseSample(v, pause)
    \/ \E n \in 1..MaxChunks : Upload(n)
    \/ StartTerminate

Service ==
    \/ HandleStreamInfo \/ HandleTerminate \/ HandleSpuChunk
    \/ HandleStream \/ HandleSlip \/ HandleSlipStop
    \/ HandleData \/ HandleSample
    \/ FinishFlush

Next ==
    \/ Game
    \/ \E s \in Streams : ReadMore(s)
    \/ DeliverReplies
    \/ Poll
    \/ Service
    \/ Audio

Spec == Init /\ [][Next]_vars

(* The guest's main loop polls for ever, the executor runs what it calls,  *)
(* the disc is read and the audio device asks for samples.  DeliverReplies *)
(* and Poll are stated by the change of phase they are: no other action    *)
(* makes it, and each can be taken whenever its phase has come.            *)
FairSpec ==
    /\ Spec
    /\ WF_phase(phase = "game" /\ phase' = "poll")
    /\ WF_phase(phase = "poll" /\ phase' \in {"game", "walk"})
    /\ WF_vars(Service)
    /\ WF_vars(\E s \in Streams : ReadMore(s))
    /\ WF_vars(Audio)

----------------------------------------------------------------------------
TypeOK ==
    /\ phase \in {"game", "poll", "walk", "spin", "off"}
    /\ DOMAIN streams \subseteq Streams
    /\ \A s \in DOMAIN streams :
         /\ streams[s].playing \in BOOLEAN
         /\ streams[s].started \in BOOLEAN
         /\ streams[s].consumed \in Nat
         /\ \A c \in Channels :
              streams[s].channels[c] \in
                [pcm : Nat, phase : 0..(Rate - 1), inflight : Nat, strikes : 0..DeadStrikes,
                 gotData : BOOLEAN, gotDataThisBatch : BOOLEAN, dead : BOOLEAN,
                 slipping : BOOLEAN, pos : Int, reportedOffset : Int]
    /\ DOMAIN voices \subseteq Voices
    /\ \A v \in DOMAIN voices :
         voices[v] \in [playing : BOOLEAN, paused : BOOLEAN]
    /\ Len(reply) <= 1
    /\ ring \in BOOLEAN
    /\ eeStream \in [Streams -> {"none", "asked", "ready", "playing", "gone"}]
    /\ eeVoice \in [Voices -> {"none", "idle", "playing"}]
    /\ spuLeft \in 0..MaxChunks
    /\ spuInFlight \in BOOLEAN
    /\ terminating \in BOOLEAN

(* How often a record or the answer to it is under way, or was lost by the *)
(* bridge.                                                                 *)
Accounted(record, answer) ==
    Times(calls \o flush, record)
      + Times(reply \o deferred \o queued \o delivery \o lost, answer)
One(b) == IF b THEN 1 ELSE 0

(* Whatever the guest waits for is under way exactly once, or was lost     *)
(* exactly once by a delivery (no guest memory for it, or no room in it):  *)
(* the ack of an SPU chunk, which nothing retries, the answer to a         *)
(* stream's info, and Terminate's.  The walk, the ranking of the answers   *)
(* and the queue between two polls neither lose nor double one.            *)
AnswersExact ==
    /\ Accounted(SpuChunk, SpuSendDone) = One(spuInFlight)
    /\ Accounted(Terminate, Terminated) = One(terminating)
    /\ \A s \in Streams :
         Accounted(Command("StreamInfo", s), StreamOp(s))
           = One(eeStream[s] = "asked")

(* A voice the guest believes is playing is playing, or its start or its   *)
(* Done is still under way, or a delivery lost its Done.  While the        *)
(* bridge's buffer is allocated when it is first needed, as lost = <<>>    *)
(* says, the last case does not arise.                                     *)
DoneComesBack ==
    \A v \in Voices :
      eeVoice[v] = "playing" =>
        \/ v \in DOMAIN voices /\ voices[v].playing
        \/ Times(queued \o delivery \o lost, SampleDone(v)) > 0
        \/ Times(calls \o flush, VoiceCommand("Start", v)) > 0

(* The channels of a stream that were never bent stand at the same sample  *)
(* and the same part of it, whatever a bent one does: an underrun stalls a *)
(* stream instead of skewing its channels against each other.  Where the   *)
(* first channel heard is one of them, that is where the song is.  (A      *)
(* channel that was bent keeps its own part of a sample, and while one     *)
(* that comes first leads the stream the song may be off the others by     *)
(* what each change of leader rounds.)                                     *)
ChannelsInStep ==
    \A s \in DOMAIN streams, c \in Channels \ Bendable :
      LET channels == streams[s].channels
      IN  Heard(channels[c]) =>
            /\ \A d \in Channels \ Bendable :
                 Heard(channels[d]) => /\ channels[c].pos = channels[d].pos
                                       /\ channels[c].phase = channels[d].phase
            /\ (\A d \in Bendable : Heard(channels[d]) => c < d) =>
                 channels[c].pos = streams[s].consumed

(* What was asked for is answered: a channel that counts data in flight    *)
(* has a request at the guest or an end of batch on its way, or a delivery *)
(* lost a request of it.                                                   *)
AskedIsAnswered ==
    \A s \in DOMAIN streams, c \in Channels :
      /\ streams[s].channels[c].inflight > 0
      /\ eeStream[s] \in {"ready", "playing"}
      => \/ Times(delivery \o lost, DataRequest(s, c)) > 0
         \/ Times(calls \o flush, Command("BatchEnd", s)) > 0

(* A channel that is never bent holds and awaits less than the target and  *)
(* one request.                                                            *)
BuffersBounded ==
    \A s \in DOMAIN streams, c \in Channels \ Bendable :
      streams[s].channels[c].pcm + streams[s].channels[c].inflight
        < TargetLen + RequestLen

(* Every sample sent reaches its channel's buffer, and leaves it by being  *)
(* played, or dropped to catch up; silence is counted against the position.*)
SamplesConserved ==
    \A s \in DOMAIN streams, c \in Channels :
      (eeStream[s] \in {"ready", "playing"} /\ phase \in {"game", "poll"}) =>
        streams[s].channels[c].pos + streams[s].channels[c].pcm = sent[s][c]

(* The data of a stream: what is asked for, held and sent agree. *)
DataAccounted == AskedIsAnswered /\ BuffersBounded /\ SamplesConserved

(* The guest's waits end, unless a delivery lost what they wait for: for   *)
(* the ack of each chunk of an upload and for the answer to a stream's     *)
(* info.  Terminate's answer outranks the others, rides the result of its  *)
(* flush and cannot be lost: that wait always ends.                        *)
WaitsEnd ==
    /\ (spuLeft > 0) ~> \/ spuLeft = 0 /\ ~spuInFlight
                        \/ phase = "off"
                        \/ Brings(lost, SpuSendDone)
    /\ terminating ~> (phase = "off")
    /\ \A s \in Streams :
         (eeStream[s] = "asked") ~> \/ eeStream[s] # "asked"
                                    \/ phase = "off"
                                    \/ Brings(lost, StreamOp(s))

(* A stream that goes on playing plays all its reader holds, but for the   *)
(* samples kept to interpolate with and one that the part of a sample a    *)
(* bent channel is into may cost it.  No delivery was lost, and every      *)
(* described channel the reader does not hold was given up: one that has   *)
(* not been keeps the stream from starting for good when its siblings are  *)
(* full before its last strike, since a strike takes a batch with data.    *)
StreamsSound ==
    \A s \in Streams :
      (eeStream[s] = "playing")
        ~> \/ eeStream[s] # "playing"
           \/ phase = "off"
           \/ lost # <<>>
           \/ /\ s \in DOMAIN streams
              /\ \/ streams[s].consumed >= MaxSamples - LookAhead - 1
                 \/ \E c \in Described \ Real : ~streams[s].channels[c].dead
=============================================================================
