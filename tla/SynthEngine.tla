---------------------------- MODULE SynthEngine ----------------------------
(***************************************************************************)
(* The synth engine (synth_engine.cpp): streams whose channels are filled  *)
(* by the EE and drained by the host audio thread, sample voices, and the  *)
(* replies the engine owes the EE.                                         *)
(*                                                                         *)
(* Every operation of the code holds Engine::mutex for its whole length,   *)
(* so each is one action here.  The EE's main thread calls all of them but *)
(* Render, which the audio thread calls whenever the device wants samples. *)
(*                                                                         *)
(* A channel's samples are counted, not kept: pcm is how many it holds.    *)
(* Lengths are in samples, and an ADPCM block is scaled down to one of     *)
(* them, so bufferedBytes() is pcm.  A frame moves a channel by            *)
(* freq / rate of a sample; phase is the part of one it is into, in units  *)
(* of 1 / Rate, where the code keeps a double.  The described channels of  *)
(* a stream have one rate, as the readers' files do, and the stream keeps  *)
(* the speed 1 (StreamSpeed scales every channel's step alike).  Volumes,  *)
(* pans and reverb change no control flow and are left out, and so are the *)
(* position reports and the statistics.                                    *)
(***************************************************************************)
EXTENDS Integers, Sequences, FiniteSets, SequencesExt

CONSTANTS
    Streams,       \* stream ids
    ChannelCount,  \* channels of a stream
    Described,     \* channels whose rate in the stream's info is not zero
    Voices,        \* sample handles
    RequestLen,    \* kRequestBytes
    TargetLen,     \* kTargetBytes
    MaxPerPoll,    \* kMaxRequestsPerPoll
    DeadStrikes,   \* kDeadStrikes
    Rate,          \* the output's rate, kOutputRate
    Freq,          \* the rate of a stream's described channels
    StartLen,      \* kStartSamples
    LookAhead      \* samples a channel keeps to interpolate with: 2

Channels == 1..ChannelCount

ASSUME EngineAssumption ==
    /\ IsFiniteSet(Streams)
    /\ IsFiniteSet(Voices)
    /\ ChannelCount \in Nat \ {0}
    /\ Described \subseteq Channels
    /\ RequestLen \in Nat \ {0}
    /\ TargetLen \in Nat \ {0}
    /\ MaxPerPoll \in Nat \ {0}
    /\ DeadStrikes \in Nat \ {0}
    /\ Rate \in Nat \ {0}
    /\ Freq \in Nat
    /\ StartLen \in Nat \ {0}
    /\ LookAhead \in Nat

VARIABLES
    streams,      \* Engine::streams, a function on the ids that exist
    voices,       \* Engine::voices, a function on the handles that exist
    queued,       \* Engine::queued, replies for the next poll
    dataTarget    \* <<dataId, dataChannel>>, or <<>> once used

engineVars == <<streams, voices, queued, dataTarget>>

NoTarget == <<>>

(* The calls into CtlDispatch__7SynthEE the engine and its service make.   *)
DataRequest(s, c) == [cmd |-> "StreamData", stream |-> s, channel |-> c]
SlipReport(s, c, offset) ==
    [cmd |-> "SlipOffset", stream |-> s, channel |-> c, offset |-> offset]
SampleDone(v) == [cmd |-> "SampleDone", voice |-> v]

(* Map updates: an entry added or replaced, and one erased. *)
With(map, key, value) ==
    [k \in DOMAIN map \cup {key} |-> IF k = key THEN value ELSE map[k]]
Without(map, key) == [k \in DOMAIN map \ {key} |-> map[k]]

----------------------------------------------------------------------------
NewChannel(described) ==
    [pcm |-> 0, phase |-> 0, inflight |-> 0, strikes |-> 0, gotData |-> FALSE,
     gotDataThisBatch |-> FALSE, dead |-> ~described, slipping |-> FALSE,
     pos |-> 0, reportedOffset |-> 0]

NewStream ==
    [playing |-> FALSE, started |-> FALSE, consumed |-> 0,
     channels |-> [c \in Channels |-> NewChannel(c \in Described)]]

NewVoice == [playing |-> FALSE, paused |-> FALSE]

EngineInit ==
    /\ streams = <<>>
    /\ voices = <<>>
    /\ queued = <<>>
    /\ dataTarget = NoTarget

(* A stream's info makes a new stream, whatever was there. *)
StreamInfo(s) ==
    /\ streams' = With(streams, s, NewStream)
    /\ UNCHANGED <<voices, queued, dataTarget>>

SetPlaying(s, on) ==
    /\ streams' = IF s \in DOMAIN streams
                  THEN [streams EXCEPT ![s].playing = on] ELSE streams
    /\ UNCHANGED <<voices, queued, dataTarget>>

StreamPlay(s) == SetPlaying(s, TRUE)
StreamStop(s) == SetPlaying(s, FALSE)

StreamDestroy(s) ==
    /\ streams' = Without(streams, s)
    /\ UNCHANGED <<voices, queued, dataTarget>>

StreamSlipSpeed(s, c) ==
    /\ streams' = IF s \in DOMAIN streams
                  THEN [streams EXCEPT ![s].channels[c].slipping = TRUE]
                  ELSE streams
    /\ UNCHANGED <<voices, queued, dataTarget>>

----------------------------------------------------------------------------
(* Where a channel stands from the song: behind when negative. *)
Offset(stream, c) == stream.channels[c].pos - stream.consumed

Least(a, b) == IF a < b THEN a ELSE b

\* Mutant: the position moves by the whole distance, whatever was dropped.
MovedToSong(ch, delta) ==
    LET move == IF delta > 0 THEN Least(delta, ch.pcm) ELSE delta
    IN  [ch EXCEPT !.pcm = @ - move, !.pos = @ + delta]

(* streamSlipOffset: forward drops what the channel has buffered, as far   *)
(* as it goes; backward holds it in silence.  Neither touches its phase.   *)
MovedTo(ch, delta) ==
    LET move == IF delta > 0 THEN Least(delta, ch.pcm) ELSE delta
    IN  [ch EXCEPT !.pcm = @ - move, !.pos = @ + move]

StreamSlipOffset(s, c, samples) ==
    /\ streams' =
         IF s \in DOMAIN streams
         THEN [streams EXCEPT ![s].channels[c] =
                 MovedTo(@, samples - Offset(streams[s], c))]
         ELSE streams
    /\ UNCHANGED <<voices, queued, dataTarget>>

(* streamSlipStop is two critical sections: the slip is switched off, and  *)
(* then, in StreamSlipOffset(s, c, 0), the channel is moved to the song.   *)
StreamSlipOff(s, c) ==
    /\ streams' = IF s \in DOMAIN streams
                  THEN [streams EXCEPT ![s].channels[c].slipping = FALSE]
                  ELSE streams
    /\ UNCHANGED <<voices, queued, dataTarget>>

----------------------------------------------------------------------------
StreamDataTarget(s, c) ==
    /\ dataTarget' = <<s, c>>
    /\ UNCHANGED <<streams, voices, queued>>

Fed(ch, len) ==
    [ch EXCEPT !.pcm = @ + len,
               !.inflight = IF @ > len THEN @ - len ELSE 0,
               !.gotData = TRUE,
               !.gotDataThisBatch = TRUE,
               !.dead = FALSE,
               !.strikes = 0]

StreamData(len) ==
    /\ dataTarget' = NoTarget
    /\ streams' =
         IF dataTarget # NoTarget /\ dataTarget[1] \in DOMAIN streams
         THEN [streams EXCEPT ![dataTarget[1]].channels[dataTarget[2]] =
                 Fed(@, len)]
         ELSE streams
    /\ UNCHANGED <<voices, queued>>

(* A channel that was asked for data and never got any while a sibling did *)
(* is given up after DeadStrikes such batches.                             *)
BatchEnded(ch, anyGot) ==
    LET struck == /\ anyGot
                  /\ ~ch.gotDataThisBatch
                  /\ ch.inflight # 0
                  /\ ~ch.gotData
        strikes == IF struck THEN ch.strikes + 1 ELSE ch.strikes
    IN  [ch EXCEPT !.strikes = strikes,
                   !.dead = @ \/ (struck /\ strikes >= DeadStrikes),
                   !.inflight = 0,
                   !.gotDataThisBatch = FALSE]

StreamDataBatchEnd(s) ==
    /\ streams' =
         IF s \in DOMAIN streams
         THEN LET channels == streams[s].channels
                  anyGot == \E c \in Channels : channels[c].gotDataThisBatch
              IN  [streams EXCEPT ![s].channels =
                     [c \in Channels |-> BatchEnded(channels[c], anyGot)]]
         ELSE streams
    /\ UNCHANGED <<voices, queued, dataTarget>>

----------------------------------------------------------------------------
SampleCreate(v) ==
    /\ voices' = With(voices, v, NewVoice)
    /\ UNCHANGED <<streams, queued, dataTarget>>

SampleDestroy(v) ==
    /\ voices' = Without(voices, v)
    /\ UNCHANGED <<streams, queued, dataTarget>>

SampleStart(v) ==
    /\ voices' = IF v \in DOMAIN voices
                 THEN [voices EXCEPT ![v] = [playing |-> TRUE, paused |-> FALSE]]
                 ELSE voices
    /\ UNCHANGED <<streams, queued, dataTarget>>

SampleStop(v) ==
    /\ voices' = IF v \in DOMAIN voices
                 THEN [voices EXCEPT ![v].playing = FALSE] ELSE voices
    /\ UNCHANGED <<streams, queued, dataTarget>>

SamplePause(v, pause) ==
    /\ voices' = IF v \in DOMAIN voices
                 THEN [voices EXCEPT ![v].paused = pause] ELSE voices
    /\ UNCHANGED <<streams, queued, dataTarget>>

\* Mutant: what was queued before is replaced.
QueueRepliesOnly(replies) ==
    /\ queued' = replies
    /\ UNCHANGED <<streams, voices, dataTarget>>

QueueReplies(replies) ==
    /\ queued' = queued \o replies
    /\ UNCHANGED <<streams, voices, dataTarget>>

----------------------------------------------------------------------------
(* How many requests one poll makes for a channel: one after another while *)
(* what it holds and what it has asked for fall short of the target.       *)
Requests(ch) ==
    IF ch.dead THEN 0
    ELSE Cardinality({k \in 0..(MaxPerPoll - 1) :
                        ch.pcm + ch.inflight + k * RequestLen < TargetLen})

Reports(stream, c) ==
    /\ stream.channels[c].slipping
    /\ Offset(stream, c) # stream.channels[c].reportedOffset

Asked(stream) ==
    [stream EXCEPT !.channels = [c \in Channels |->
       LET ch == stream.channels[c]
       IN  [ch EXCEPT
              !.inflight = @ + Requests(ch) * RequestLen,
              !.reportedOffset = IF Reports(stream, c)
                                 THEN Offset(stream, c) ELSE @]]]

(* What the poll sends for a stream: its requests, then its slip reports,  *)
(* each in the order of the channels.                                      *)
StreamReplies(s) ==
    FlattenSeq([c \in Channels |->
                  [k \in 1..Requests(streams[s].channels[c]) |->
                     DataRequest(s, c)]])
    \o FlattenSeq([c \in Channels |->
                     IF Reports(streams[s], c)
                     THEN <<SlipReport(s, c, Offset(streams[s], c))>>
                     ELSE <<>>])

RepliesDue ==
    queued \o FlattenSeq([i \in 1..Cardinality(DOMAIN streams) |->
                            StreamReplies(SetToSeq(DOMAIN streams)[i])])

TakeReplies ==
    /\ streams' = [s \in DOMAIN streams |-> Asked(streams[s])]
    /\ queued' = <<>>
    /\ UNCHANGED <<voices, dataTarget>>

----------------------------------------------------------------------------
(* The audio thread. *)
\* Mutant: a channel that was given up is waited for.
ReadyToStartAll(stream) ==
    \A c \in Channels : stream.channels[c].pcm >= StartLen

ReadyToStart(stream) ==
    /\ \E c \in Channels : ~stream.channels[c].dead
    /\ \A c \in Channels : stream.channels[c].dead
                             \/ stream.channels[c].pcm >= StartLen

Heard(ch) == ~ch.dead /\ ch.gotData

(* The samples a step of that many 1 / Rate leaves behind, and whether the *)
(* channel holds too few to take it and to interpolate.                    *)
Whole(ch, step) == (ch.phase + step) \div Rate
Short(ch, step) == ch.pcm < Whole(ch, step) + LookAhead

Leading(stream) ==
    {c \in Channels : Heard(stream.channels[c]) /\ ~stream.channels[c].slipping}

Starved(stream) == \E c \in Leading(stream) : Short(stream.channels[c], Freq)

(* A frame moves a channel by Freq, or by its own step when it slips, in   *)
(* which case it goes quiet when it holds too few.  The part of a sample   *)
(* it was into when it was bent stays with it.                             *)
Moved(ch, bent) ==
    LET step == IF ch.slipping THEN bent ELSE Freq
    IN  IF ~Heard(ch) \/ (ch.slipping /\ Short(ch, step)) THEN ch
        ELSE [ch EXCEPT !.phase = (@ + step) % Rate,
                        !.pcm = @ - Whole(ch, step),
                        !.pos = @ + Whole(ch, step)]

\* Mutant: a frame that finds one channel short moves those before it.
FrameUneven(stream, bend) ==
    IF ~stream.playing \/ ~(stream.started \/ ReadyToStart(stream))
    THEN stream
    ELSE LET short == {c \in Leading(stream) : Short(stream.channels[c], Freq)}
         IN  [stream EXCEPT
                !.started = TRUE,
                !.channels = [c \in Channels |->
                   IF \E d \in short : d <= c
                   THEN stream.channels[c]
                   ELSE Moved(stream.channels[c], bend[c])]]

(* One frame of a stream: every channel that is heard and not slipping     *)
(* moves, or none does.  Its position moves with the first of them.        *)
Frame(stream, bend) ==
    IF ~stream.playing \/ ~(stream.started \/ ReadyToStart(stream))
    THEN stream
    ELSE IF Starved(stream) THEN [stream EXCEPT !.started = TRUE]
    ELSE [stream EXCEPT
            !.started = TRUE,
            !.consumed =
               IF Leading(stream) = {} THEN @
               ELSE @ + Whole(stream.channels[Min(Leading(stream))], Freq),
            !.channels = [c \in Channels |->
                            Moved(stream.channels[c], bend[c])]]

(* mixVoices: a voice that runs off its last block stops and owes a Done.  *)
Sounding == {v \in DOMAIN voices : voices[v].playing /\ ~voices[v].paused}

(* One frame: a longer call is that many of them under one lock.  bend     *)
(* is the step of each stream's slipping channels, ended which of the     *)
(* sounding voices ran out.                                                *)
Render(bend, ended) ==
    /\ streams' = [s \in DOMAIN streams |-> Frame(streams[s], bend[s])]
    /\ voices' = [v \in DOMAIN voices |->
                    [voices[v] EXCEPT !.playing = @ /\ v \notin ended]]
    /\ LET ids == SetToSeq(ended)
       IN  queued' = queued \o [i \in 1..Len(ids) |-> SampleDone(ids[i])]
    /\ UNCHANGED dataTarget
=============================================================================
