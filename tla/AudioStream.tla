----------------------------- MODULE AudioStream -----------------------------
(***************************************************************************)
(* The sound of a scrcpy driver: the device records a packet every 20 ms,  *)
(* convertAudioFrame puts it on AudioChan, and ServeAudioStream stamps it  *)
(* with a clock of its own: 20 ms more than the packet before, and set to  *)
(* the real time when it is too far from it.                               *)
(*                                                                         *)
(* Time is counted in ticks since Agent.Start.  An RTP time is 32 bits:    *)
(* here it starts again after RtpWrap ticks, and the code compares two such   *)
(* times as wide integers.  A packet is no more than its place in line.    *)
(***************************************************************************)
EXTENDS Integers

CONSTANTS
  Frame,         \* ticks in a packet (960 samples)
  Drift,         \* ticks the clock may be off (4800 samples)
  RtpWrap,          \* ticks after which an RTP time starts again (2^32 samples)
  AudioCap,      \* capacity of AudioChan (10 in the code)
  MaxTime,       \* bound: ticks in a run
  MaxWaiting     \* bound: packets under way from the device

ASSUME ClockAssumption == {Frame, Drift, RtpWrap} \subseteq Nat \ {0} /\ RtpWrap > 2 * Drift

VARIABLES
  now,           \* ticks since Agent.Start
  incoming,       \* packets recorded and not read yet
  apc,           \* convertAudioFrame: "header", "send", "ended"; "off" without sound
  audioChan,     \* packets on AudioChan
  clock,         \* currentAudioRTP: a set, empty before isInit
  sample,        \* the packet being written to the track, if any
  audioServing,  \* ServeAudioStream runs
  late           \* has a packet been taken more than Drift after it was recorded?

audio == <<now, incoming, apc, audioChan, clock, sample, audioServing, late>>

\* A Linux driver has no sound, and a phone may have none: nothing is started.
\* The packet that describes the encoding may be there already; it is treated like
\* sound.
AudioInit(sounds) ==
  /\ now = 0 /\ audioChan = 0 /\ clock = {} /\ sample = {} /\ late = FALSE
  /\ audioServing = sounds
  /\ apc = IF sounds THEN "header" ELSE "off"
  /\ incoming \in IF sounds THEN 0 .. 1 ELSE {0}

-----------------------------------------------------------------------------
(* The device and the driver                                               *)

\* Time passes, and a packet is recorded when one is due.
Tick ==
  /\ apc # "off" /\ now < MaxTime /\ incoming < MaxWaiting
  /\ now' = now + 1
  /\ incoming' = IF now' % Frame = 0 THEN incoming + 1 ELSE incoming
  /\ UNCHANGED <<apc, audioChan, clock, sample, audioServing, late>>

\* A header and its payload.  An error of the payload is ignored: the box then has
\* what was in the memory.
ReadAudio ==
  /\ apc = "header" /\ incoming > 0
  /\ apc' = "send"
  /\ incoming' = incoming - 1
  /\ UNCHANGED <<now, audioChan, clock, sample, audioServing, late>>

\* The connection is closed: the goroutine returns.
AudioHeaderFails(isOpen) ==
  /\ apc = "header" /\ ~isOpen
  /\ apc' = "ended"
  /\ UNCHANGED <<now, incoming, audioChan, clock, sample, audioServing, late>>

SendAudio ==
  /\ apc = "send" /\ audioChan < AudioCap
  /\ audioChan' = audioChan + 1
  /\ apc' = "header"
  /\ UNCHANGED <<now, incoming, clock, sample, audioServing, late>>

-----------------------------------------------------------------------------
(* ServeAudioStream                                                        *)

realLocalRTP == now % RtpWrap

\* When the packet the agent takes next was recorded: behind it are those on the
\* channel, with the reader and under way.
InLine == audioChan + incoming + (IF apc = "send" THEN 1 ELSE 0)
Recorded == now - (now % Frame) - Frame * (InLine - 1)

\* (Broken on purpose: only a clock that is behind is set.)
Behind(diff) == diff > Drift

Off(diff) == diff > Drift \/ diff < -Drift

\* The clock for this packet: the first is stamped with the real time.
Stamps == IF clock = {} THEN {realLocalRTP}
          ELSE {IF Off(realLocalRTP - c) THEN realLocalRTP ELSE c : c \in clock}

TakeAudio ==
  /\ audioServing /\ sample = {} /\ audioChan > 0
  /\ audioChan' = audioChan - 1
  /\ sample' = {[rtp |-> s, at |-> now, jump |-> clock \notin {{}, {s}}] : s \in Stamps}
  /\ clock' = Stamps
  /\ late' = (late \/ now - Recorded > Drift)
  /\ UNCHANGED <<now, incoming, apc, audioServing>>

\* The packets are written to the track, and the clock moves on.
WriteAudio ==
  /\ sample # {}
  /\ sample' = {}
  /\ clock' = {(c + Frame) % RtpWrap : c \in clock}
  /\ UNCHANGED <<now, incoming, apc, audioChan, audioServing, late>>

\* WriteRTP fails: the loop returns.
WriteAudioFails ==
  /\ sample # {}
  /\ sample' = {}
  /\ audioServing' = FALSE
  /\ UNCHANGED <<now, incoming, apc, audioChan, clock, late>>

AudioNext(isOpen) ==
  \/ Tick
  \/ ReadAudio \/ AudioHeaderFails(isOpen) \/ SendAudio
  \/ TakeAudio \/ WriteAudio \/ WriteAudioFails

-----------------------------------------------------------------------------
(* Properties                                                              *)

\* How far two RTP times are apart, either way round.
Apart(a, b) == IF (a - b) % RtpWrap <= (b - a) % RtpWrap THEN (a - b) % RtpWrap ELSE (b - a) % RtpWrap

NearWrap(t) == Apart(t % RtpWrap, 0) <= Drift

\* Whatever piles up or is late, sound is stamped within Drift of the time it is
\* taken; and as long as packets come in time the clock is never set: the stamps
\* are regular, 20 ms from one to the next.  Not within Drift of the moment the RTP time starts again: there
\* the wide comparison takes a small difference for a large one.
AudioRegular ==
  \A s \in sample :
    /\ Apart(s.rtp, s.at % RtpWrap) <= Drift
    /\ s.jump => late \/ NearWrap(s.at)

(***************************************************************************)
(* Why it holds: an inductive invariant.                                   *)
(***************************************************************************)
RtpTime == 0 .. RtpWrap - 1

AudioTypeOK ==
  /\ {now, incoming, audioChan} \subseteq Nat /\ late \in BOOLEAN
  /\ apc \in {"off", "header", "send", "ended"}
  /\ clock = {} \/ \E c \in RtpTime : clock = {c}
  /\ sample = {} \/ \E s \in [rtp : RtpTime, at : 0 .. now, jump : BOOLEAN] : sample = {s}

\* When the packet the clock is for was recorded: the next one, or the one taken and
\* not yet written.
Stamped == Recorded - (IF sample = {} THEN 0 ELSE Frame)

\* As long as nothing is late, that is at most Drift before what the clock says: the
\* clock was set when a packet was taken, and has moved on a packet at a time since.
ClockFollows ==
  audioServing /\ ~late => \A c \in clock : (c - Stamped) % RtpWrap <= Drift

AudioInv == AudioTypeOK /\ ClockFollows /\ AudioRegular
=============================================================================
