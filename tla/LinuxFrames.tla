------------------------------ MODULE LinuxFrames ------------------------------
(***************************************************************************)
(* The video of a Linux session: an encoder writes NAL units into a pipe,  *)
(* the recorder cuts the bytes at the start codes (bufio.Scanner with      *)
(* SplitNALU) and sends each unit to the driver (ServePushFrames), which   *)
(* keeps parameter sets, waits for a first key frame and puts boxes on     *)
(* videoChan (handleConnection); the agent takes them.                     *)
(*                                                                         *)
(* A byte is a number.  A unit is its start code, of two or three zeros    *)
(* and a one, and its data: the header byte(s) the driver reads the type   *)
(* from, and bytes without a start code that end with one above 9, which   *)
(* is different for every unit of a stream.                                *)
(***************************************************************************)
EXTENDS Naturals, Sequences, SequencesExt, FiniteSetsExt

CONSTANTS
  ChanCap,       \* capacity of videoChan (10 in the code)
  WireCap,       \* units the socket buffers hold (environment)
  PipeCap        \* bytes in the pipe after which the encoder waits (environment)

ASSUME ChannelAssumption == ChanCap \in Nat

VARIABLES
  stream, coded, pipe,   \* the encoder
  encoder,                 \* "alive", "ended", or "cut" in the middle of a unit
  buf, eof, pushing,       \* the scanner's buffer, its end of file, ServePushFrames
  wire, open,              \* units under way, the connection
  received, last, waiting, \* handleConnection: units read, parameter sets,
  hand, reading,           \*   waitForKeyFrame, the box to send, is it running?
  chan,                    \* videoChan
  agent, shown             \* the box the agent is writing, the last it took

source == <<stream, coded, pipe, encoder>>
pusher == <<buf, eof, pushing>>
reader == <<received, last, waiting, hand, reading>>
viewer == <<agent, shown>>
frames == <<source, pusher, wire, open, reader, chan, viewer>>

units == stream.units
Hevc == stream.codec = "h265"

Zeros(n) == [i \in 1 .. n |-> 0]
Bytes(u) == Zeros(u.zeros) \o <<1>> \o u.data

Sets == {"vps", "sps", "pps"}

\* A stream is [codec, units]; without units the encoder has ended already.
FramesInit(video) ==
  /\ stream = video
  /\ coded = 0 /\ pipe = << >> /\ encoder = IF video.units = << >> THEN "ended" ELSE "alive"
  /\ buf = << >> /\ eof = (video.units = << >>) /\ pushing = (video.units # << >>)
  /\ wire = << >> /\ open = TRUE
  /\ received = 0 /\ last = [s \in Sets |-> << >>] /\ waiting = TRUE
  /\ hand = {} /\ reading = TRUE
  /\ chan = << >> /\ agent = {} /\ shown = 0

-----------------------------------------------------------------------------
(* The encoder                                                             *)

Encode ==
  /\ encoder = "alive" /\ coded < Len(units) /\ Len(pipe) < PipeCap
  /\ coded' = coded + 1
  /\ pipe' = pipe \o Bytes(units[coded + 1])
  /\ UNCHANGED <<stream, encoder, pusher, wire, open, reader, chan, viewer>>

\* It is killed between two units, or in the middle of one.
EncoderEnds ==
  /\ encoder = "alive"
  /\ \/ encoder' = "ended" /\ UNCHANGED <<coded, pipe>>
     \/ /\ coded < Len(units)
        /\ encoder' = "cut"
        /\ coded' = coded + 1
        /\ \E k \in 1 .. Len(Bytes(units[coded + 1])) - 1 :
             pipe' = pipe \o SubSeq(Bytes(units[coded + 1]), 1, k)
  /\ UNCHANGED <<stream, pusher, wire, open, reader, chan, viewer>>

-----------------------------------------------------------------------------
(* The recorder                                                            *)

\* Where 00 00 01 stands in the data.
StartCodes(data) == {i \in 1 .. Len(data) - 2 : SubSeq(data, i, i + 2) = <<0, 0, 1>>}

\* (Broken on purpose: the zero of a long start code stays with the unit before.)
ShortStart(data, i) == i

\* A zero in front belongs to the start code.
WholeStart(data, i) == IF i > 1 /\ data[i - 1] = 0 THEN i - 1 ELSE i

\* What SplitNALU returns: how many bytes it is done with, and a unit or nothing.
SplitNALU(data, atEOF) ==
  LET codes == StartCodes(data)
      start == WholeStart(data, Min(codes))
      later == {i \in codes : i >= start + 3}
      end   == WholeStart(data, Min(later)) - 1
  IN  CASE codes = {} -> [advance |-> IF atEOF THEN Len(data) ELSE 0, token |-> << >>]
        [] codes # {} /\ later # {} ->
             [advance |-> end, token |-> SubSeq(data, start, end)]
        [] codes # {} /\ later = {} /\ atEOF ->
             [advance |-> Len(data), token |-> SubSeq(data, start, Len(data))]
        [] OTHER -> [advance |-> start - 1, token |-> << >>]

Split == SplitNALU(buf, eof)
Rest == SubSeq(buf, Split.advance + 1, Len(buf))

\* A unit is complete: it is sent with its length.
PushFrame ==
  /\ pushing /\ open
  /\ Split.token # << >>
  /\ Len(wire) < WireCap
  /\ wire' = Append(wire, Split.token)
  /\ buf' = Rest
  /\ UNCHANGED <<source, eof, pushing, open, reader, chan, viewer>>

\* None is: the scanner reads on, however many bytes the pipe gives.
ScanMore ==
  /\ pushing /\ ~eof
  /\ Split.token = << >>
  /\ \/ \E k \in 1 .. Len(pipe) :
          /\ buf' = Rest \o SubSeq(pipe, 1, k)
          /\ pipe' = SubSeq(pipe, k + 1, Len(pipe))
          /\ UNCHANGED eof
     \/ /\ pipe = << >> /\ encoder # "alive"
        /\ buf' = Rest
        /\ eof' = TRUE
        /\ UNCHANGED pipe
  /\ UNCHANGED <<stream, coded, encoder, pushing, wire, open, reader, chan, viewer>>

\* The end of the output, or a connection that is closed.
PushEnds ==
  /\ pushing
  /\ \/ eof /\ Split.token = << >>
     \/ ~open /\ Split.token # << >>
  /\ pushing' = FALSE
  /\ UNCHANGED <<source, buf, eof, wire, open, reader, chan, viewer>>

-----------------------------------------------------------------------------
(* The driver                                                              *)

\* How long the start code is, 0 when there is none with a byte behind it.
StartCodeEnd(p) ==
  IF Len(p) > 4 /\ SubSeq(p, 1, 4) = <<0, 0, 0, 1>> THEN 4
  ELSE IF Len(p) > 3 /\ SubSeq(p, 1, 3) = <<0, 0, 1>> THEN 3 ELSE 0

NalType(data) == IF Hevc THEN (data[1] \div 2) % 64 ELSE data[1] % 32

\* What the driver takes a unit for.
SetOf(t) ==
  IF Hevc THEN CASE t = 32 -> {"vps"} [] t = 33 -> {"sps"} [] t = 34 -> {"pps"} [] OTHER -> {}
  ELSE CASE t = 7 -> {"sps"} [] t = 8 -> {"pps"} [] OTHER -> {}
Ignored(t) == t \in (IF Hevc THEN {39, 40} ELSE {6, 9})
IsKey(t) == t \in (IF Hevc THEN 19 .. 21 ELSE {5})

\* The sets in front of a key frame, those that have been seen.
Seen(sets) == SelectSeq(sets, LAMBDA d : d # << >>)
InFront == Seen(<<last["vps"], last["sps"], last["pps"]>>)

\* (Broken on purpose: pictures go out before the first key frame.)
NoWait(t) == FALSE

\* Pictures are dropped until a key frame has come.
DropsUntilKey(t) == waiting /\ ~IsKey(t)

\* A picture goes out: a key frame as a copy, behind the sets, any other as the
\* slice of the buffer it was read into.  `unit` counts what was read.
Box(data, t) ==
  IF IsKey(t) THEN [unit |-> received + 1, slice |-> FALSE, nals |-> Append(InFront, data)]
  ELSE [unit |-> received + 1, slice |-> TRUE, nals |-> <<data>>]

Receive ==
  /\ reading /\ open /\ hand = {} /\ wire # << >>
  /\ received' = received + 1
  /\ wire' = Tail(wire)
  /\ LET p == Head(wire)
         data == SubSeq(p, StartCodeEnd(p) + 1, Len(p))
         t == NalType(data)
     IN  \/ /\ StartCodeEnd(p) = 0 \/ Ignored(t)
            /\ UNCHANGED <<last, waiting, hand>>
         \/ /\ StartCodeEnd(p) > 0
            /\ \E s \in SetOf(t) : last' = [last EXCEPT ![s] = data]
            /\ UNCHANGED <<waiting, hand>>
         \/ /\ StartCodeEnd(p) > 0 /\ SetOf(t) = {} /\ ~Ignored(t)
            /\ waiting' = (waiting /\ ~IsKey(t))
            /\ hand' = IF DropsUntilKey(t) THEN {} ELSE {Box(data, t)}
            /\ UNCHANGED last
  /\ UNCHANGED <<source, pusher, open, reading, chan, viewer>>

\* The connection is gone: ReadFull fails and the goroutine returns.
ReadFails ==
  /\ reading /\ ~open /\ hand = {}
  /\ reading' = FALSE
  /\ UNCHANGED <<source, pusher, wire, open, received, last, waiting, hand, chan, viewer>>

\* (Broken on purpose: the channel never pushes back.)
AlwaysRoom == TRUE

HasRoom == Len(chan) < ChanCap

SendBox ==
  /\ hand # {} /\ HasRoom
  /\ chan' = chan \o SetToSeq(hand)
  /\ hand' = {}
  /\ UNCHANGED <<source, pusher, wire, open, received, last, waiting, reading, viewer>>

Stop ==
  /\ open
  /\ open' = FALSE
  /\ UNCHANGED <<source, pusher, wire, reader, chan, viewer>>

-----------------------------------------------------------------------------
(* ServeVideoStream                                                        *)

Take ==
  /\ agent = {} /\ chan # << >>
  /\ agent' = {Head(chan)}
  /\ shown' = Head(chan).unit
  /\ chan' = Tail(chan)
  /\ UNCHANGED <<source, pusher, wire, open, reader>>

WriteSample ==
  /\ agent # {}
  /\ agent' = {}
  /\ UNCHANGED <<source, pusher, wire, open, reader, chan, shown>>

-----------------------------------------------------------------------------

FramesNext ==
  \/ Encode \/ EncoderEnds
  \/ PushFrame \/ ScanMore \/ PushEnds
  \/ Receive \/ ReadFails \/ SendBox \/ Stop
  \/ Take \/ WriteSample

-----------------------------------------------------------------------------
(* Properties                                                              *)

\* However the bytes arrive in pieces, what the recorder sends is the units of
\* the encoder, one by one and whole, but for the last two of an encoder killed in
\* the middle of a unit: its first zeros may be taken for the end of the one
\* before.  And when the recorder is done, they have all been sent.
Whole == IF encoder = "cut" THEN coded - 2 ELSE coded
NalsAreWhole ==
  /\ \A i \in DOMAIN wire : received + i <= Whole => wire[i] = Bytes(units[received + i])
  /\ eof /\ ~pushing /\ open => received + Len(wire) >= Whole

TypeOf(i) == NalType(units[i].data)
Picture(i) == SetOf(TypeOf(i)) = {} /\ ~Ignored(TypeOf(i))
Before(i, s) == {j \in 1 .. i - 1 : s \in SetOf(TypeOf(j))}

\* The parameter sets a decoder needs for unit i: the latest before it.
Latest(i, s) == IF Before(i, s) = {} THEN << >> ELSE units[Max(Before(i, s))].data
Decodable(i) == <<Latest(i, "vps"), Latest(i, "sps"), Latest(i, "pps")>>

Boxes == SetToSeq(agent) \o chan \o SetToSeq(hand)
KeySeen(i) == \E j \in 1 .. i : IsKey(TypeOf(j))

\* What the agent gets can be decoded: a key frame carries the latest parameter
\* sets before it, and from the first key frame on every picture comes, once and
\* in order; before it, none.
BoxesDecodable ==
  /\ \A n \in DOMAIN Boxes : Boxes[n].unit <= Whole =>
       LET b == Boxes[n] IN
       /\ Picture(b.unit) /\ KeySeen(b.unit)
       /\ b.nals = IF IsKey(TypeOf(b.unit))
                   THEN Append(Seen(Decodable(b.unit)), units[b.unit].data)
                   ELSE <<units[b.unit].data>>
  /\ LET out == <<shown>> \o [n \in DOMAIN Boxes |-> Boxes[n].unit] \o <<received + 1>>
     IN  \A n \in 2 .. Len(out) : \A i \in out[n - 1] + 1 .. out[n] - 1 :
           i <= Whole /\ Picture(i) => ~KeySeen(i)

\* The longest run of units that are no pictures, from the first key frame on.
MaxQuiet == Max({k \in 0 .. Len(units) : \E i \in 0 .. Len(units) - k :
                  \A j \in i + 1 .. i + k : KeySeen(j) /\ ~Picture(j)})

\* A picture in the hands of the agent may wait for a full channel and the next.
Window == (ChanCap + 1) * (MaxQuiet + 1)

\* The payloads read so far, the one under way included.
Gets == received + (IF hand = {} /\ wire # << >> THEN 1 ELSE 0)

\* A picture that is sent in place is gone before more than Window later payloads
\* are read, however slow the agent is: the room LinearBuffer asks for.
PicturesOutlast == \A n \in DOMAIN Boxes : Boxes[n].slice => Gets - Boxes[n].unit <= Window

-----------------------------------------------------------------------------
(* Why they hold: an inductive invariant.                                  *)

\* A unit as both standards demand it: its data holds no start code and does not
\* end with a zero.
Unit == {u \in [zeros : {2, 3}, data : Seq(Nat)] :
           /\ u.data # << >> /\ Last(u.data) # 0
           /\ StartCodes(u.data) = {}}

FramesTypeOK ==
  /\ units \in Seq(Unit)
  /\ coded \in 0 .. Len(units) /\ encoder \in {"alive", "ended", "cut"}
  /\ {eof, pushing, open, waiting, reading} \subseteq BOOLEAN
  /\ pipe \in Seq(Nat) /\ buf \in Seq(Nat) /\ wire \in Seq(Seq(Nat))
  /\ eof => pipe = << >> /\ encoder # "alive"
  /\ encoder = "cut" => coded > 0
  /\ {received, shown} \subseteq Nat /\ last \in [Sets -> Seq(Nat)]
  /\ chan \in Seq(ToSet(chan)) /\ Len(chan) <= ChanCap
  /\ hand = {} \/ \E b \in hand : hand = {b}
  /\ agent = {} \/ \E b \in agent : agent = {b}

\* The units coded in full, those sent, and the bytes of those that are not.
Kept == IF encoder = "cut" THEN coded - 1 ELSE coded
Sent == received + Len(wire)
Left == buf \o pipe

\* These bytes are the units that have not been sent, one behind the other, each
\* from a place of its own on, and of the last one what the encoder got to write.
UnitsLeft ==
  \E at \in [Sent + 1 .. coded + 1 -> Nat] :
    /\ at[Sent + 1] = 0 /\ at[coded + 1] = Len(Left)
    /\ \A i, j \in Sent + 1 .. coded + 1 : i < j => at[i] < at[j]
    /\ \A j \in Sent + 1 .. coded :
         LET bytes == Bytes(units[j]) IN
         /\ IF j <= Kept THEN at[j + 1] = at[j] + Len(bytes) ELSE at[j + 1] < at[j] + Len(bytes)
         /\ \A k \in 1 .. at[j + 1] - at[j] : Left[at[j] + k] = bytes[k]

\* Nothing is sent that was not coded, and what follows a unit that was coded in
\* full, at most, are the first zeros of the one the encoder was killed in.
UnitsInOrder ==
  /\ Sent <= coded
  /\ UnitsLeft \/ (encoder = "cut" /\ Sent = coded - 1 /\ Left = << >>)
  /\ \A i \in DOMAIN wire : received + i <= Kept => IsPrefix(Bytes(units[received + i]), wire[i])

\* The driver has the latest sets, and knows whether a key frame has come.
DriverKnows ==
  /\ received <= Whole => \A s \in Sets : last[s] = Latest(received + 1, s)
  /\ received <= Kept => (waiting <=> ~KeySeen(received))

\* The boxes are pictures from the first key frame on, in their order, ...
BoxesInOrder ==
  /\ \A n \in DOMAIN Boxes :
       /\ Boxes[n].unit \in 1 .. received
       /\ Boxes[n].unit <= Kept => Picture(Boxes[n].unit) /\ KeySeen(Boxes[n].unit)
  /\ \A n, m \in DOMAIN Boxes : n < m => Boxes[n].unit < Boxes[m].unit
  /\ agent # {} => Boxes[1].unit = shown
  /\ hand # {} => Boxes[Len(Boxes)].unit = received

\* ... and between them are no others.
Skipped(i) == i <= Kept /\ Picture(i) => ~KeySeen(i)
NoneSkipped ==
  /\ Boxes = << >> => \A i \in shown + 1 .. received : Skipped(i)
  /\ Boxes # << >> =>
       /\ \A i \in shown + 1 .. Boxes[1].unit - 1 : Skipped(i)
       /\ \A n \in 1 .. Len(Boxes) - 1 :
            \A i \in Boxes[n].unit + 1 .. Boxes[n + 1].unit - 1 : Skipped(i)
       /\ \A i \in Boxes[Len(Boxes)].unit + 1 .. received : Skipped(i)

\* So they are not far from each other.
Close ==
  \A n, m \in DOMAIN Boxes :
    n <= m => Boxes[m].unit - Boxes[n].unit <= (m - n) * (MaxQuiet + 1)

FramesInv ==
  /\ FramesTypeOK /\ UnitsInOrder /\ NalsAreWhole
  /\ DriverKnows /\ BoxesInOrder /\ NoneSkipped /\ Close /\ BoxesDecodable
================================================================================
