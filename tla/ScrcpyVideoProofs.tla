-------------------------- MODULE ScrcpyVideoProofs ---------------------------
(***************************************************************************)
(* The scrcpy video path for every channel capacity, number of encoder     *)
(* sessions and packet length: parameter sets stay together, the buffer is *)
(* used as LinearBuffer assumes, and so its payloads stay intact.          *)
(***************************************************************************)
EXTENDS ScrcpyVideo, FiniteSetTheorems, SequenceTheorems, TLAPS

AnyBox == Raw \cup Merged

-----------------------------------------------------------------------------
(* Facts about sequences, ages and boxes.                                  *)

\* A box on its way to the channel is the one element of a set.
LEMMA SingletonSeq == ASSUME NEW x PROVE SetToSeq({x}) = <<x>>
  <1>1. Cardinality({x}) = 1
    BY FS_Singleton
  <1>2. <<x>> \in [1 .. 1 -> {x}] /\ IsInjective(<<x>>)
    BY DEF IsInjective
  <1>3. \A f \in [1 .. 1 -> {x}] : f = <<x>>
    OBVIOUS
  <1> QED BY <1>1, <1>2, <1>3 DEF SetToSeq

\* Sending x puts it behind what the channel holds.
LEMMA SendOne ==
  ASSUME NEW S, NEW s \in Seq(S), NEW x \in S
  PROVE  LET t == s \o SetToSeq({x})
         IN  /\ t \in Seq(S) /\ Len(t) = Len(s) + 1
             /\ \A i \in 1 .. Len(s) : t[i] = s[i]
             /\ t[Len(s) + 1] = x
             /\ ToSet(t) = ToSet(s) \cup {x}
  <1> DEFINE t == s \o SetToSeq({x})
  <1>1. t = Append(s, x)
    BY SingletonSeq, AppendIsConcat
  <1> HIDE DEF t
  <1>2. /\ t \in Seq(S) /\ Len(t) = Len(s) + 1
        /\ \A i \in 1 .. Len(s) : t[i] = s[i]
        /\ t[Len(s) + 1] = x
    <2>1. /\ Append(s, x) \in Seq(S) /\ Len(Append(s, x)) = Len(s) + 1
          /\ \A i \in 1 .. Len(s) : Append(s, x)[i] = s[i]
          /\ Append(s, x)[Len(s) + 1] = x
      BY AppendProperties
    <2> QED BY <1>1, <2>1, Zenon
  <1>3. DOMAIN t = 1 .. Len(s) + 1 /\ DOMAIN s = 1 .. Len(s) /\ Len(s) \in Nat
    BY <1>2, LenProperties
  <1>4. ToSet(t) = ToSet(s) \cup {x}
    <2>1. \A i \in 1 .. Len(s) + 1 : i \in 1 .. Len(s) \/ i = Len(s) + 1
      BY <1>3
    <2>2. ToSet(t) \subseteq ToSet(s) \cup {x}
      BY <1>2, <1>3, <2>1 DEF ToSet
    <2>3. \A i \in 1 .. Len(s) : i \in 1 .. Len(s) + 1
      BY <1>3
    <2>4. ToSet(s) \cup {x} \subseteq ToSet(t)
      <3>1. Len(s) + 1 \in DOMAIN t
        BY <1>3
      <3> QED BY <1>2, <1>3, <2>3, <3>1, Zenon DEF ToSet
    <2> QED BY <2>2, <2>4
  <1> QED BY <1>2, <1>4 DEF t

\* Taking the first box leaves the others, one place further on.
LEMMA TakeOne ==
  ASSUME NEW S, NEW s \in Seq(S), s # <<>>, NEW t, t = Tail(s)
  PROVE  /\ Head(s) = s[1] /\ s[1] \in S
         /\ t \in Seq(S) /\ Len(t) = Len(s) - 1
         /\ Len(s) \in Nat \ {0}
         /\ \A i \in 1 .. Len(t) : t[i] = s[i + 1]
         /\ ToSet(s) = ToSet(t) \cup {s[1]}
  <1>1. /\ Head(s) = s[1] /\ Head(s) \in S
        /\ t \in Seq(S) /\ Len(t) = Len(s) - 1
        /\ Len(s) \in Nat \ {0}
        /\ \A i \in 1 .. Len(t) : t[i] = s[i + 1]
    BY HeadTailProperties, EmptySeq
  <1>2. DOMAIN t = 1 .. Len(t) /\ DOMAIN s = 1 .. Len(s)
    BY <1>1, LenProperties
  <1>3. \A i \in 2 .. Len(s) : i - 1 \in 1 .. Len(t) /\ s[i] = t[i - 1]
    BY <1>1
  <1>4. ToSet(s) \subseteq ToSet(t) \cup {s[1]}
    <2> SUFFICES ASSUME NEW i \in 1 .. Len(s), i # 1 PROVE s[i] \in ToSet(t)
      BY <1>2 DEF ToSet
    <2>1. i \in 2 .. Len(s)
      BY <1>1
    <2> QED BY <1>2, <1>3, <2>1 DEF ToSet
  <1>5. ToSet(t) \cup {s[1]} \subseteq ToSet(s)
    <2>1. \A i \in 1 .. Len(t) : i + 1 \in 1 .. Len(s)
      BY <1>1
    <2>2. 1 \in DOMAIN s
      BY <1>1, <1>2
    <2>3. {s[1]} \subseteq ToSet(s)
      BY <2>2, Zenon DEF ToSet
    <2>4. ToSet(t) \subseteq ToSet(s)
      <3> SUFFICES ASSUME NEW i \in 1 .. Len(t) PROVE t[i] \in ToSet(s)
        BY <1>2, Zenon DEF ToSet
      <3>1. t[i] = s[i + 1] /\ i + 1 \in DOMAIN s
        BY <1>1, <1>2, <2>1, Zenon
      <3> QED BY <3>1, Zenon DEF ToSet
    <2> QED BY <2>3, <2>4
  <1> QED BY <1>1, <1>4, <1>5

\* A multiple of PerBox is a natural number and grows with its factor.
LEMMA Multiples ==
  ASSUME NEW a \in Nat
  PROVE  /\ PerBox \in Nat \ {0}
         /\ a * PerBox \in Nat
         /\ (a + 1) * PerBox = a * PerBox + PerBox
  BY VideoConstants DEF PerBox

\* What is fresh by as many boxes as the channel holds is inside the window.
LEMMA InsideWindow ==
  ASSUME NEW a \in 0 .. ChanCap
  PROVE  a * PerBox + PerBox <= Window /\ Window \in Nat \ {0}
  <1> DEFINE k == ChanCap - a
  <1>1. k \in Nat /\ ChanCap = a + k
    BY VideoConstants
  <1>2. Window = (ChanCap + 1) * PerBox
    BY DEF Window, PerBox
  <1>3. Window = a * PerBox + k * PerBox + PerBox
    BY <1>1, <1>2, VideoConstants DEF PerBox
  <1>4. a * PerBox \in Nat /\ k * PerBox \in Nat /\ PerBox \in Nat \ {0}
    BY <1>1, Multiples
  <1> HIDE DEF k
  <1> QED BY <1>3, <1>4

\* Raw boxes and packets refer to the buffer, merged boxes are copies.
LEMMA WhoIsBuffered ==
  /\ \A x \in Packet \cup Raw : Buffered(x)
  /\ \A x \in Merged : ~ Buffered(x)
  BY DEF Packet, Raw, Merged, Buffered

\* Ageing changes nothing but the age.
LEMMA AgedFields ==
  /\ \A x \in Packet : x.seg.age < Window =>
       /\ Aged(x) \in Packet /\ Aged(x).kind = x.kind /\ Aged(x).gen = x.gen
       /\ Aged(x).seg = [x.seg EXCEPT !.age = @ + 1]
       /\ Aged(x).seg.age = x.seg.age + 1
  /\ \A x \in Raw : x.seg.age < Window =>
       /\ Aged(x) \in Raw
       /\ Aged(x).seg = [x.seg EXCEPT !.age = @ + 1]
       /\ Aged(x).seg.age = x.seg.age + 1
  /\ \A x \in Merged : Aged(x) = x
  <1> Window \in Nat
    BY InsideWindow, VideoConstants
  <1>1. ASSUME NEW x \in Packet, x.seg.age < Window
        PROVE  /\ Aged(x) \in Packet /\ Aged(x).kind = x.kind /\ Aged(x).gen = x.gen
               /\ Aged(x).seg = [x.seg EXCEPT !.age = @ + 1]
               /\ Aged(x).seg.age = x.seg.age + 1
    BY <1>1, WhoIsBuffered DEF Aged, Packet, Payload
  <1>2. ASSUME NEW x \in Raw, x.seg.age < Window
        PROVE  /\ Aged(x) \in Raw
               /\ Aged(x).seg = [x.seg EXCEPT !.age = @ + 1]
               /\ Aged(x).seg.age = x.seg.age + 1
    BY <1>2, WhoIsBuffered DEF Aged, Raw, Payload
  <1>3. \A x \in Merged : Aged(x) = x
    BY WhoIsBuffered DEF Aged
  <1> QED BY <1>1, <1>2, <1>3

-----------------------------------------------------------------------------
(* What every step preserves, one lemma per action or group of actions.    *)

\* With nothing in flight every payload on the channel and with the agent is
\* young enough to see one more Get.
LEMMA RoomForOne ==
  ASSUME TypeOK, Fresh, rpc = "read"
  PROVE  /\ \A i \in DOMAIN chan : Buffered(chan[i]) => chan[i].seg.age < Window
         /\ \A b \in held : Buffered(b) => b.seg.age < Window
  <1>1. Since = quiet /\ quiet \in Nat /\ quiet < PerBox
    BY VideoConstants DEF Since, TypeOK, PerBox
  <1>2. Len(chan) \in 0 .. ChanCap /\ DOMAIN chan = 1 .. Len(chan)
    BY LenProperties, VideoConstants DEF TypeOK
  <1>3. ASSUME NEW i \in DOMAIN chan, Buffered(chan[i]) PROVE chan[i].seg.age < Window
    <2>1. Len(chan) - i \in 0 .. ChanCap
      BY <1>2, VideoConstants
    <2>2. chan[i] \in Raw
      BY <1>2, <1>3, ElementOfSeq, WhoIsBuffered DEF TypeOK
    <2>3. chan[i].seg.age \in Nat
      BY <2>2, InsideWindow, VideoConstants DEF Raw, Payload
    <2>4. chan[i].seg.age <= (Len(chan) - i) * PerBox + quiet
      BY <1>1, <1>3 DEF Fresh, YoungOnChan
    <2>5. (Len(chan) - i) * PerBox + PerBox <= Window
      BY <2>1, InsideWindow
    <2>6. (Len(chan) - i) * PerBox \in Nat /\ PerBox \in Nat /\ Window \in Nat
      BY <2>1, Multiples, InsideWindow, VideoConstants
    <2> QED BY <1>1, <2>3, <2>4, <2>5, <2>6
  <1>4. ASSUME NEW b \in held, Buffered(b) PROVE b.seg.age < Window
    <2>1. b \in Raw
      BY <1>4, WhoIsBuffered DEF TypeOK
    <2>2. b.seg.age \in Nat
      BY <2>1, InsideWindow, VideoConstants DEF Raw, Payload
    <2>3. b.seg.age <= Len(chan) * PerBox + quiet
      BY <1>1, <1>4 DEF Fresh, YoungHeld
    <2>4. Len(chan) * PerBox + PerBox <= Window
      BY <1>2, InsideWindow
    <2>5. Len(chan) * PerBox \in Nat /\ PerBox \in Nat /\ Window \in Nat
      BY <1>2, Multiples, InsideWindow, VideoConstants
    <2> QED BY <1>1, <2>2, <2>3, <2>4, <2>5
  <1> QED BY <1>3, <1>4

\* The channel of one more Get: the same boxes, each a Get older.
LEMMA AgedChannel ==
  ASSUME TypeOK, Fresh, rpc = "read", chan' = [i \in DOMAIN chan |-> Aged(chan[i])]
  PROVE  /\ chan' \in Seq(AnyBox) /\ Len(chan') = Len(chan)
         /\ DOMAIN chan' = DOMAIN chan
         /\ \A i \in DOMAIN chan : chan'[i] = Aged(chan[i])
  <1>1. DOMAIN chan = 1 .. Len(chan) /\ Len(chan) \in Nat
    BY LenProperties DEF TypeOK
  <1>2. \A i \in DOMAIN chan : Aged(chan[i]) \in AnyBox
    <2> SUFFICES ASSUME NEW i \in DOMAIN chan PROVE Aged(chan[i]) \in AnyBox
      OBVIOUS
    <2>1. chan[i] \in Raw \/ chan[i] \in Merged
      BY <1>1, ElementOfSeq DEF TypeOK
    <2> QED BY <2>1, RoomForOne, AgedFields, WhoIsBuffered DEF AnyBox
  <1>3. chan' \in [1 .. Len(chan) -> AnyBox]
    BY <1>1, <1>2
  <1>4. chan' \in Seq(AnyBox)
    BY <1>1, <1>3, SeqDef
  <1>5. DOMAIN chan' = 1 .. Len(chan') /\ Len(chan') \in Nat
    BY <1>4, LenProperties
  <1>6. Len(chan') = Len(chan)
    BY <1>1, <1>3, <1>5
  <1> QED BY <1>1, <1>3, <1>4, <1>6

\* Reading a packet.
LEMMA ReceiveStep ==
  ASSUME InductiveInv,
         NEW kind \in {"config", "keyConfig", "idr", "sei", "delta", "other"},
         NEW n \in 1 .. MaxLen, Receive(kind, n)
  PROVE  InductiveInv'
  <1> DEFINE new == [kind |-> kind, gen |-> gen,
                     seg |-> [start |-> LB!Start(n), len |-> n, age |-> 0]]
  <1> USE DEF InductiveInv
  <1>1. /\ rpc = "read" /\ rpc' = "packet" /\ pkt' = {new}
        /\ pkt = {} /\ box = {} /\ box' = {}
        /\ UNCHANGED <<gen, conn, cache, first, consumer>>
        /\ quiet' = IF kind \in Quiet THEN quiet + 1 ELSE 0
        /\ kind \in Quiet => quiet < MaxQuiet
    BY DEF Receive, ReaderHolds
  <1>2. Window \in Nat /\ LB!Start(n) \in Nat /\ Advance(n) \in Nat
    BY InsideWindow, VideoConstants DEF TypeOK, LB!Start, Advance, LB!NextOffset
  <1>3. new \in Packet /\ new.kind = kind /\ new.seg.age = 0
    BY <1>2, VideoConstants DEF Packet, Payload, TypeOK
  <1> HIDE DEF new
  <1>4. /\ chan' \in Seq(AnyBox) /\ Len(chan') = Len(chan)
        /\ DOMAIN chan' = DOMAIN chan
        /\ \A i \in DOMAIN chan : chan'[i] = Aged(chan[i])
    BY AgedChannel DEF Receive
  <1>5. held' = AllAged(held) /\ updates' = AllAged(updates) /\ writer' = AllAged(writer)
    BY DEF Receive
  <1>6. held' \subseteq AnyBox
    <2> SUFFICES ASSUME NEW a \in held PROVE Aged(a) \in AnyBox
      BY <1>5 DEF AllAged
    <2>1. a \in Raw => a.seg.age < Window
      BY <1>1, RoomForOne, WhoIsBuffered
    <2> QED BY <2>1, AgedFields DEF TypeOK, AnyBox
  <1>7. /\ updates' \subseteq Packet /\ writer' \subseteq Packet
        /\ \A u \in writer : Aged(u).gen = u.gen
    BY <1>5, AgedFields DEF TypeOK, AllAged, Receive
  <1>8. TypeOK'
    <2>1. quiet' \in 0 .. MaxQuiet
      BY <1>1, VideoConstants DEF TypeOK
    <2>2. phase' \in {"config", "key", "delta"} /\ offset' \in Nat
      BY <1>2 DEF Receive, Sends
    <2>3. AtMostOne(held') /\ AtMostOne(writer')
      BY <1>5 DEF TypeOK, AtMostOne, AllAged
    <2>4. AtMostOne(pkt') /\ pkt' \subseteq Packet
      BY <1>1, <1>3 DEF AtMostOne
    <2> QED
      BY <1>1, <1>4, <1>6, <1>7, <2>1, <2>2, <2>3, <2>4
      DEF TypeOK, AtMostOne, AnyBox, first
  <1>9. ReaderHolds'
    BY <1>1, <1>3 DEF ReaderHolds, first
  <1>10. Since' = (IF kind \in Quiet THEN quiet + 1 ELSE PerBox)
    BY <1>1, <1>3 DEF Since
  <1>11. Since = quiet /\ quiet \in Nat /\ quiet + 1 <= PerBox /\ PerBox \in Nat
    BY <1>1, VideoConstants DEF Since, TypeOK, PerBox
  <1>12. Since + 1 <= Since' /\ Since \in Nat /\ Since' \in Nat
    BY <1>10, <1>11
  <1>13. Fresh'
    <2>1. ASSUME NEW i \in DOMAIN chan', Buffered(chan'[i])
          PROVE  chan'[i].seg.age <= (Len(chan') - i) * PerBox + Since'
      <3>1. DOMAIN chan = 1 .. Len(chan) /\ Len(chan) \in Nat
        BY LenProperties DEF TypeOK
      <3>2. chan[i] \in Raw
        <4>1. chan[i] \in Raw \/ chan[i] \in Merged
          BY <1>4, <3>1, ElementOfSeq DEF TypeOK
        <4> QED BY <1>4, <2>1, <4>1, AgedFields, WhoIsBuffered
      <3>3. /\ chan[i].seg.age <= (Len(chan) - i) * PerBox + Since
            /\ chan[i].seg.age < Window
        BY <1>1, <1>4, <3>2, RoomForOne, WhoIsBuffered DEF Fresh, YoungOnChan
      <3>4. chan'[i].seg.age = chan[i].seg.age + 1
        BY <1>4, <3>2, <3>3, AgedFields
      <3>5. chan[i].seg.age \in Nat
        BY <1>2, <3>2 DEF Raw, Payload
      <3>6. (Len(chan) - i) * PerBox \in Nat
        <4>1. i \in 1 .. Len(chan)
          BY <1>4, <3>1, Zenon
        <4>2. Len(chan) - i \in Nat
          BY <3>1, <4>1
        <4> QED BY <4>2, Multiples
      <3> QED BY <1>4, <1>12, <3>3, <3>4, <3>5, <3>6
    <2>2. ASSUME NEW b \in held', Buffered(b)
          PROVE  b.seg.age <= Len(chan') * PerBox + Since'
      <3>1. PICK a \in held : b = Aged(a)
        BY <1>5 DEF AllAged
      <3>2. a \in Raw
        BY <2>2, <3>1, AgedFields, WhoIsBuffered DEF TypeOK
      <3>3. a.seg.age <= Len(chan) * PerBox + Since /\ a.seg.age < Window
        BY <1>1, <3>2, RoomForOne, WhoIsBuffered DEF Fresh, YoungHeld
      <3>4. b.seg.age = a.seg.age + 1
        BY <3>1, <3>2, <3>3, AgedFields
      <3>5. a.seg.age \in Nat
        BY <1>2, <3>2 DEF Raw, Payload
      <3>6. Len(chan) * PerBox \in Nat
        BY LenProperties, Multiples DEF TypeOK
      <3> QED BY <1>4, <1>12, <3>3, <3>4, <3>5, <3>6
    <2> QED BY <1>1, <1>3, <2>1, <2>2 DEF Fresh, YoungOnChan, YoungHeld
  <1>14. CacheTogether'
    BY <1>1, <1>5, <1>7 DEF CacheTogether, AllAged
  <1>15. ParametersBelongTogether'
    <2> SUFFICES ASSUME NEW b \in Boxes', b \in Merged PROVE b.sps = b.pps
      BY DEF ParametersBelongTogether, Merged
    <2>1. CASE b \in ToSet(chan')
      <3>1. PICK i \in DOMAIN chan : b = Aged(chan[i])
        BY <1>4, <2>1 DEF ToSet
      <3>2. chan[i] \in Merged
        <4>1. DOMAIN chan = 1 .. Len(chan)
          BY LenProperties DEF TypeOK
        <4>2. chan[i] \in Raw \/ chan[i] \in Merged
          BY <4>1, ElementOfSeq DEF TypeOK
        <4> QED BY <1>1, <3>1, <4>2, AgedFields, RoomForOne, WhoIsBuffered
      <3>3. b = chan[i]
        BY <3>1, <3>2, AgedFields
      <3> QED BY <3>2, <3>3 DEF ParametersBelongTogether, Boxes, ToSet
    <2>2. CASE b \in held'
      <3>1. PICK a \in held : b = Aged(a)
        BY <1>5, <2>2 DEF AllAged
      <3>2. a \in Merged
        BY <1>1, <3>1, AgedFields, RoomForOne, WhoIsBuffered DEF TypeOK
      <3>3. b = a
        BY <3>1, <3>2, AgedFields
      <3> QED BY <3>2, <3>3 DEF ParametersBelongTogether, Boxes
    <2>3. CASE b \in sbox
      BY <2>3 DEF ParametersBelongTogether, Boxes
    <2> QED BY <1>1, <2>1, <2>2, <2>3 DEF Boxes, first
  <1> QED BY <1>8, <1>9, <1>13, <1>14, <1>15
\* The reader works on the packet it has read.
LEMMA PacketedStep == ASSUME InductiveInv, Packeted PROVE InductiveInv'
  <1> USE DEF InductiveInv
  <1>1. /\ rpc = "packet" /\ box = {}
        /\ UNCHANGED <<device, conn, offset, cache, first, chan, agent>>
    BY DEF Packeted, ReaderHolds
  <1>2. PICK p \in pkt : SpawnUpdate(p) \/ SpawnAndBox(p) \/ BoxDelta(p) \/ Wrap(p) \/ Skip(p)
    BY DEF Packeted
  <1>3. /\ p \in Packet /\ p.seg.age = 0 /\ pkt = {p}
        /\ p.kind \notin Quiet => quiet = 0
    BY <1>1 DEF TypeOK, AtMostOne, Fresh, ReaderHolds
  <1>4. p.kind \in {"delta", "keyConfig"} => p \in Raw
    BY <1>3 DEF Packet, Raw
  <1>5. Since = IF p.kind \notin Quiet THEN PerBox ELSE quiet
    BY <1>1, <1>3 DEF Since
  <1>6. CASE SpawnUpdate(p) \/ Skip(p)
    <2>1. /\ p.kind \in Quiet /\ pkt' = {} /\ rpc' = "read" /\ box' = {} /\ writer' = writer
          /\ updates' = updates \/ updates' = updates \cup {p}
      BY <1>1, <1>6 DEF SpawnUpdate, Skip, Quiet, updaters
    <2>2. Since' = Since
      BY <1>1, <1>5, <2>1 DEF Since, device
    <2>3. TypeOK'
      BY <1>1, <1>3, <2>1 DEF TypeOK, AtMostOne, device, first, agent
    <2>4. ReaderHolds' /\ Fresh'
      BY <1>1, <2>1, <2>2 DEF ReaderHolds, Fresh, first, agent
    <2>5. CacheTogether' /\ ParametersBelongTogether'
      BY <1>1, <2>1 DEF CacheTogether, ParametersBelongTogether, Boxes, Merged, first, agent
    <2> QED BY <2>3, <2>4, <2>5
  <1>7. CASE SpawnAndBox(p) \/ BoxDelta(p)
    <2>1. /\ p.kind \notin Quiet /\ p \in Raw /\ pkt' = {} /\ rpc' = "send" /\ box' = {p}
          /\ writer' = writer
          /\ updates' = updates \/ updates' = updates \cup {p}
      BY <1>4, <1>7 DEF SpawnAndBox, BoxDelta, Quiet, updaters
    <2>2. Since' = Since
      BY <1>5, <2>1 DEF Since
    <2>3. TypeOK'
      BY <1>1, <1>3, <2>1 DEF TypeOK, AtMostOne, device, first, agent
    <2>4. ReaderHolds' /\ Fresh'
      BY <1>1, <1>3, <2>1, <2>2 DEF ReaderHolds, Fresh, device, first, agent
    <2>5. CacheTogether'
      BY <1>1, <2>1 DEF CacheTogether
    <2>6. ParametersBelongTogether'
      BY <1>1, <2>1, WhoIsBuffered DEF ParametersBelongTogether, Boxes, first, agent, Merged
    <2> QED BY <2>3, <2>4, <2>5, <2>6
  <1>8. CASE Wrap(p)
    <2> DEFINE new == [kind |-> "frame", sps |-> cache.sps, pps |-> cache.pps,
                       idr |-> p.gen, idrLen |-> p.gen]
    <2>1. /\ p.kind \notin Quiet /\ writer = {} /\ pkt' \in {{}, pkt} /\ rpc' = "send"
          /\ box' = {new} /\ writer' = writer /\ updates' = updates
      BY <1>8 DEF Wrap, CanReadLock, Quiet, updaters
    <2>2. Since' = Since
      BY <1>5, <2>1 DEF Since
    <2>3. new \in Merged /\ new.sps = new.pps
      BY <1>3, <2>1, VideoConstants DEF CacheTogether, Merged, Packet, Generations, TypeOK
    <2> HIDE DEF new
    <2>4. TypeOK'
      BY <1>1, <2>1, <2>3 DEF TypeOK, AtMostOne, device, first, agent
    <2>5. ReaderHolds' /\ Fresh'
      BY <1>1, <1>3, <2>1, <2>2, <2>3, WhoIsBuffered
      DEF ReaderHolds, Fresh, device, first, agent
    <2>6. CacheTogether'
      BY <1>1, <2>1 DEF CacheTogether
    <2>7. ParametersBelongTogether'
      BY <1>1, <2>1, <2>3 DEF ParametersBelongTogether, Boxes, first, agent, Merged
    <2> QED BY <2>4, <2>5, <2>6, <2>7
  <1> QED BY <1>2, <1>6, <1>7, <1>8

\* A box x is put on the channel: every other box there is one further from the end.
LEMMA YoungerByOne ==
  ASSUME NEW s \in Seq(AnyBox), NEW x \in AnyBox, NEW t, t = s \o SetToSeq({x}),
         NEW q \in Nat, NEW r \in Nat, r <= q + PerBox,
         YoungOnChan(s, r), Buffered(x) => x.seg.age = 0
  PROVE  YoungOnChan(t, q)
  <1>1. Len(s) \in Nat /\ DOMAIN s = 1 .. Len(s)
    BY LenProperties
  <1>2. /\ t \in Seq(AnyBox) /\ Len(t) = Len(s) + 1
        /\ \A i \in 1 .. Len(s) : t[i] = s[i]
        /\ t[Len(s) + 1] = x
    <2> DEFINE u == s \o SetToSeq({x})
    <2>1. /\ u \in Seq(AnyBox) /\ Len(u) = Len(s) + 1
          /\ \A i \in 1 .. Len(s) : u[i] = s[i]
          /\ u[Len(s) + 1] = x
      <3>1. ASSUME NEW i \in 1 .. Len(s) PROVE u[i] = s[i]
        <4>1. \A j \in 1 .. Len(s) : (s \o SetToSeq({x}))[j] = s[j]
          BY ONLY SendOne, s \in Seq(AnyBox), x \in AnyBox, SMT
        <4> QED BY <4>1, Zenon
      <3>2. u \in Seq(AnyBox) /\ Len(u) = Len(s) + 1 /\ u[Len(s) + 1] = x
        BY SendOne, Zenon
      <3> QED BY <3>1, <3>2, Zenon
    <2> QED BY <2>1, Zenon
  <1>3. DOMAIN t = 1 .. Len(s) + 1
    BY <1>2, LenProperties
  <1>4. ASSUME NEW i \in DOMAIN t, Buffered(t[i])
        PROVE  t[i].seg.age <= (Len(t) - i) * PerBox + q
    <2>1. CASE i = Len(s) + 1
      <3>1. (Len(t) - i) * PerBox \in Nat
        <4>1. Len(t) - i \in Nat
          BY <1>1, <1>2, <2>1
        <4> QED BY <4>1, Multiples
      <3>2. t[i].seg.age = 0
        BY <1>2, <1>4, <2>1
      <3> QED BY <3>1, <3>2
    <2>2. CASE i \in 1 .. Len(s)
      <3> DEFINE a == (Len(s) - i) * PerBox
                 b == (Len(t) - i) * PerBox
      <3>1. Len(s) - i \in Nat /\ Len(t) - i = (Len(s) - i) + 1
        BY <1>1, <1>2, <2>2
      <3>2. /\ (Len(t) - i) * PerBox = (Len(s) - i) * PerBox + PerBox
            /\ (Len(s) - i) * PerBox \in Nat /\ PerBox \in Nat
        BY <3>1, Multiples
      <3>3. t[i] = s[i] /\ t[i] \in AnyBox
        BY <1>2, <2>2, ElementOfSeq
      <3>4. t[i].seg.age <= (Len(s) - i) * PerBox + r
        BY <1>1, <1>4, <2>2, <3>3 DEF YoungOnChan
      <3>5. t[i].seg.age \in Nat
        <4>1. Window \in Nat
          BY InsideWindow, VideoConstants
        <4>2. t[i] \in Raw
          BY <1>4, <3>3, WhoIsBuffered DEF AnyBox
        <4> QED BY <4>1, <4>2 DEF Raw, Payload
      <3>6. b = a + PerBox /\ a \in Nat /\ PerBox \in Nat /\ t[i].seg.age <= a + r
        BY <3>2, <3>4
      <3> HIDE DEF a, b
      <3> DEFINE age == t[i].seg.age
      <3>7. age \in Nat /\ age <= a + r
        BY <3>5, <3>6
      <3> HIDE DEF age
      <3>8. age <= b + q
        BY <3>6, <3>7
      <3> QED BY <3>8 DEF age, b
    <2>3. i = Len(s) + 1 \/ i \in 1 .. Len(s)
      BY <1>1, <1>3
    <2> QED BY <2>1, <2>2, <2>3
  <1> QED BY <1>4 DEF YoungOnChan

\* With one more box behind it, the box the agent holds has more time.
LEMMA HeldYoungerByOne ==
  ASSUME NEW S \in SUBSET AnyBox, NEW k \in Nat,
         NEW q \in Nat, NEW r \in Nat, r <= q + PerBox, YoungHeld(S, k, r)
  PROVE  YoungHeld(S, k + 1, q)
  <1> SUFFICES ASSUME NEW b \in S, Buffered(b)
               PROVE  b.seg.age <= (k + 1) * PerBox + q
    BY DEF YoungHeld
  <1>1. (k + 1) * PerBox = k * PerBox + PerBox /\ k * PerBox \in Nat /\ PerBox \in Nat
    BY Multiples
  <1>2. b.seg.age <= k * PerBox + r
    BY DEF YoungHeld
  <1>3. b.seg.age \in Nat
    BY WhoIsBuffered, InsideWindow, VideoConstants DEF AnyBox, Raw, Payload
  <1> QED BY <1>1, <1>2, <1>3

\* The agent takes the first box: the others keep their distance from the end.
LEMMA YoungAfterTake ==
  ASSUME NEW s \in Seq(AnyBox), s # <<>>, NEW q \in Nat, YoungOnChan(s, q)
  PROVE  /\ YoungOnChan(Tail(s), q)
         /\ YoungHeld({Head(s)}, Len(Tail(s)), q)
  <1>1. /\ Head(s) = s[1] /\ s[1] \in AnyBox
        /\ Tail(s) \in Seq(AnyBox) /\ Len(Tail(s)) = Len(s) - 1
        /\ Len(s) \in Nat \ {0}
        /\ \A i \in 1 .. Len(Tail(s)) : Tail(s)[i] = s[i + 1]
    <2> HIDE DEF AnyBox
    <2> QED BY TakeOne
  <1>2. DOMAIN s = 1 .. Len(s) /\ DOMAIN Tail(s) = 1 .. Len(Tail(s))
    BY <1>1, LenProperties
  <1>3. ASSUME NEW i \in DOMAIN Tail(s), Buffered(Tail(s)[i])
        PROVE  Tail(s)[i].seg.age <= (Len(Tail(s)) - i) * PerBox + q
    <2>1. i + 1 \in DOMAIN s /\ Len(s) - (i + 1) = Len(Tail(s)) - i
      BY <1>1, <1>2
    <2>2. Tail(s)[i] = s[i + 1]
      BY <1>1, <1>2
    <2> QED BY <1>3, <2>1, <2>2 DEF YoungOnChan
  <1>4. Buffered(s[1]) => s[1].seg.age <= Len(Tail(s)) * PerBox + q
    <2>1. 1 \in DOMAIN s
      BY <1>1, <1>2
    <2> QED BY <1>1, <2>1 DEF YoungOnChan
  <1> QED BY <1>1, <1>3, <1>4 DEF YoungOnChan, YoungHeld
\* A box that goes to the channel keeps the channel typed.
LEMMA ChannelGrows ==
  ASSUME TypeOK, HasRoom, NEW x \in AnyBox, chan' = chan \o SetToSeq({x})
  PROVE  /\ chan' \in Seq(AnyBox) /\ Len(chan') <= ChanCap
         /\ Len(chan) \in Nat /\ Len(chan') = Len(chan) + 1
         /\ ToSet(chan') = ToSet(chan) \cup {x}
  <1>1. chan \in Seq(AnyBox)
    BY DEF TypeOK, AnyBox
  <1>2. Len(chan) \in Nat /\ Len(chan) < ChanCap
    BY <1>1, LenProperties DEF HasRoom
  <1>3. /\ chan' \in Seq(AnyBox) /\ Len(chan') = Len(chan) + 1
        /\ ToSet(chan') = ToSet(chan) \cup {x}
    <2> DEFINE t == chan \o SetToSeq({x})
    <2>1. t \in Seq(AnyBox) /\ Len(t) = Len(chan) + 1
      BY <1>1, SendOne, Zenon
    <2>2. ToSet(t) = ToSet(chan) \cup {x}
      BY <1>1, SendOne, SMT
    <2> QED BY <2>1, <2>2, Zenon
  <1>4. \A k \in Nat : k < ChanCap => k + 1 <= ChanCap
    BY VideoConstants
  <1>5. Len(chan') <= ChanCap
    BY <1>2, <1>3, <1>4, Zenon
  <1> QED BY <1>2, <1>3, <1>5, Zenon

\* The reader's box goes to the channel: the packets since are those of the next one.
LEMMA SendStep == ASSUME InductiveInv, Send PROVE InductiveInv'
  <1> USE DEF InductiveInv
  <1>1. /\ rpc = "send" /\ HasRoom /\ box' = {} /\ quiet = 0 /\ quiet' = 0
        /\ rpc' = IF pkt = {} THEN "read" ELSE "idrLen"
        /\ UNCHANGED <<device, conn, offset, pkt, cache, updaters, first, agent>>
    BY DEF Send, ReaderHolds, device
  <1>2. PICK x \in box : box = {x}
    BY <1>1 DEF ReaderHolds, TypeOK, AtMostOne
  <1>3. x \in AnyBox /\ (Buffered(x) => x.seg.age = 0)
    BY DEF Fresh, TypeOK, AnyBox
  <1>4. chan' = chan \o SetToSeq({x})
    BY <1>2 DEF Send
  <1>5. /\ chan' \in Seq(AnyBox) /\ Len(chan') <= ChanCap
        /\ Len(chan) \in Nat /\ Len(chan') = Len(chan) + 1
        /\ ToSet(chan') = ToSet(chan) \cup {x}
    BY <1>1, <1>3, <1>4, ChannelGrows
  <1>6. Since = PerBox /\ Since' = 0 /\ PerBox \in Nat /\ PerBox <= 0 + PerBox
    BY <1>1, VideoConstants DEF Since, PerBox
  <1>7. TypeOK'
    BY <1>1, <1>5 DEF TypeOK, AtMostOne, AnyBox, device, updaters, first, agent
  <1>8. ReaderHolds'
    BY <1>1 DEF ReaderHolds, first
  <1>9. YoungOnChan(chan', 0)
    BY <1>3, <1>4, <1>6, YoungerByOne DEF Fresh, TypeOK, AnyBox
  <1>10. YoungHeld(held', Len(chan'), 0)
    BY <1>1, <1>5, <1>6, HeldYoungerByOne DEF Fresh, TypeOK, AnyBox, agent
  <1>11. Fresh'
    BY <1>1, <1>6, <1>9, <1>10 DEF Fresh
  <1>12. CacheTogether'
    BY <1>1 DEF CacheTogether, updaters
  <1>13. ParametersBelongTogether'
    BY <1>1, <1>2, <1>5 DEF ParametersBelongTogether, Boxes, Merged, first, agent
  <1> QED BY <1>7, <1>8, <1>11, <1>12, <1>13

\* The copy of the cache goes to the channel.
LEMMA SendCachedStep == ASSUME InductiveInv, SendCached PROVE InductiveInv'
  <1> USE DEF InductiveInv
  <1>1. /\ starter = "send" /\ HasRoom /\ sbox' = {} /\ starter' = "done"
        /\ UNCHANGED <<device, conn, offset, reader, cache, updaters, agent>>
    BY DEF SendCached
  <1>2. PICK x \in sbox : sbox = {x}
    BY <1>1 DEF ReaderHolds, TypeOK, AtMostOne
  <1>3. x \in AnyBox /\ ~ Buffered(x)
    BY WhoIsBuffered DEF TypeOK, AnyBox
  <1>4. chan' = chan \o SetToSeq({x})
    BY <1>2 DEF SendCached
  <1>5. /\ chan' \in Seq(AnyBox) /\ Len(chan') <= ChanCap
        /\ Len(chan) \in Nat /\ Len(chan') = Len(chan) + 1
        /\ ToSet(chan') = ToSet(chan) \cup {x}
    BY <1>1, <1>3, <1>4, ChannelGrows
  <1>6. /\ Since' = Since /\ Since \in Nat /\ Since <= Since + PerBox
    BY <1>1, VideoConstants DEF Since, PerBox, TypeOK, device, reader
  <1>7. TypeOK'
    BY <1>1, <1>5 DEF TypeOK, AtMostOne, AnyBox, device, updaters, reader, agent
  <1>8. ReaderHolds'
    BY <1>1 DEF ReaderHolds, reader, device
  <1>9. YoungOnChan(chan', Since)
    BY <1>3, <1>4, <1>6, YoungerByOne DEF Fresh, TypeOK, AnyBox
  <1>10. YoungHeld(held', Len(chan'), Since)
    BY <1>1, <1>5, <1>6, HeldYoungerByOne DEF Fresh, TypeOK, AnyBox, agent
  <1>11. Fresh'
    BY <1>1, <1>6, <1>9, <1>10 DEF Fresh, reader
  <1>12. CacheTogether'
    BY <1>1 DEF CacheTogether, updaters
  <1>13. ParametersBelongTogether'
    BY <1>1, <1>2, <1>5 DEF ParametersBelongTogether, Boxes, Merged, reader, agent
  <1> QED BY <1>7, <1>8, <1>11, <1>12, <1>13

\* The agent takes a box.
LEMMA TakeStep == ASSUME InductiveInv, Take PROVE InductiveInv'
  <1> USE DEF InductiveInv
  <1>1. /\ chan # <<>> /\ held' = {Head(chan)} /\ chan' = Tail(chan)
        /\ UNCHANGED <<device, conn, offset, reader, cache, updaters, first, consumer>>
    BY DEF Take
  <1>2. chan \in Seq(AnyBox) /\ Len(chan) <= ChanCap
    BY DEF TypeOK, AnyBox
  <1>3. /\ Head(chan) \in AnyBox
        /\ chan' \in Seq(AnyBox) /\ Len(chan') <= ChanCap
        /\ ToSet(chan) = ToSet(chan') \cup {Head(chan)}
    <2>1. /\ Head(chan) = chan[1] /\ chan[1] \in AnyBox
          /\ Tail(chan) \in Seq(AnyBox) /\ Len(Tail(chan)) = Len(chan) - 1
          /\ Len(chan) \in Nat \ {0}
          /\ ToSet(chan) = ToSet(Tail(chan)) \cup {chan[1]}
      BY <1>1, <1>2, TakeOne, Zenon
    <2> QED BY <1>1, <1>2, <2>1, VideoConstants
  <1>4. Since' = Since /\ Since \in Nat
    BY <1>1, VideoConstants DEF Since, PerBox, TypeOK, device, reader
  <1>5. TypeOK'
    BY <1>1, <1>3 DEF TypeOK, AtMostOne, AnyBox, device, updaters, reader, first
  <1>6. ReaderHolds'
    BY <1>1 DEF ReaderHolds, reader, device, first
  <1>7. YoungOnChan(chan', Since) /\ YoungHeld(held', Len(chan'), Since)
    BY <1>1, <1>2, <1>4, YoungAfterTake DEF Fresh
  <1>8. Fresh'
    BY <1>1, <1>4, <1>7 DEF Fresh, reader
  <1>9. CacheTogether'
    BY <1>1 DEF CacheTogether, updaters
  <1>10. ParametersBelongTogether'
    BY <1>1, <1>3 DEF ParametersBelongTogether, Boxes, Merged, reader, first
  <1> QED BY <1>5, <1>6, <1>8, <1>9, <1>10
\* The steps of the device and the connection, and the end of the reader.
LEMMA DeviceStep ==
  ASSUME InductiveInv, Restart \/ CloseConn \/ ReadFails PROVE InductiveInv'
  <1> USE DEF InductiveInv
  <1>1. /\ UNCHANGED <<quiet, offset, pkt, box, cache, updaters, first, chan, agent>>
        /\ rpc' = rpc \/ (rpc = "read" /\ rpc' = "ended")
    BY DEF Restart, CloseConn, ReadFails, reader, device
  <1>2. gen' \in Generations /\ phase' \in {"config", "key", "delta"} /\ conn' \in {"open", "closed"}
    BY VideoConstants DEF Restart, CloseConn, ReadFails, TypeOK, Generations, device
  <1>3. Since' = Since
    BY <1>1 DEF Since
  <1>4. TypeOK'
    BY <1>1, <1>2 DEF TypeOK, AtMostOne, updaters, first, agent
  <1>5. ReaderHolds' /\ Fresh'
    BY <1>1, <1>3 DEF ReaderHolds, Fresh, first, agent
  <1>6. CacheTogether' /\ ParametersBelongTogether'
    BY <1>1 DEF CacheTogether, ParametersBelongTogether, Boxes, Merged, updaters, first, agent
  <1> QED BY <1>4, <1>5, <1>6

\* The reader writes LastIDR, which is not a parameter set.
LEMMA IdrStep == ASSUME InductiveInv, WriteIdrLen \/ WriteIdr PROVE InductiveInv'
  <1> USE DEF InductiveInv
  <1>1. /\ rpc \in {"idrLen", "idr"} /\ rpc' \in {"idr", "read"} /\ box = {} /\ quiet = 0
        /\ UNCHANGED <<device, conn, offset, box, updaters, first, chan, agent>>
        /\ rpc' = "idr" => pkt' = pkt
        /\ rpc' = "read" => pkt' = {}
        /\ pkt # {}
    BY DEF WriteIdrLen, WriteIdr, ReaderHolds
  <1>2. cache' \in [sps : 0 .. MaxGen, pps : 0 .. MaxGen, idr : 0 .. MaxGen, idrLen : 0 .. MaxGen]
    <2>1. PICK p \in pkt : \/ cache' = [cache EXCEPT !.idrLen = p.gen]
                            \/ cache' = [cache EXCEPT !.idr = p.gen]
      BY DEF WriteIdrLen, WriteIdr
    <2>2. p.gen \in 0 .. MaxGen
      BY VideoConstants DEF TypeOK, Packet, Generations
    <2> QED BY <2>1, <2>2 DEF TypeOK
  <1>3. cache'.sps = cache.sps /\ cache'.pps = cache.pps
    BY DEF WriteIdrLen, WriteIdr, TypeOK
  <1>4. Since' = Since
    BY <1>1 DEF Since, device
  <1>5. TypeOK'
    BY <1>1, <1>2 DEF TypeOK, AtMostOne, device, updaters, first, agent
  <1>6. ReaderHolds' /\ Fresh'
    BY <1>1, <1>4 DEF ReaderHolds, Fresh, device, first, agent
  <1>7. CacheTogether' /\ ParametersBelongTogether'
    BY <1>1, <1>3 DEF CacheTogether, ParametersBelongTogether, Boxes, Merged, updaters, first, agent
  <1> QED BY <1>5, <1>6, <1>7

\* updateCache writes the SPS under the mutex, then the PPS of the same packet.
LEMMA UpdaterStep == ASSUME InductiveInv, Updater PROVE InductiveInv'
  <1> USE DEF InductiveInv
  <1>1. /\ UNCHANGED <<device, conn, offset, reader, first, chan, agent>>
        /\ updates' \subseteq updates
    BY DEF Updater, LockAndCacheSps, CachePpsAndUnlock
  <1>2. Since' = Since
    BY <1>1 DEF Since, device, reader
  <1>3. ReaderHolds' /\ Fresh' /\ ParametersBelongTogether'
    BY <1>1, <1>2
    DEF ReaderHolds, Fresh, ParametersBelongTogether, Boxes, Merged, device, reader, first, agent
  <1>4. writer' \subseteq Packet /\ AtMostOne(writer') /\ CacheTogether'
        /\ cache' \in [sps : 0 .. MaxGen, pps : 0 .. MaxGen, idr : 0 .. MaxGen, idrLen : 0 .. MaxGen]
    <2>1. ASSUME NEW u \in updates, LockAndCacheSps(u)
          PROVE  /\ writer' \subseteq Packet /\ AtMostOne(writer') /\ CacheTogether'
                 /\ cache' \in [sps : 0 .. MaxGen, pps : 0 .. MaxGen,
                                idr : 0 .. MaxGen, idrLen : 0 .. MaxGen]
      <3>1. u \in Packet /\ u.gen \in 0 .. MaxGen
        BY VideoConstants DEF TypeOK, Packet, Generations
      <3>2. writer' = {u} /\ cache' = [cache EXCEPT !.sps = u.gen]
        BY <2>1 DEF LockAndCacheSps
      <3> QED BY <3>1, <3>2 DEF TypeOK, AtMostOne, CacheTogether
    <2>2. ASSUME CachePpsAndUnlock
          PROVE  /\ writer' \subseteq Packet /\ AtMostOne(writer') /\ CacheTogether'
                 /\ cache' \in [sps : 0 .. MaxGen, pps : 0 .. MaxGen,
                                idr : 0 .. MaxGen, idrLen : 0 .. MaxGen]
      <3>1. PICK u \in writer :
              cache' = IF u.kind = "config" THEN [cache EXCEPT !.pps = u.gen]
                       ELSE [cache EXCEPT !.pps = u.gen, !.idr = u.gen, !.idrLen = u.gen]
        BY <2>2 DEF CachePpsAndUnlock
      <3>2. u.gen \in 0 .. MaxGen /\ cache.sps = u.gen
        BY VideoConstants DEF TypeOK, Packet, Generations, CacheTogether
      <3>3. writer' = {}
        BY <2>2 DEF CachePpsAndUnlock, Unlocked
      <3> QED BY <3>1, <3>2, <3>3 DEF TypeOK, AtMostOne, CacheTogether
    <2> QED BY <2>1, <2>2 DEF Updater
  <1>5. TypeOK'
    BY <1>1, <1>4 DEF TypeOK, AtMostOne, device, reader, first, agent
  <1> QED BY <1>3, <1>4, <1>5

\* RequestIDR(true) looks at the cache and copies it when nobody writes it.
LEMMA StarterStep == ASSUME InductiveInv, CheckCache \/ CopyCache PROVE InductiveInv'
  <1> USE DEF InductiveInv
  <1>1. UNCHANGED <<device, conn, offset, reader, cache, updaters, chan, agent>>
    BY DEF CheckCache, CopyCache
  <1>2. Since' = Since
    BY <1>1 DEF Since, device, reader
  <1>3. Fresh' /\ CacheTogether'
    BY <1>1, <1>2 DEF Fresh, CacheTogether, reader, updaters, agent
  <1>4. /\ sbox' \subseteq Merged /\ AtMostOne(sbox')
        /\ \A b \in sbox' : b \in Merged => b.sps = b.pps
        /\ starter' \in {"check", "copy", "send", "done"}
        /\ starter' = "send" <=> sbox' # {}
    <2>1. CASE CheckCache
      BY <2>1 DEF CheckCache, TypeOK, ParametersBelongTogether, Boxes, ReaderHolds
    <2>2. CASE CopyCache
      <3> DEFINE copy == [kind |-> "cached", sps |-> cache.sps, pps |-> cache.pps,
                          idr |-> cache.idr, idrLen |-> cache.idrLen]
      <3>1. sbox' = {copy} /\ starter' = "send" /\ writer = {}
        BY <2>2 DEF CopyCache, CanReadLock
      <3>2. copy \in Merged /\ copy.sps = copy.pps
        BY <3>1 DEF TypeOK, Merged, CacheTogether
      <3> HIDE DEF copy
      <3> QED BY <3>1, <3>2 DEF AtMostOne
    <2> QED BY <2>1, <2>2
  <1>5. TypeOK'
    BY <1>1, <1>4 DEF TypeOK, AtMostOne, device, reader, updaters, agent
  <1>6. ReaderHolds'
    BY <1>1, <1>4 DEF ReaderHolds, device, reader
  <1>7. ParametersBelongTogether'
    BY <1>1, <1>4 DEF ParametersBelongTogether, Boxes, Merged, reader, agent
  <1> QED BY <1>3, <1>5, <1>6, <1>7

\* The agent is done with its box.
LEMMA WriteStep == ASSUME InductiveInv, Write \/ WriteFails PROVE InductiveInv'
  <1> USE DEF InductiveInv
  <1>1. /\ UNCHANGED <<device, conn, offset, reader, cache, updaters, first, chan>>
        /\ held' = {} /\ consumer' \in {consumer, "gone"}
    BY DEF Write, WriteFails
  <1>2. Since' = Since
    BY <1>1 DEF Since, device, reader
  <1>3. TypeOK' /\ ReaderHolds'
    BY <1>1 DEF TypeOK, ReaderHolds, AtMostOne, device, reader, updaters, first
  <1>4. Fresh' /\ CacheTogether' /\ ParametersBelongTogether'
    BY <1>1, <1>2 DEF Fresh, YoungHeld, CacheTogether, ParametersBelongTogether, Boxes,
                      Merged, reader, updaters, first
  <1> QED BY <1>3, <1>4

\* The invariant is inductive.
LEMMA InvariantStep == InductiveInv /\ [Next]_vars => InductiveInv'
  <1> SUFFICES ASSUME InductiveInv, [Next]_vars PROVE InductiveInv'
    OBVIOUS
  <1>1. CASE UNCHANGED vars
    BY <1>1 DEF vars, device, reader, updaters, first, agent, InductiveInv, TypeOK, AtMostOne,
                ReaderHolds, Fresh, Since, CacheTogether, ParametersBelongTogether, Boxes, Merged
  <1>2. CASE Restart \/ CloseConn \/ ReadFails
    BY <1>2, DeviceStep
  <1>3. CASE \E kind \in {"config", "keyConfig", "idr", "sei", "delta", "other"},
                n \in 1 .. MaxLen : Receive(kind, n)
    BY <1>3, ReceiveStep
  <1>4. CASE Packeted
    BY <1>4, PacketedStep
  <1>5. CASE Send \/ SendCached
    BY <1>5, SendStep, SendCachedStep
  <1>6. CASE WriteIdrLen \/ WriteIdr
    BY <1>6, IdrStep
  <1>7. CASE Updater
    BY <1>7, UpdaterStep
  <1>8. CASE CheckCache \/ CopyCache
    BY <1>8, StarterStep
  <1>9. CASE Take
    BY <1>9, TakeStep
  <1>10. CASE Write \/ WriteFails
    BY <1>10, WriteStep
  <1> QED
    BY <1>1, <1>2, <1>3, <1>4, <1>5, <1>6, <1>7, <1>8, <1>9, <1>10 DEF Next, Reader

\* A path on which nothing has been read yet satisfies the invariant.
LEMMA InvariantStart == Init => InductiveInv
  <1> SUFFICES ASSUME Init PROVE InductiveInv
    OBVIOUS
  <1>1. TypeOK
    BY VideoConstants, EmptySeq DEF Init, TypeOK, AtMostOne, Generations
  <1>2. ReaderHolds /\ CacheTogether
    BY DEF Init, ReaderHolds, CacheTogether
  <1>3. Fresh
    BY DEF Init, Fresh, YoungOnChan, YoungHeld
  <1>4. ParametersBelongTogether
    BY DEF Init, ParametersBelongTogether, Boxes, ToSet
  <1> QED BY <1>1, <1>2, <1>3, <1>4 DEF InductiveInv

\* Types, what each goroutine holds and how old payloads get are as the code intends.
THEOREM VideoInvariant == Spec => []InductiveInv
  BY InvariantStart, InvariantStep, PTL DEF Spec

\* The parameter sets in front of a key frame are of one packet.
THEOREM SetsTogether == Spec => []ParametersBelongTogether
  <1>1. InductiveInv => ParametersBelongTogether
    BY DEF InductiveInv
  <1> QED BY VideoInvariant, <1>1, PTL
-----------------------------------------------------------------------------
(* The refinement: reading a packet is a Get of the buffer, dropping the   *)
(* last reference to a payload is a Drop, and the rest leaves it alone.    *)

LBP == INSTANCE LinearBufferProofs WITH live <- InUse

\* What refers to a payload.
Refs == pkt \cup updates \cup writer \cup {b \in Boxes : Buffered(b)}

\* A step after which the same packets and boxes refer to payloads is a stutter.
LEMMA SameRefs ==
  ASSUME Refs' = Refs, offset' = offset
  PROVE  UNCHANGED LB!lbVars
  BY DEF Refs, InUse, LB!lbVars

\* A step after which x no longer refers to its payload drops it, unless another
\* packet or box still does.
LEMMA OneRefLess ==
  ASSUME NEW x \in Refs, Refs' \subseteq Refs, Refs \subseteq Refs' \cup {x}, offset' = offset
  PROVE  [LB!Next]_(LB!lbVars)
  <1>1. InUse = {y.seg : y \in Refs} /\ InUse' = {y.seg : y \in Refs'}
    BY DEF InUse, Refs
  <1>2. InUse = InUse' \cup {x.seg} /\ x.seg \in InUse
    BY <1>1
  <1>3. CASE x.seg \in InUse'
    BY <1>2, <1>3 DEF LB!lbVars
  <1>4. CASE x.seg \notin InUse'
    BY <1>2, <1>4 DEF LB!Next, LB!Drop
  <1> QED BY <1>3, <1>4

\* While the reader waits for a packet, what refers to a payload is waiting for
\* updateCache, on the channel or with the agent.
LEMMA RefsWhileReading ==
  ASSUME InductiveInv, rpc = "read"
  PROVE  Refs = updates \cup writer \cup {b \in ToSet(chan) \cup held : Buffered(b)}
  BY WhoIsBuffered DEF InductiveInv, TypeOK, ReaderHolds, Refs, Boxes

\* Everything that refers to a payload has room for one more Get.
LEMMA RefsHaveRoom ==
  ASSUME InductiveInv, rpc = "read",
         \A u \in updates \cup writer : u.seg.age < Window
  PROVE  \A x \in Refs : /\ x.seg.age < Window
                         /\ Aged(x).seg = [x.seg EXCEPT !.age = @ + 1]
                         /\ Buffered(Aged(x))
  <1> SUFFICES ASSUME NEW x \in Refs
               PROVE  /\ x.seg.age < Window
                      /\ Aged(x).seg = [x.seg EXCEPT !.age = @ + 1]
                      /\ Buffered(Aged(x))
    OBVIOUS
  <1>1. CASE x \in updates \cup writer
    BY <1>1, AgedFields, WhoIsBuffered DEF InductiveInv, TypeOK
  <1>2. ASSUME NEW b \in AnyBox, Buffered(b), b.seg.age < Window
        PROVE  /\ Aged(b).seg = [b.seg EXCEPT !.age = @ + 1]
               /\ Buffered(Aged(b))
    BY <1>2, AgedFields, WhoIsBuffered DEF AnyBox
  <1>3. CASE x \in ToSet(chan) /\ Buffered(x)
    <2>1. PICK i \in DOMAIN chan : x = chan[i]
      BY <1>3 DEF ToSet
    <2>2. x.seg.age < Window
      BY <1>3, <2>1, RoomForOne DEF InductiveInv
    <2>3. x \in AnyBox
      BY <2>1, LenProperties, ElementOfSeq DEF InductiveInv, TypeOK, AnyBox
    <2> QED BY <1>2, <1>3, <2>2, <2>3
  <1>4. CASE x \in held /\ Buffered(x)
    <2>1. x.seg.age < Window
      BY <1>4, RoomForOne DEF InductiveInv
    <2>2. x \in AnyBox
      BY <1>4 DEF InductiveInv, TypeOK, AnyBox
    <2> QED BY <1>2, <1>4, <2>1, <2>2
  <1> QED BY <1>1, <1>3, <1>4, RefsWhileReading

\* Reading a packet of n bytes is a Get of n bytes.
LEMMA ReceiveIsGet ==
  ASSUME InductiveInv,
         NEW kind \in {"config", "keyConfig", "idr", "sei", "delta", "other"},
         NEW n \in 1 .. MaxLen, Receive(kind, n)
  PROVE  LB!Get(n)
  <1> DEFINE new == [kind |-> kind, gen |-> gen,
                     seg |-> [start |-> LB!Start(n), len |-> n, age |-> 0]]
  <1>1. /\ rpc = "read" /\ \A u \in updates \cup writer : u.seg.age < Window
        /\ pkt' = {new} /\ offset' = LB!NextOffset(n)
        /\ box' = box /\ sbox' = sbox
        /\ held' = AllAged(held) /\ updates' = AllAged(updates) /\ writer' = AllAged(writer)
        /\ chan' = [i \in DOMAIN chan |-> Aged(chan[i])]
    BY DEF Receive, Advance, first
  <1>2. /\ \A x \in Refs : /\ x.seg.age < Window
                           /\ Aged(x).seg = [x.seg EXCEPT !.age = @ + 1]
                           /\ Buffered(Aged(x))
    BY <1>1, RefsHaveRoom
  <1>3. ToSet(chan') = AllAged(ToSet(chan))
    BY <1>1 DEF ToSet, AllAged
  <1>4. box = {} /\ pkt = {} /\ \A b \in sbox : ~ Buffered(b)
    BY <1>1, WhoIsBuffered DEF InductiveInv, TypeOK, ReaderHolds
  <1>5. \A x : Buffered(Aged(x)) => Buffered(x)
    BY DEF Aged
  <1> HIDE DEF new
  <1>6. {b \in Boxes' : Buffered(b)} = AllAged({b \in Boxes : Buffered(b)})
    <2>1. {b \in Boxes' : Buffered(b)} = {b \in AllAged(ToSet(chan) \cup held) : Buffered(b)}
      BY <1>1, <1>3, <1>4 DEF Boxes, AllAged
    <2>2. {b \in Boxes : Buffered(b)} = {b \in ToSet(chan) \cup held : Buffered(b)}
      BY <1>4 DEF Boxes
    <2>3. \A b \in ToSet(chan) \cup held : Buffered(b) => Buffered(Aged(b))
      BY <1>2, <2>2 DEF Refs
    <2> QED BY <1>5, <2>1, <2>2, <2>3 DEF AllAged
  <1>7. Refs' = AllAged(Refs) \cup {new}
    BY <1>1, <1>4, <1>6 DEF Refs, AllAged
  <1>8. InUse = {x.seg : x \in Refs} /\ InUse' = {x.seg : x \in Refs'}
    BY DEF InUse, Refs
  <1>9. InUse' = LB!Older(InUse) \cup {new.seg}
    <2> DEFINE older(g) == [g EXCEPT !.age = @ + 1]
    <2>1. LB!Older(InUse) = {older(x.seg) : x \in Refs}
      BY <1>8 DEF LB!Older
    <2>2. InUse' = {Aged(x).seg : x \in Refs} \cup {new.seg}
      BY <1>7, <1>8 DEF AllAged
    <2>3. \A x \in Refs : Aged(x).seg = older(x.seg)
      BY <1>2
    <2> HIDE DEF older
    <2> QED BY <2>1, <2>2, <2>3
  <1>10. new.seg = [start |-> LB!Start(n), len |-> n, age |-> 0]
    BY DEF new
  <1> QED BY <1>1, <1>2, <1>8, <1>9, <1>10 DEF LB!Get
\* Every other step keeps or drops one reference.
LEMMA OthersKeepOrDrop ==
  ASSUME InductiveInv,
         \/ Restart \/ CloseConn \/ Reader \/ Updater
         \/ CheckCache \/ CopyCache \/ SendCached
         \/ Take \/ Write \/ WriteFails
  PROVE  [LB!Next]_(LB!lbVars)
  <1> USE DEF InductiveInv
  <1>1. offset' = offset
    BY DEF Restart, CloseConn, Reader, ReadFails, Packeted, Send, WriteIdrLen, WriteIdr,
           Updater, LockAndCacheSps, CachePpsAndUnlock, CheckCache, CopyCache, SendCached,
           Take, Write, WriteFails
  <1>2. CASE Restart \/ CloseConn \/ ReadFails \/ WriteIdrLen \/ CheckCache
    <2>1. Refs' = Refs
      BY <1>2 DEF Restart, CloseConn, ReadFails, WriteIdrLen, CheckCache, Refs, Boxes,
                  reader, updaters, first, agent
    <2> QED BY <1>1, <2>1, SameRefs
  <1>3. CASE CopyCache
    <2>1. sbox = {}
      BY <1>3 DEF CopyCache, ReaderHolds
    <2>2. \A b \in sbox' : ~ Buffered(b)
      BY <1>3 DEF CopyCache, Buffered
    <2>3. Refs' = Refs
      BY <1>3, <2>1, <2>2 DEF CopyCache, Refs, Boxes, reader, updaters, agent
    <2> QED BY <1>1, <2>3, SameRefs
  <1>4. CASE Send \/ SendCached
    <2>1. \E x \in AnyBox : /\ chan' = chan \o SetToSeq({x}) /\ HasRoom
                           /\ box \cup sbox = box' \cup sbox' \cup {x}
      <3>1. CASE Send
        <4>1. PICK x \in box : box = {x}
          BY <3>1 DEF Send, ReaderHolds, TypeOK, AtMostOne
        <4>2. x \in AnyBox
          BY DEF TypeOK, AnyBox
        <4> QED BY <3>1, <4>1, <4>2 DEF Send, first
      <3>2. CASE SendCached
        <4>1. PICK x \in sbox : sbox = {x}
          BY <3>2 DEF SendCached, ReaderHolds, TypeOK, AtMostOne
        <4>2. x \in AnyBox
          BY DEF TypeOK, AnyBox
        <4> QED BY <3>2, <4>1, <4>2 DEF SendCached, reader
      <3> QED BY <1>4, <3>1, <3>2
    <2>2. Boxes' = Boxes
      BY <1>4, <2>1, ChannelGrows DEF Send, SendCached, Boxes, agent
    <2>3. Refs' = Refs
      BY <1>4, <2>2 DEF Send, SendCached, Refs, updaters, reader
    <2> QED BY <1>1, <2>3, SameRefs
  <1>5. CASE Take
    <2>1. /\ held = {} /\ held' = {Head(chan)} /\ chan' = Tail(chan) /\ chan # <<>>
          /\ UNCHANGED <<reader, updaters, first>>
      BY <1>5 DEF Take
    <2>2. ToSet(chan) = ToSet(chan') \cup {Head(chan)}
      <3>1. chan \in Seq(AnyBox)
        BY DEF TypeOK, AnyBox
      <3>2. Head(chan) = chan[1] /\ ToSet(chan) = ToSet(Tail(chan)) \cup {chan[1]}
        BY <2>1, <3>1, TakeOne, Zenon
      <3> QED BY <2>1, <3>2
    <2>3. Refs' = Refs
      BY <2>1, <2>2 DEF Refs, Boxes, reader, updaters, first
    <2> QED BY <1>1, <2>3, SameRefs
  <1>6. CASE Packeted
    <2>1. rpc = "packet" /\ box = {} /\ UNCHANGED <<first, chan, agent>>
      BY <1>6 DEF Packeted, ReaderHolds
    <2>2. PICK p \in pkt : SpawnUpdate(p) \/ SpawnAndBox(p) \/ BoxDelta(p) \/ Wrap(p) \/ Skip(p)
      BY <1>6 DEF Packeted
    <2>3. pkt = {p} /\ p \in Refs /\ Buffered(p)
      BY WhoIsBuffered DEF TypeOK, AtMostOne, Refs
    <2>4. CASE SpawnUpdate(p) \/ SpawnAndBox(p) \/ BoxDelta(p)
      <3>1. Refs' = Refs
        BY <2>1, <2>3, <2>4
        DEF SpawnUpdate, SpawnAndBox, BoxDelta, Refs, Boxes, updaters, first, agent
      <3> QED BY <1>1, <3>1, SameRefs
    <2>5. CASE Wrap(p) \/ Skip(p)
      <3>1. /\ UNCHANGED updaters /\ pkt' \in {{}, pkt}
            /\ \A b \in box' : ~ Buffered(b)
        BY <2>1, <2>5 DEF Wrap, Skip, Buffered
      <3>2. {b \in Boxes' : Buffered(b)} = {b \in Boxes : Buffered(b)}
        BY <2>1, <3>1 DEF Boxes, first, agent
      <3>3. Refs' \subseteq Refs /\ Refs \subseteq Refs' \cup {p}
        BY <2>3, <3>1, <3>2 DEF Refs, updaters
      <3> QED BY <1>1, <2>3, <3>3, OneRefLess
    <2> QED BY <2>2, <2>4, <2>5
  <1>7. CASE WriteIdr
    <2>1. PICK p \in pkt : TRUE
      BY <1>7 DEF WriteIdr
    <2>2. pkt = {p} /\ p \in Refs /\ pkt' = {} /\ UNCHANGED <<box, updaters, first, chan, agent>>
      BY <1>7 DEF WriteIdr, TypeOK, AtMostOne, Refs
    <2>3. Refs' \subseteq Refs /\ Refs \subseteq Refs' \cup {p}
      BY <2>2 DEF Refs, Boxes, updaters, first, agent
    <2> QED BY <1>1, <2>2, <2>3, OneRefLess
  <1>8. CASE Updater
    <2>1. UNCHANGED <<reader, first, chan, agent>>
      BY <1>8 DEF Updater, LockAndCacheSps, CachePpsAndUnlock
    <2>2. ASSUME NEW u \in updates, LockAndCacheSps(u) PROVE [LB!Next]_(LB!lbVars)
      <3>1. Refs' = Refs
        BY <2>1, <2>2 DEF LockAndCacheSps, Refs, Boxes, reader, first, agent
      <3> QED BY <1>1, <3>1, SameRefs
    <2>3. ASSUME CachePpsAndUnlock PROVE [LB!Next]_(LB!lbVars)
      <3>1. PICK u \in writer : TRUE
        BY <2>3 DEF CachePpsAndUnlock
      <3>2. writer = {u} /\ u \in Refs /\ writer' = {} /\ updates' = updates
        BY <2>3 DEF CachePpsAndUnlock, Unlocked, TypeOK, AtMostOne, Refs
      <3>3. Refs' \subseteq Refs /\ Refs \subseteq Refs' \cup {u}
        BY <2>1, <3>2 DEF Refs, Boxes, reader, first, agent
      <3> QED BY <1>1, <3>2, <3>3, OneRefLess
    <2> QED BY <1>8, <2>2, <2>3 DEF Updater
  <1>9. CASE Write \/ WriteFails
    <2>1. PICK b \in held : TRUE
      BY <1>9 DEF Write, WriteFails
    <2>2. held = {b} /\ held' = {} /\ UNCHANGED <<reader, updaters, first, chan>>
      BY <1>9 DEF Write, WriteFails, TypeOK, AtMostOne
    <2>3. CASE Buffered(b)
      <3>1. b \in Refs /\ Refs' \subseteq Refs /\ Refs \subseteq Refs' \cup {b}
        BY <2>2, <2>3 DEF Refs, Boxes, reader, updaters, first
      <3> QED BY <1>1, <3>1, OneRefLess
    <2>4. CASE ~ Buffered(b)
      <3>1. Refs' = Refs
        BY <2>2, <2>4 DEF Refs, Boxes, reader, updaters, first
      <3> QED BY <1>1, <3>1, SameRefs
    <2> QED BY <2>3, <2>4
  <1> QED BY <1>2, <1>3, <1>4, <1>5, <1>6, <1>7, <1>8, <1>9 DEF Reader

\* Every step of the path is a step of the buffer, or leaves it alone.
LEMMA BufferStep == InductiveInv /\ [Next]_vars => [LB!Next]_(LB!lbVars)
  <1> SUFFICES ASSUME InductiveInv, [Next]_vars PROVE [LB!Next]_(LB!lbVars)
    OBVIOUS
  <1>1. CASE UNCHANGED vars
    BY <1>1 DEF vars, device, reader, updaters, first, agent, LB!lbVars, InUse, Boxes
  <1>2. CASE \E kind \in {"config", "keyConfig", "idr", "sei", "delta", "other"},
                n \in 1 .. MaxLen : Receive(kind, n)
    BY <1>2, ReceiveIsGet DEF LB!Next
  <1>3. CASE \/ Restart \/ CloseConn \/ Reader \/ Updater
             \/ CheckCache \/ CopyCache \/ SendCached
             \/ Take \/ Write \/ WriteFails
    BY <1>3, OthersKeepOrDrop
  <1> QED BY <1>1, <1>2, <1>3 DEF Next

\* Nothing refers to the buffer before the first packet.
LEMMA BufferStart == Init => LB!Init
  BY DEF Init, LB!Init, InUse, Boxes, ToSet

\* The video path uses the buffer as LinearBuffer assumes it is used: whatever the
\* channel holds, a payload is gone before Window later ones.
THEOREM VideoImplementsBuffer == Spec => ImplementsBuffer
  BY VideoInvariant, BufferStart, BufferStep, PTL DEF Spec, ImplementsBuffer, LB!Spec

\* The theorems about LinearBuffer speak of this buffer.
LEMMA SameBuffer ==
  /\ LBP!Room <=> LB!Room
  /\ LBP!Init <=> LB!Init
  /\ LBP!InductiveInv <=> LB!InductiveInv
  /\ [LBP!Next]_(LBP!lbVars) <=> [LB!Next]_(LB!lbVars)
  <1>1. LBP!Room <=> LB!Room
    BY DEF LBP!Room, LB!Room, LBP!Sizes, LB!Sizes
  <1>2. LBP!Init <=> LB!Init
    BY DEF LBP!Init, LB!Init
  <1>3. LBP!TypeOK <=> LB!TypeOK
    BY DEF LBP!TypeOK, LB!TypeOK, LBP!Segment, LB!Segment
  <1>4. LBP!Behind <=> LB!Behind
    BY DEF LBP!Behind, LB!Behind, LBP!SameRound, LB!SameRound, LBP!RoundBefore, LB!RoundBefore
  <1>5. LBP!GetReturnsFreeMemory <=> LB!GetReturnsFreeMemory
    BY DEF LBP!GetReturnsFreeMemory, LB!GetReturnsFreeMemory, LBP!Apart, LB!Apart
  <1>6. [LBP!Next]_(LBP!lbVars) <=> [LB!Next]_(LB!lbVars)
    BY DEF LBP!Next, LB!Next, LBP!lbVars, LB!lbVars, LBP!Get, LB!Get, LBP!Drop, LB!Drop,
           LBP!Older, LB!Older, LBP!NextOffset, LB!NextOffset, LBP!Start, LB!Start
  <1> QED BY <1>1, <1>2, <1>3, <1>4, <1>5, <1>6 DEF LBP!InductiveInv, LB!InductiveInv

\* With room for the window the buffer never hands out what a box still reads.
THEOREM BoxesStayIntact == ASSUME LB!Room PROVE Spec => []BoxesAreIntact
  <1>1. LB!Init => LB!InductiveInv
    BY LBP!Start0, SameBuffer
  <1>2. LB!InductiveInv /\ [LB!Next]_(LB!lbVars) => LB!InductiveInv'
    <2>1. LBP!InductiveInv /\ [LBP!Next]_(LBP!lbVars) => LBP!InductiveInv'
      BY LBP!Step, SameBuffer
    <2>2. LBP!InductiveInv <=> LB!InductiveInv
      BY SameBuffer
    <2>3. [LBP!Next]_(LBP!lbVars) <=> [LB!Next]_(LB!lbVars)
      BY SameBuffer
    <2> QED BY <2>1, <2>2, <2>3, PTL
  <1>3. LB!InductiveInv => BoxesAreIntact
    BY DEF LB!InductiveInv, BoxesAreIntact
  <1> QED BY VideoInvariant, BufferStart, BufferStep, <1>1, <1>2, <1>3, PTL DEF Spec
=============================================================================
