----------------------------- MODULE ScrcpyVideo ------------------------------
(***************************************************************************)
(* The video path of a scrcpy driver.  convertVideoFrame reads packets of  *)
(* the device into the LinearBuffer and puts boxes on VideoChan; the agent *)
(* (ServeVideoStream) takes them off.  Parameter sets (SPS, PPS) go to a   *)
(* cache, each packet in a goroutine of its own (`go updateCache`), and    *)
(* come back in front of every key frame.  Agent.Start asks for a first    *)
(* key frame (RequestIDR(true)) in a goroutine of its own.                 *)
(*                                                                         *)
(* Data: a parameter set or key frame is the generation of the encoder     *)
(* that made it (it restarts when the device turns), 0 when there is none. *)
(* A Go slice is written in words, so an unlocked write of LastIDR is two  *)
(* steps: length (idrLen), then pointer (idr).                             *)
(***************************************************************************)
EXTENDS Naturals, Sequences, SequencesExt

CONSTANTS ChanCap,   \* capacity of VideoChan (10 in the code)
          MaxGen,    \* bound: encoder sessions of the device
          MaxQuiet,  \* packets in a row that give no box (environment)
          Size,      \* bytes in videoBuffer
          MaxLen     \* longest packet (environment)

ASSUME VideoConstants ==
  /\ ChanCap \in Nat \ {0} /\ MaxGen \in Nat \ {0}
  /\ MaxQuiet \in Nat /\ Size \in Nat /\ MaxLen \in Nat

VARIABLES
  gen, phase, quiet, \* device: encoder session, what it sends next, quiet packets
  conn,              \* videoConn: "open", "closed"
  offset,            \* videoBuffer.offset
  rpc, pkt, box,     \* convertVideoFrame: where it is, its packet, its box
  cache,             \* LastSPS, LastPPS, LastIDR
  updates, writer,   \* pending updateCache goroutines, the one in cacheMutex
  starter, sbox,     \* RequestIDR(true): where it is, its box
  chan,              \* VideoChan
  consumer, held     \* ServeVideoStream: "serving" or "gone", its box

device   == <<gen, phase, quiet>>
reader   == <<rpc, pkt, box>>
updaters == <<updates, writer>>
first    == <<starter, sbox>>
agent    == <<consumer, held>>
vars == <<device, conn, offset, reader, cache, updaters, first, chan, agent>>

\* A box outlives this many later packets at most: for each box behind it and
\* the one being sent, that box's packet and the quiet ones before it.
Window == (ChanCap + 1) * (MaxQuiet + 1)

Buffered(b) == "seg" \in DOMAIN b

\* References into the buffer, by whoever holds them.
Boxes  == ToSet(chan) \cup held \cup box \cup sbox
InUse  == {x.seg : x \in pkt \cup updates \cup writer \cup
                         {b \in Boxes : Buffered(b)}}

LB == INSTANCE LinearBuffer WITH live <- InUse

Generations == 1 .. MaxGen
Payload == [start : Nat, len : 1 .. MaxLen, age : 0 .. Window]
Packet  == [kind : {"config", "keyConfig", "idr", "sei", "delta", "other"},
            gen : Generations, seg : Payload]
\* box, held, sbox, pkt and writer hold a set with one element, or none.
Raw     == [kind : {"delta", "keyConfig"}, gen : Generations, seg : Payload]
Merged  == [kind : {"frame", "cached"}, sps : 0 .. MaxGen, pps : 0 .. MaxGen,
            idr : 0 .. MaxGen, idrLen : 0 .. MaxGen]

Init ==
  /\ gen = 1 /\ phase = "config" /\ quiet = 0
  /\ conn = "open" /\ offset = 0
  /\ rpc = "read" /\ pkt = {} /\ box = {}
  /\ cache = [sps |-> 0, pps |-> 0, idr |-> 0, idrLen |-> 0]
  /\ updates = {} /\ writer = {}
  /\ starter = "check" /\ sbox = {}
  /\ chan = <<>> /\ consumer = "serving" /\ held = {}

-----------------------------------------------------------------------------
(* The device and the connection.                                          *)

\* The encoder is restarted and begins with its parameter sets.
Restart ==
  /\ phase # "config" /\ gen < MaxGen
  /\ gen' = gen + 1 /\ phase' = "config"
  /\ UNCHANGED <<quiet, conn, offset, reader, cache, updaters, first, chan, agent>>

\* What the encoder may send, and what it sends after that.
Sends(kind) ==
  \/ phase = "config" /\ kind = "config"    /\ phase' = "key"
  \/ phase = "config" /\ kind = "keyConfig" /\ phase' = "delta"
  \/ phase # "config" /\ kind \in {"idr", "sei", "other"} /\ phase' = "delta"
  \/ phase = "delta"  /\ kind = "delta"     /\ phase' = "delta"

\* Driver.Stop closes the connection, or the device is lost.
CloseConn ==
  /\ conn = "open"
  /\ conn' = "closed"
  /\ UNCHANGED <<device, offset, reader, cache, updaters, first, chan, agent>>

-----------------------------------------------------------------------------
(* convertVideoFrame.                                                      *)

Quiet == {"config", "other"}

\* (Broken on purpose: the offset does not move past the payload.)
AdvanceToStart(n) == LB!Start(n)

Advance(n) == LB!NextOffset(n)

\* One more Get since x's own.
Aged(x) == IF Buffered(x) THEN [x EXCEPT !.seg.age = @ + 1] ELSE x
AllAged(S) == {Aged(x) : x \in S}

\* Read a header and the payload.  An updateCache goroutine that still reads its
\* packet is assumed to have run before Window later packets (environment).
Receive(kind, n) ==
  /\ rpc = "read" /\ conn = "open"
  /\ Sends(kind)
  /\ kind \in Quiet => quiet < MaxQuiet
  /\ \A u \in updates \cup writer : u.seg.age < Window
  /\ quiet' = IF kind \in Quiet THEN quiet + 1 ELSE 0
  /\ pkt' = {[kind |-> kind, gen |-> gen,
              seg |-> [start |-> LB!Start(n), len |-> n, age |-> 0]]}
  /\ offset' = Advance(n)
  /\ rpc' = "packet"
  /\ chan' = [i \in DOMAIN chan |-> Aged(chan[i])]
  /\ held' = AllAged(held) /\ updates' = AllAged(updates) /\ writer' = AllAged(writer)
  /\ UNCHANGED <<gen, conn, box, cache, first, consumer>>

\* The connection is gone: the goroutine returns.
ReadFails ==
  /\ rpc = "read" /\ conn = "closed"
  /\ rpc' = "ended"
  /\ UNCHANGED <<device, conn, offset, pkt, box, cache, updaters, first, chan, agent>>

\* Parameter sets alone: `go updateCache` and no box.
SpawnUpdate(p) ==
  /\ p.kind = "config"
  /\ updates' = updates \cup {p} /\ pkt' = {} /\ rpc' = "read"
  /\ UNCHANGED <<writer, box>>

\* Parameter sets in front of a key frame: `go updateCache`, and sent as they are.
SpawnAndBox(p) ==
  /\ p.kind = "keyConfig"
  /\ updates' = updates \cup {p} /\ pkt' = {} /\ rpc' = "send"
  /\ box' = {p}
  /\ UNCHANGED writer

\* An ordinary frame is sent as it is.
BoxDelta(p) ==
  /\ p.kind = "delta"
  /\ pkt' = {} /\ rpc' = "send"
  /\ box' = {p}
  /\ UNCHANGED updaters

\* (Broken on purpose: the cache is copied without cacheMutex.)
NoReadLock == TRUE

\* cacheMutex.RLock() gets in.
CanReadLock == writer = {}

\* sendWithCachedConfigFrame: a copy, so the payload is free again.
Wrap(p) ==
  /\ p.kind \in {"idr", "sei"}
  /\ CanReadLock
  /\ box' = {[kind |-> "frame", sps |-> cache.sps, pps |-> cache.pps,
              idr |-> p.gen, idrLen |-> p.gen]}
  /\ rpc' = "send"
  /\ pkt' = IF p.kind = "idr" THEN pkt ELSE {}
  /\ UNCHANGED updaters

\* A key frame that starts with any other unit is skipped.
Skip(p) ==
  /\ p.kind = "other"
  /\ pkt' = {} /\ rpc' = "read"
  /\ UNCHANGED <<updaters, box>>

Packeted ==
  /\ rpc = "packet"
  /\ \E p \in pkt : SpawnUpdate(p) \/ SpawnAndBox(p) \/ BoxDelta(p) \/ Wrap(p) \/ Skip(p)
  /\ UNCHANGED <<device, conn, offset, cache, first, chan, agent>>

\* (Broken on purpose: the channel never pushes back.)
AlwaysRoom == TRUE

\* A send on VideoChan goes through.
HasRoom == Len(chan) < ChanCap

\* After an IDR the reader still holds the payload: LastIDR comes next.
Send ==
  /\ rpc = "send" /\ HasRoom
  /\ chan' = chan \o SetToSeq(box)
  /\ box' = {}
  /\ rpc' = IF pkt = {} THEN "read" ELSE "idrLen"
  /\ UNCHANGED <<device, conn, offset, pkt, cache, updaters, first, agent>>

\* da.LastIDR = createCopy(...), without the mutex.
WriteIdrLen ==
  /\ rpc = "idrLen"
  /\ \E p \in pkt : cache' = [cache EXCEPT !.idrLen = p.gen]
  /\ rpc' = "idr"
  /\ UNCHANGED <<device, conn, offset, pkt, box, updaters, first, chan, agent>>

WriteIdr ==
  /\ rpc = "idr"
  /\ \E p \in pkt : cache' = [cache EXCEPT !.idr = p.gen]
  /\ rpc' = "read" /\ pkt' = {}
  /\ UNCHANGED <<device, conn, offset, box, updaters, first, chan, agent>>

Reader == ReadFails \/ Packeted \/ Send \/ WriteIdrLen \/ WriteIdr

-----------------------------------------------------------------------------
(* updateCache, one goroutine per packet, in whatever order they get in.   *)

LockAndCacheSps(u) ==
  /\ writer = {}
  /\ writer' = {u} /\ updates' = updates \ {u}
  /\ cache' = [cache EXCEPT !.sps = u.gen]
  /\ UNCHANGED <<device, conn, offset, reader, first, chan, agent>>

\* (Broken on purpose: the goroutine returns and keeps the mutex.)
KeepLock == writer

\* The deferred Unlock.
Unlocked == {}

CachePpsAndUnlock ==
  /\ \E u \in writer :
       cache' = IF u.kind = "config" THEN [cache EXCEPT !.pps = u.gen]
                ELSE [cache EXCEPT !.pps = u.gen, !.idr = u.gen, !.idrLen = u.gen]
  /\ writer' = Unlocked
  /\ UNCHANGED <<device, conn, offset, reader, updates, first, chan, agent>>

Updater == (\E u \in updates : LockAndCacheSps(u)) \/ CachePpsAndUnlock

-----------------------------------------------------------------------------
(* RequestIDR(true).                                                       *)

\* Nothing cached at all: only the device is asked.  (Read without the mutex.)
CheckCache ==
  /\ starter = "check"
  /\ starter' = IF cache.sps = 0 /\ cache.pps = 0 /\ cache.idrLen = 0
                THEN "done" ELSE "copy"
  /\ UNCHANGED <<device, conn, offset, reader, cache, updaters, sbox, chan, agent>>

\* sendCachedKeyFrame copies the cache,
CopyCache ==
  /\ starter = "copy" /\ CanReadLock
  /\ sbox' = {[kind |-> "cached", sps |-> cache.sps, pps |-> cache.pps,
               idr |-> cache.idr, idrLen |-> cache.idrLen]}
  /\ starter' = "send"
  /\ UNCHANGED <<device, conn, offset, reader, cache, updaters, chan, agent>>

\* and sends the copy.
SendCached ==
  /\ starter = "send" /\ HasRoom
  /\ chan' = chan \o SetToSeq(sbox)
  /\ sbox' = {} /\ starter' = "done"
  /\ UNCHANGED <<device, conn, offset, reader, cache, updaters, agent>>

-----------------------------------------------------------------------------
(* ServeVideoStream.                                                       *)

Take ==
  /\ consumer = "serving" /\ held = {} /\ chan # <<>>
  /\ held' = {Head(chan)} /\ chan' = Tail(chan)
  /\ UNCHANGED <<device, conn, offset, reader, cache, updaters, first, consumer>>

\* The packets are written to the track.
Write ==
  /\ held # {} /\ held' = {}
  /\ UNCHANGED <<device, conn, offset, reader, cache, updaters, first, chan, consumer>>

\* WriteRTP fails: the loop returns, and nobody takes boxes any more.
WriteFails ==
  /\ held # {} /\ held' = {}
  /\ consumer' = "gone"
  /\ UNCHANGED <<device, conn, offset, reader, cache, updaters, first, chan>>

-----------------------------------------------------------------------------

Next ==
  \/ Restart \/ CloseConn
  \/ \E kind \in {"config", "keyConfig", "idr", "sei", "delta", "other"},
        n \in 1 .. MaxLen : Receive(kind, n)
  \/ Reader \/ Updater
  \/ CheckCache \/ CopyCache \/ SendCached
  \/ Take \/ Write \/ WriteFails

Spec == Init /\ [][Next]_vars

\* Goroutines get on with it; senders blocked on a channel are served in turn.
Fairness ==
  /\ WF_vars(ReadFails \/ Packeted \/ WriteIdrLen \/ WriteIdr) /\ SF_vars(Send)
  /\ WF_vars(Updater)
  /\ WF_vars(CheckCache) /\ SF_vars(CopyCache) /\ SF_vars(SendCached)
  /\ WF_vars(Take) /\ WF_vars(Write)

FairSpec == Spec /\ Fairness

-----------------------------------------------------------------------------
(* Properties.                                                             *)

\* The parameter sets in front of a key frame belong together: the cache is never
\* copied between updateCache's write of the SPS and that of the PPS.
ParametersBelongTogether == \A b \in Boxes : b \in Merged => b.sps = b.pps

\* Nothing the agent, the channel or the cache still reads is handed out again by
\* the buffer the reader reads the next packet into.
BoxesAreIntact == LB!GetReturnsFreeMemory

\* The video path uses the buffer as LinearBuffer assumes: a box is gone before
\* Window packets follow, because the bounded channel holds the reader back.
ImplementsBuffer == LB!Spec

AtMostOne(S) == \A x, y \in S : x = y

\* Each variable has the values the code gives it.
TypeOK ==
  /\ gen \in Generations /\ phase \in {"config", "key", "delta"}
  /\ quiet \in 0 .. MaxQuiet /\ conn \in {"open", "closed"} /\ offset \in Nat
  /\ rpc \in {"read", "packet", "send", "idrLen", "idr", "ended"}
  /\ pkt \subseteq Packet /\ AtMostOne(pkt)
  /\ box \subseteq Raw \cup Merged /\ AtMostOne(box)
  /\ cache \in [sps : 0 .. MaxGen, pps : 0 .. MaxGen, idr : 0 .. MaxGen, idrLen : 0 .. MaxGen]
  /\ updates \subseteq Packet /\ writer \subseteq Packet /\ AtMostOne(writer)
  /\ starter \in {"check", "copy", "send", "done"}
  /\ sbox \subseteq Merged /\ AtMostOne(sbox)
  /\ chan \in Seq(Raw \cup Merged) /\ Len(chan) <= ChanCap
  /\ consumer \in {"serving", "gone"}
  /\ held \subseteq Raw \cup Merged /\ AtMostOne(held)

\* The goroutine holds a packet, or a box, just where it works on one.
ReaderHolds ==
  /\ rpc \in {"read", "ended"} => pkt = {} /\ box = {}
  /\ rpc = "packet" => box = {} /\ \E p \in pkt : p.kind \notin Quiet => quiet = 0
  /\ rpc = "send" => box # {} /\ quiet = 0
  /\ rpc \in {"idrLen", "idr"} => pkt # {} /\ box = {} /\ quiet = 0
  /\ starter = "send" <=> sbox # {}

\* Packets read from one box to the next, and since the last box was sent.
PerBox == MaxQuiet + 1
Since  == IF rpc = "send" \/ (rpc = "packet" /\ \E p \in pkt : p.kind \notin Quiet)
          THEN PerBox ELSE quiet

\* A payload is no older than the boxes sent after it allow.
YoungOnChan(boxes, since) ==
  \A i \in DOMAIN boxes :
    Buffered(boxes[i]) => boxes[i].seg.age <= (Len(boxes) - i) * PerBox + since
YoungHeld(boxes, behind, since) ==
  \A b \in boxes : Buffered(b) => b.seg.age <= behind * PerBox + since
Fresh ==
  /\ YoungOnChan(chan, Since)
  /\ YoungHeld(held, Len(chan), Since)
  /\ \A b \in box : Buffered(b) => b.seg.age = 0
  /\ \A p \in pkt : rpc = "packet" => p.seg.age = 0

\* Outside updateCache's two writes the cached parameter sets are of one packet.
CacheTogether ==
  /\ writer = {} => cache.sps = cache.pps
  /\ \A u \in writer : cache.sps = u.gen

\* What every step preserves.
InductiveInv ==
  TypeOK /\ ReaderHolds /\ Fresh /\ CacheTogether /\ ParametersBelongTogether

\* Once the driver is stopped its goroutines end, unless the agent's loop returned
\* before: then a full channel can hold them for ever.
StopReleases ==
  conn = "closed" ~> \/ rpc = "ended" /\ updates \cup writer = {} /\ starter = "done"
                     \/ consumer = "gone"
=============================================================================
