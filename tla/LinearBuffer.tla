----------------------------- MODULE LinearBuffer -----------------------------
(***************************************************************************)
(* sdriver/comm/linearBuffer.go: the arena the drivers read payloads into. *)
(* Get hands out the bytes after the last ones and starts again at 0 when  *)
(* the rest is too short; nothing is ever given back.  What keeps memory   *)
(* in use from being handed out again is not in the code of Get: it is     *)
(* that a payload is dropped before too many others follow.  Window says   *)
(* how many Gets a payload survives at most, MaxLen how long one can be.   *)
(***************************************************************************)
EXTENDS Naturals

CONSTANTS Size,     \* bytes in the buffer
          MaxLen,   \* longest payload
          Window    \* a payload is dropped before the Window-th Get after its own

VARIABLES offset,   \* LinearBuffer.offset
          live      \* the segments somebody still reads, with the Gets since

lbVars == <<offset, live>>

Segment == [start : 0 .. Size, len : 1 .. MaxLen, age : 0 .. Window]

\* The offset stays inside the buffer and so do the segments handed out.
TypeOK ==
  /\ offset \in 0 .. Size
  /\ live \subseteq Segment

Init == offset = 0 /\ live = {}

\* (Broken on purpose: the buffer is never started again.)
NoRestart(n) == offset

\* Where the bytes handed out begin.
Start(n) == IF offset + n > Size THEN 0 ELSE offset

\* (Broken on purpose: starting again does not count the bytes handed out.)
RestartAtZero(n) == IF offset + n > Size THEN 0 ELSE offset + n

NextOffset(n) == Start(n) + n

\* Every segment has seen one more Get.
Older(segments) == {[s EXCEPT !.age = @ + 1] : s \in segments}

\* Read a payload of n bytes: the window has room for it.
Get(n) ==
  /\ \A s \in live : s.age < Window
  /\ live' = Older(live) \cup {[start |-> Start(n), len |-> n, age |-> 0]}
  /\ offset' = NextOffset(n)

\* The last reader of a segment is done with it.
Drop(s) ==
  /\ live' = live \ {s}
  /\ offset' = offset

Next ==
  \/ \E n \in 1 .. MaxLen : Get(n)
  \/ \E s \in live : Drop(s)

Spec == Init /\ [][Next]_lbVars

-----------------------------------------------------------------------------
(* Properties                                                              *)

Apart(s, t) == s.start + s.len <= t.start \/ t.start + t.len <= s.start

\* "Get returns a piece of free memory": no two payloads in use share a byte.
GetReturnsFreeMemory == \A s, t \in live : s # t => Apart(s, t)

\* What the constants are: every payload fits into the buffer.
Sizes == /\ Size \in Nat /\ MaxLen \in Nat /\ MaxLen <= Size
         /\ Window \in Nat \ {0}

\* The room that is enough: a window of payloads, the next one, and the tail
\* wasted where the buffer starts again.
Room == Sizes /\ Size >= (Window + 2) * MaxLen

\* Where a segment lies behind offset o.  In the same round the bytes between
\* are those of the Gets since; in the round before, the tail was skipped too.
SameRound(s, o) == /\ s.start + s.len <= o
                   /\ o <= s.start + s.len + s.age * MaxLen
RoundBefore(s, o) == /\ o <= s.start
                     /\ s.start + s.len <= Size
                     /\ Size + o + 1 <= s.start + s.len + s.age * MaxLen + MaxLen
Behind == \A s \in live : SameRound(s, offset) \/ RoundBefore(s, offset)

\* What the Gets preserve: every payload in use lies behind the offset, and the
\* proof that a new one overlaps none of them needs to know how far.
InductiveInv == TypeOK /\ Behind /\ GetReturnsFreeMemory
=============================================================================
