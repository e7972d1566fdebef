-------------------------- MODULE LinearBufferProofs --------------------------
(***************************************************************************)
(* A buffer with room for Window + 2 payloads never hands out memory that  *)
(* is still in use, whatever Size, MaxLen and Window are.                  *)
(***************************************************************************)
EXTENDS LinearBuffer, TLAPS

\* An age times MaxLen is a natural number, and grows by MaxLen with each Get.
LEMMA Aging ==
  ASSUME Sizes, NEW a \in 0 .. Window
  PROVE  /\ a * MaxLen \in Nat
         /\ (a + 1) * MaxLen = a * MaxLen + MaxLen
  BY DEF Sizes

\* A payload that survives this Get is at most Window - 1 payloads old.
LEMMA AgeBound ==
  ASSUME Sizes, NEW a \in Nat, a < Window
  PROVE  a * MaxLen + MaxLen <= Window * MaxLen
  <1> DEFINE k == Window - 1 - a
  <1>1. k \in Nat /\ Window = a + 1 + k  BY DEF Sizes
  <1>2. Window * MaxLen = a * MaxLen + MaxLen + k * MaxLen
    BY <1>1 DEF Sizes
  <1>3. k * MaxLen \in Nat  BY <1>1 DEF Sizes
  <1>4. a * MaxLen \in Nat  BY DEF Sizes
  <1>5. Window * MaxLen \in Nat  BY DEF Sizes
  <1> HIDE DEF k
  <1> QED BY <1>2, <1>3, <1>4, <1>5 DEF Sizes

\* Room, without the product of a sum.
LEMMA RoomSum ==
  ASSUME Room
  PROVE  /\ Window * MaxLen \in Nat
         /\ Size >= Window * MaxLen + MaxLen + MaxLen
  BY DEF Room, Sizes

\* The bytes Get hands out are inside the buffer.
LEMMA StartInside ==
  ASSUME Sizes, TypeOK, NEW n \in 1 .. MaxLen
  PROVE  /\ Start(n) \in 0 .. Size
         /\ Start(n) + n <= Size
         /\ NextOffset(n) \in 0 .. Size
         /\ NextOffset(n) = Start(n) + n
  BY DEF TypeOK, Start, NextOffset, Sizes

\* The new segment lies clear of every segment that is still in use.
LEMMA NewIsApart ==
  ASSUME Room, TypeOK, NEW n \in 1 .. MaxLen,
         NEW s \in Segment, s.age < Window,
         SameRound(s, offset) \/ RoundBefore(s, offset)
  PROVE  s.start + s.len <= Start(n) \/ Start(n) + n <= s.start
  <1> DEFINE x == s.age * MaxLen
             w == Window * MaxLen
  <1>1. /\ s.start \in Nat /\ s.len \in Nat /\ s.age \in Nat
        /\ s.len >= 1 /\ s.len <= MaxLen
    BY DEF Segment, Sizes, Room
  <1>2. x \in Nat /\ x + MaxLen <= w
    BY <1>1, AgeBound DEF Sizes, Room
  <1>3. w \in Nat /\ Size >= w + MaxLen + MaxLen  BY RoomSum
  <1>4. offset \in Nat /\ offset <= Size /\ MaxLen \in Nat /\ Size \in Nat
    BY DEF TypeOK, Sizes, Room
  <1>5. CASE SameRound(s, offset)
    <2>1. s.start + s.len <= offset /\ offset <= s.start + s.len + x
      BY <1>5 DEF SameRound
    <2> HIDE DEF x, w
    <2> QED BY <1>1, <1>2, <1>3, <1>4, <2>1 DEF Start
  <1>6. CASE RoundBefore(s, offset)
    <2>1. /\ offset <= s.start /\ s.start + s.len <= Size
          /\ Size + offset + 1 <= s.start + s.len + x + MaxLen
      BY <1>6 DEF RoundBefore
    <2> HIDE DEF x, w
    <2> QED BY <1>1, <1>2, <1>3, <1>4, <2>1 DEF Start
  <1> QED BY <1>5, <1>6

\* A segment that is one Get older is still behind the offset.
LEMMA OlderIsBehind ==
  ASSUME Room, TypeOK, NEW n \in 1 .. MaxLen,
         NEW s \in Segment, s.age < Window,
         SameRound(s, offset) \/ RoundBefore(s, offset),
         offset' = NextOffset(n)
  PROVE  LET t == [s EXCEPT !.age = @ + 1]
         IN  /\ t \in Segment
             /\ SameRound(t, offset') \/ RoundBefore(t, offset')
  <1> DEFINE t == [s EXCEPT !.age = @ + 1]
             x == s.age * MaxLen
             y == t.age * MaxLen
             w == Window * MaxLen
  <1>1. /\ s.start \in Nat /\ s.len \in Nat /\ s.age \in Nat
        /\ s.len >= 1 /\ s.len <= MaxLen
    BY DEF Segment, Sizes, Room
  <1>2. t.start = s.start /\ t.len = s.len /\ t.age = s.age + 1 /\ t \in Segment
    BY <1>1 DEF Segment, Sizes, Room
  <1>3. x \in Nat /\ x + MaxLen <= w /\ y = x + MaxLen
    BY <1>1, <1>2, AgeBound, Aging DEF Sizes, Room
  <1>4. w \in Nat /\ Size >= w + MaxLen + MaxLen  BY RoomSum
  <1>5. offset \in Nat /\ offset <= Size /\ MaxLen \in Nat /\ Size \in Nat
    BY DEF TypeOK, Sizes, Room
  <1>6. offset' = (IF offset + n > Size THEN 0 ELSE offset) + n
    BY DEF NextOffset, Start
  <1>7. CASE SameRound(s, offset)
    <2>1. s.start + s.len <= offset /\ offset <= s.start + s.len + x
      BY <1>7 DEF SameRound
    <2>2. CASE offset + n > Size
      <3>1. offset' = n  BY <1>5, <1>6, <2>2
      <3>2. /\ offset' <= t.start /\ t.start + t.len <= Size
            /\ Size + offset' + 1 <= t.start + t.len + y + MaxLen
        <4> HIDE DEF x, y, w, t
        <4> QED BY <1>1, <1>2, <1>3, <1>4, <1>5, <2>1, <2>2, <3>1
      <3> QED BY <1>2, <3>2 DEF RoundBefore
    <2>3. CASE offset + n <= Size
      <3>1. offset' = offset + n  BY <1>5, <1>6, <2>3
      <3>2. t.start + t.len <= offset' /\ offset' <= t.start + t.len + y
        <4> HIDE DEF x, y, w, t
        <4> QED BY <1>1, <1>2, <1>3, <1>5, <2>1, <3>1
      <3> QED BY <1>2, <3>2 DEF SameRound
    <2> QED BY <1>5, <2>2, <2>3
  <1>8. CASE RoundBefore(s, offset)
    <2>1. /\ offset <= s.start /\ s.start + s.len <= Size
          /\ Size + offset + 1 <= s.start + s.len + x + MaxLen
      BY <1>8 DEF RoundBefore
    <2>2. /\ offset' <= t.start /\ t.start + t.len <= Size
          /\ Size + offset' + 1 <= t.start + t.len + y + MaxLen
      <3> HIDE DEF x, y, w, t
      <3> QED BY <1>1, <1>2, <1>3, <1>4, <1>5, <1>6, <2>1
    <2> QED BY <1>2, <2>2 DEF RoundBefore
  <1> QED BY <1>2, <1>7, <1>8

\* A Get keeps the segments in use behind the offset and apart.
LEMMA GetStep ==
  ASSUME Room, InductiveInv, NEW n \in 1 .. MaxLen, Get(n)
  PROVE  InductiveInv'
  <1> DEFINE new == [start |-> Start(n), len |-> n, age |-> 0]
             older(s) == [s EXCEPT !.age = @ + 1]
  <1> USE DEF InductiveInv
  <1>1. live' = {older(s) : s \in live} \cup {new} /\ offset' = NextOffset(n)
    BY DEF Get, Older
  <1>2. \A s \in live : s \in Segment /\ s.age < Window
    BY DEF Get, TypeOK
  <1>3. new \in Segment
    BY StartInside DEF Segment, Sizes, Room
  <1>4. \A s \in live : /\ older(s) \in Segment
                        /\ SameRound(older(s), offset') \/ RoundBefore(older(s), offset')
    BY <1>1, <1>2, OlderIsBehind DEF Behind
  <1>5. TypeOK'
    BY <1>1, <1>3, <1>4, StartInside DEF TypeOK, Room
  <1>6. SameRound(new, offset')
    BY <1>1, StartInside DEF SameRound, Sizes, Room
  <1>7. Behind'
    BY <1>1, <1>4, <1>6 DEF Behind
  <1>8. \A s \in live : Apart(older(s), new) /\ Apart(new, older(s))
    <2> TAKE s \in live
    <2>1. s.start + s.len <= Start(n) \/ Start(n) + n <= s.start
      BY <1>2, NewIsApart DEF Behind
    <2>2. older(s).start = s.start /\ older(s).len = s.len
      BY <1>2 DEF Segment
    <2> QED BY <2>1, <2>2 DEF Apart
  <1>9. \A s, t \in live : older(s) # older(t) => Apart(older(s), older(t))
    <2> TAKE s, t \in live
    <2> HAVE older(s) # older(t)
    <2>1. Apart(s, t)  BY DEF GetReturnsFreeMemory
    <2>2. /\ older(s).start = s.start /\ older(s).len = s.len
          /\ older(t).start = t.start /\ older(t).len = t.len
      BY <1>2 DEF Segment
    <2> QED BY <2>1, <2>2 DEF Apart
  <1>10. GetReturnsFreeMemory'
    <2> SUFFICES ASSUME NEW s \in live', NEW t \in live', s # t
                 PROVE  Apart(s, t)
      BY DEF GetReturnsFreeMemory, Apart
    <2> HIDE DEF new, older
    <2> QED BY <1>1, <1>8, <1>9
  <1> QED BY <1>5, <1>7, <1>10

\* The invariant is inductive when there is room.
LEMMA Step == ASSUME Room PROVE InductiveInv /\ [Next]_lbVars => InductiveInv'
  <1> SUFFICES ASSUME InductiveInv, [Next]_lbVars PROVE InductiveInv'
    OBVIOUS
  <1>1. CASE \E n \in 1 .. MaxLen : Get(n)
    BY <1>1, GetStep
  <1>2. CASE \E s \in live : Drop(s)
    BY <1>2 DEF Drop, InductiveInv, TypeOK, Behind, SameRound, RoundBefore,
                GetReturnsFreeMemory, Apart
  <1>3. CASE UNCHANGED lbVars
    BY <1>3 DEF lbVars, InductiveInv, TypeOK, Behind, SameRound, RoundBefore,
                GetReturnsFreeMemory, Apart
  <1> QED BY <1>1, <1>2, <1>3 DEF Next

\* A buffer nobody has read into satisfies the invariant.
LEMMA Start0 == ASSUME Room PROVE Init => InductiveInv
  BY DEF Init, InductiveInv, TypeOK, Behind, GetReturnsFreeMemory, Sizes, Room

\* With room for the window, the payload that comes and a wasted tail, Get keeps
\* every payload in use behind the offset.
THEOREM StaysBehind == ASSUME Room PROVE Spec => []InductiveInv
  <1>1. InductiveInv /\ [Next]_lbVars => InductiveInv'  BY Step
  <1> QED BY <1>1, Start0, PTL DEF Spec

\* With that room Get never hands out memory that is still in use.
THEOREM MemoryIsFree == ASSUME Room PROVE Spec => []GetReturnsFreeMemory
  <1>1. InductiveInv => GetReturnsFreeMemory  BY DEF InductiveInv
  <1> QED BY StaysBehind, <1>1, PTL

\* With that room the offset and the segments stay inside the buffer.
THEOREM BufferTyped == ASSUME Room PROVE Spec => []TypeOK
  <1>1. InductiveInv => TypeOK  BY DEF InductiveInv
  <1> QED BY StaysBehind, <1>1, PTL
=============================================================================
