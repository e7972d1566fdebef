-------------------------- MODULE LinuxPointerProofs --------------------------
(***************************************************************************)
(* What is proved of the pointer of a Linux session, for any buttons, any  *)
(* motion and any number of packets on their way: the inductive invariant  *)
(* InductiveInv, and the three properties it implies.  What a sequence of  *)
(* packets carries is a recursive function of the sequence, so the first   *)
(* sections prove the induction and the facts about it that the steps use. *)
(***************************************************************************)
EXTENDS LinuxPointer, FiniteSetTheorems, WellFoundedInduction, SequenceTheorems, TLAPS

-----------------------------------------------------------------------------
(* Induction                                                               *)

\* A set of natural numbers has a least element: the sets of the numbers below
\* its elements are finite, and strict inclusion of finite sets is well-founded.
LEMMA LeastOf ==
  ASSUME NEW B, B \subseteq Nat, B # {}
  PROVE  \E m \in B : \A n \in B : m <= n
  <1> DEFINE Below(n) == {k \in Nat : k < n}
             T == {Below(n) : n \in B}
  <1>1. ASSUME NEW n \in Nat PROVE Below(n) \in FiniteSubsetsOf(Nat)
    <2>1. IsFiniteSet(Below(n))
      BY FS_BoundedSetOfNaturals
    <2> QED BY <2>1 DEF FiniteSubsetsOf
  <1>2. T \subseteq FiniteSubsetsOf(Nat) /\ T # {}
    BY <1>1
  <1>3. PICK t \in T : \A u \in T : <<u, t>> \notin StrictSubsetOrdering(Nat)
    <2> HIDE DEF T
    <2> QED BY <1>2, WFMin, FS_StrictSubsetOrderingWellFounded
  <1>4. PICK m \in B : t = Below(m)
    BY <1>3
  <1>5. ASSUME NEW n \in B, n < m PROVE FALSE
    <2>1. Below(n) \subseteq Nat /\ Below(m) \subseteq Nat /\ Below(n) \subseteq Below(m)
      BY <1>5
    <2>2. n \in Below(m) /\ n \notin Below(n)
      BY <1>5
    <2>3. Below(n) \in T
      OBVIOUS
    <2>4. <<Below(n), Below(m)>> \in StrictSubsetOrdering(Nat)
      <3> HIDE DEF Below, T
      <3> QED BY <2>1, <2>2 DEF StrictSubsetOrdering
    <2> QED BY <1>3, <1>4, <2>3, <2>4
  <1> QED BY <1>5

\* Induction, for a set of numbers.
LEMMA Induction ==
  ASSUME NEW B, 0 \in B, \A n \in Nat : n \in B => n + 1 \in B
  PROVE  Nat \subseteq B
  <1> SUFFICES ASSUME Nat \ B # {} PROVE FALSE
    OBVIOUS
  <1>1. PICK m \in Nat \ B : \A n \in Nat \ B : m <= n
    BY LeastOf
  <1> QED BY <1>1, m - 1 \in Nat

-----------------------------------------------------------------------------
(* Sequences of packets                                                    *)

\* A sequence that has lost one element, and one that has gained one.
LEMMA Removed ==
  ASSUME NEW S, NEW s \in Seq(S), NEW i \in 1 .. Len(s)
  PROVE  /\ RemoveAt(s, i) \in Seq(S)
         /\ Len(RemoveAt(s, i)) = Len(s) - 1
         /\ \A n \in 1 .. Len(s) - 1 : RemoveAt(s, i)[n] = IF n < i THEN s[n] ELSE s[n + 1]
  <1> DEFINE a == SubSeq(s, 1, i - 1)
             b == SubSeq(s, i + 1, Len(s))
             t == a \o b
  <1>1. Len(s) \in Nat /\ i \in Nat /\ 1 <= i /\ i <= Len(s)
    OBVIOUS
  <1>2. a \in Seq(S) /\ Len(a) = i - 1 /\ \A n \in 1 .. i - 1 : a[n] = s[n]
    BY <1>1, SubSeqProperties
  <1>3. b \in Seq(S) /\ Len(b) = Len(s) - i /\ \A n \in 1 .. Len(s) - i : b[n] = s[n + i]
    BY <1>1, SubSeqProperties
  <1> HIDE DEF a, b
  <1>4. /\ t \in Seq(S) /\ Len(t) = Len(a) + Len(b)
        /\ \A n \in 1 .. Len(a) + Len(b) : t[n] = IF n <= Len(a) THEN a[n] ELSE b[n - Len(a)]
    BY <1>2, <1>3, ConcatProperties
  <1>5. RemoveAt(s, i) = t
    BY DEF RemoveAt, a, b
  <1> HIDE DEF t
  <1>6. ASSUME NEW n \in 1 .. Len(s) - 1 PROVE t[n] = IF n < i THEN s[n] ELSE s[n + 1]
    <2>1. t[n] = IF n <= i - 1 THEN a[n] ELSE b[n - (i - 1)]
      BY <1>1, <1>2, <1>3, <1>4
    <2>2. n \in Nat /\ 1 <= n /\ n <= Len(s) - 1
      BY <1>1
    <2>3. CASE n < i
      BY <1>1, <1>2, <2>1, <2>2, <2>3
    <2>4. CASE n >= i
      <3>1. n - (i - 1) \in 1 .. Len(s) - i /\ (n - (i - 1)) + i = n + 1 /\ ~(n <= i - 1)
        BY <1>1, <2>2, <2>4
      <3> QED BY <1>1, <1>3, <2>1, <2>4, <3>1
    <2> QED BY <1>1, <2>2, <2>3, <2>4
  <1> QED BY <1>1, <1>2, <1>3, <1>4, <1>5, <1>6

\* A sequence with one packet more.
LEMMA Appended ==
  ASSUME NEW S, NEW s \in Seq(S), NEW e \in S
  PROVE  /\ Append(s, e) \in Seq(S)
         /\ Len(s) \in Nat /\ Len(Append(s, e)) = Len(s) + 1
         /\ Append(s, e)[Len(s) + 1] = e
         /\ \A i \in 1 .. Len(s) : Append(s, e)[i] = s[i]
  OBVIOUS

-----------------------------------------------------------------------------
(* What packets carry                                                      *)

\* What a packet carries is a whole number of units.
LEMMA DeltaTyped ==
  ASSUME NEW p \in Packet, NEW a \in Axes
  PROVE  Delta(p, a) \in Int
  BY DEF Delta, Packet

\* The first n sums of a sequence of packets.
Sums(w, a, n) ==
  {f \in [0 .. n -> Int] : /\ f[0] = 0
                           /\ \A k \in 1 .. n : f[k] = f[k - 1] + Delta(w[k], a)}

\* What the packets carry is defined, by induction on the number of packets.
LEMMA SumsExist ==
  ASSUME NEW w \in Seq(Packet), NEW a \in Axes
  PROVE  Sums(w, a, Len(w)) # {}
  <1> DEFINE B == {n \in Nat : n <= Len(w) => Sums(w, a, n) # {}}
  <1>1. 0 \in B
    <2>1. [k \in 0 .. 0 |-> 0] \in Sums(w, a, 0)
      BY DEF Sums
    <2> QED BY <2>1
  <1>2. ASSUME NEW n \in Nat, n \in B PROVE n + 1 \in B
    <2> SUFFICES ASSUME n + 1 <= Len(w) PROVE Sums(w, a, n + 1) # {}
      OBVIOUS
    <2>1. PICK f \in Sums(w, a, n) : TRUE
      BY <1>2
    <2>2. n + 1 \in 1 .. Len(w) /\ Delta(w[n + 1], a) \in Int
      BY DeltaTyped
    <2> DEFINE g == [k \in 0 .. n + 1 |-> IF k = n + 1 THEN f[n] + Delta(w[n + 1], a) ELSE f[k]]
    <2>3. f \in [0 .. n -> Int] /\ f[0] = 0 /\ \A k \in 1 .. n : f[k] = f[k - 1] + Delta(w[k], a)
      BY <2>1 DEF Sums
    <2>4. g \in [0 .. n + 1 -> Int] /\ g[0] = 0
      BY <2>2, <2>3
    <2>5. ASSUME NEW k \in 1 .. n + 1 PROVE g[k] = g[k - 1] + Delta(w[k], a)
      <3>1. CASE k = n + 1
        BY <2>3, <3>1
      <3>2. CASE k \in 1 .. n
        <4>1. k - 1 \in 0 .. n /\ k - 1 # n + 1 /\ k # n + 1
          BY <3>2
        <4> QED BY <2>3, <3>2, <4>1
      <3> QED BY <3>1, <3>2
    <2> HIDE DEF g
    <2> QED BY <2>4, <2>5 DEF Sums
  <1>3. Len(w) \in B
    <2> HIDE DEF B
    <2> QED BY <1>1, <1>2, Induction
  <1> QED BY <1>3

\* What packets carry satisfies its recursive definition, and is a number.
LEMMA CarriedSums ==
  ASSUME NEW w \in Seq(Packet), NEW a \in Axes
  PROVE  /\ Carried(w, a)[0] = 0
         /\ \A n \in 1 .. Len(w) : Carried(w, a)[n] = Carried(w, a)[n - 1] + Delta(w[n], a)
         /\ \A n \in 0 .. Len(w) : Carried(w, a)[n] \in Int
  <1> DEFINE Solves(s) == s = [n \in 0 .. Len(w) |-> IF n = 0 THEN 0 ELSE s[n - 1] + Delta(w[n], a)]
             c == CHOOSE s : Solves(s)
  <1>1. Len(w) \in Nat
    OBVIOUS
  <1>2. PICK f \in Sums(w, a, Len(w)) : TRUE
    BY SumsExist
  <1>3. Solves(f)
    BY <1>1, <1>2 DEF Sums
  <1>4. Carried(w, a) = c
    BY DEF Carried
  <1>5. Solves(c)
    <2> HIDE DEF Solves
    <2> QED BY <1>3
  <1>6. c[0] = 0 /\ \A n \in 1 .. Len(w) : c[n] = c[n - 1] + Delta(w[n], a)
    <2> HIDE DEF c
    <2> QED BY <1>1, <1>5
  <1> DEFINE B == {n \in Nat : n <= Len(w) => c[n] \in Int}
  <1> HIDE DEF c
  <1>7. 0 \in B
    BY <1>6
  <1>8. ASSUME NEW n \in Nat, n \in B PROVE n + 1 \in B
    <2> SUFFICES ASSUME n + 1 <= Len(w) PROVE c[n + 1] \in Int
      OBVIOUS
    <2>1. n + 1 \in 1 .. Len(w) /\ Delta(w[n + 1], a) \in Int
      BY DeltaTyped
    <2> QED BY <1>6, <1>8, <2>1
  <1>9. Nat \subseteq B
    <2> HIDE DEF B
    <2> QED BY <1>7, <1>8, Induction
  <1> QED BY <1>1, <1>4, <1>6, <1>9

\* What the first packets carry does not depend on those after them.
LEMMA CarriedPrefix ==
  ASSUME NEW w \in Seq(Packet), NEW v \in Seq(Packet), NEW a \in Axes, NEW m \in Nat,
         m <= Len(w), m <= Len(v), \A k \in 1 .. m : v[k] = w[k]
  PROVE  \A n \in 0 .. m : Carried(v, a)[n] = Carried(w, a)[n]
  <1> DEFINE c == Carried(w, a)
             d == Carried(v, a)
             B == {n \in Nat : n <= m => d[n] = c[n]}
  <1>1. /\ c[0] = 0 /\ \A n \in 1 .. m : c[n] = c[n - 1] + Delta(w[n], a)
        /\ d[0] = 0 /\ \A n \in 1 .. m : d[n] = d[n - 1] + Delta(w[n], a)
    <2>1. \A n \in 1 .. m : n \in 1 .. Len(w) /\ n \in 1 .. Len(v)
      OBVIOUS
    <2>2. /\ c[0] = 0 /\ \A n \in 1 .. Len(w) : c[n] = c[n - 1] + Delta(w[n], a)
          /\ d[0] = 0 /\ \A n \in 1 .. Len(v) : d[n] = d[n - 1] + Delta(v[n], a)
      BY CarriedSums
    <2> HIDE DEF c, d
    <2> QED BY <2>1, <2>2
  <1> HIDE DEF c, d
  <1>2. 0 \in B
    BY <1>1
  <1>3. ASSUME NEW n \in Nat, n \in B PROVE n + 1 \in B
    BY <1>1, <1>3
  <1>4. Nat \subseteq B
    <2> HIDE DEF B
    <2> QED BY <1>2, <1>3, Induction
  <1> QED BY <1>4 DEF c, d

\* A packet sent adds what it carries.
LEMMA CarriedAppended ==
  ASSUME NEW w \in Seq(Packet), NEW p \in Packet, NEW a \in Axes
  PROVE  /\ \A n \in 0 .. Len(w) : Carried(Append(w, p), a)[n] = Carried(w, a)[n]
         /\ Carried(Append(w, p), a)[Len(w) + 1] = Carried(w, a)[Len(w)] + Delta(p, a)
  <1> DEFINE v == Append(w, p)
  <1>1. /\ v \in Seq(Packet) /\ Len(w) \in Nat /\ Len(v) = Len(w) + 1
        /\ v[Len(w) + 1] = p /\ \A k \in 1 .. Len(w) : v[k] = w[k]
    BY Appended
  <1> HIDE DEF v
  <1>2. \A n \in 0 .. Len(w) : Carried(v, a)[n] = Carried(w, a)[n]
    BY <1>1, CarriedPrefix
  <1>3. Carried(v, a)[Len(w) + 1] = Carried(v, a)[Len(w)] + Delta(p, a)
    <2>1. Len(w) + 1 \in 1 .. Len(v) /\ (Len(w) + 1) - 1 = Len(w)
      BY <1>1
    <2> QED BY <1>1, <2>1, CarriedSums
  <1> QED BY <1>1, <1>2, <1>3 DEF v

\* A packet that arrives takes away what it carries, wherever it was.
LEMMA CarriedRemoved ==
  ASSUME NEW w \in Seq(Packet), NEW i \in 1 .. Len(w), NEW a \in Axes
  PROVE  \A n \in i .. Len(w) : Carried(RemoveAt(w, i), a)[n - 1] = Carried(w, a)[n] - Delta(w[i], a)
  <1> DEFINE v == RemoveAt(w, i)
             c == Carried(w, a)
             d == Carried(v, a)
             B == {n \in Nat : i + n <= Len(w) => d[i + n - 1] = c[i + n] - Delta(w[i], a)}
  <1>1. /\ v \in Seq(Packet) /\ Len(v) = Len(w) - 1 /\ Len(w) \in Nat /\ Len(v) \in Nat
        /\ \A n \in 1 .. Len(w) - 1 : v[n] = IF n < i THEN w[n] ELSE w[n + 1]
    BY Removed
  <1>2. Delta(w[i], a) \in Int
    BY DeltaTyped
  <1> HIDE DEF v
  <1>3. /\ \A n \in 1 .. Len(w) : c[n] = c[n - 1] + Delta(w[n], a)
        /\ \A n \in 1 .. Len(v) : d[n] = d[n - 1] + Delta(v[n], a)
        /\ \A n \in 0 .. Len(w) : c[n] \in Int
        /\ \A n \in 0 .. Len(v) : d[n] \in Int
    BY <1>1, CarriedSums
  <1>4. \A n \in 0 .. i - 1 : d[n] = c[n]
    <2>1. i - 1 \in Nat /\ i - 1 <= Len(w) /\ i - 1 <= Len(v) /\ \A k \in 1 .. i - 1 : v[k] = w[k]
      BY <1>1
    <2> QED BY <1>1, <2>1, CarriedPrefix
  <1> HIDE DEF c, d
  <1>5. 0 \in B
    <2>1. i - 1 \in 0 .. i - 1 /\ i - 1 \in 0 .. Len(w) /\ i \in 0 .. Len(w)
      BY <1>1
    <2>2. d[i - 1] = c[i - 1] /\ c[i] = c[i - 1] + Delta(w[i], a) /\ c[i - 1] \in Int /\ c[i] \in Int
      BY <1>1, <1>3, <1>4, <2>1
    <2>3. i + 0 - 1 = i - 1 /\ i + 0 = i
      OBVIOUS
    <2>4. d[i + 0 - 1] = c[i + 0] - Delta(w[i], a)
      BY <1>2, <2>2, <2>3
    <2> QED BY <2>4
  <1>6. ASSUME NEW n \in Nat, n \in B PROVE n + 1 \in B
    <2> SUFFICES ASSUME i + (n + 1) <= Len(w) PROVE d[i + (n + 1) - 1] = c[i + (n + 1)] - Delta(w[i], a)
      OBVIOUS
    <2> DEFINE m == i + n
    <2>1. m \in Nat /\ m >= i /\ m \in 1 .. Len(v) /\ m + 1 \in 1 .. Len(w) /\ m - 1 \in 0 .. Len(v)
          /\ m \in 0 .. Len(w) /\ m \in 1 .. Len(w) - 1
      BY <1>1
    <2>2. i + (n + 1) - 1 = m /\ i + (n + 1) = m + 1 /\ i + n - 1 = m - 1
      OBVIOUS
    <2>3. d[m - 1] = c[m] - Delta(w[i], a)
      BY <1>6, <2>2
    <2> HIDE DEF m
    <2>4. d[m] = d[m - 1] + Delta(w[m + 1], a) /\ c[m + 1] = c[m] + Delta(w[m + 1], a)
      <3>1. v[m] = w[m + 1] /\ (m + 1) - 1 = m
        BY <1>1, <2>1
      <3> QED BY <1>3, <2>1, <3>1
    <2>5. c[m] \in Int /\ Delta(w[m + 1], a) \in Int
      BY <1>3, <2>1, DeltaTyped
    <2>6. d[m] = c[m + 1] - Delta(w[i], a)
      BY <1>2, <2>3, <2>4, <2>5
    <2> QED BY <2>2, <2>6
  <1>7. Nat \subseteq B
    <2> HIDE DEF B
    <2> QED BY <1>5, <1>6, Induction
  <1>8. ASSUME NEW n \in i .. Len(w) PROVE d[n - 1] = c[n] - Delta(w[i], a)
    <2>1. n - i \in Nat /\ i + (n - i) = n /\ i + (n - i) - 1 = n - 1 /\ n <= Len(w)
      BY <1>1
    <2>2. n - i \in B
      BY <1>7, <2>1
    <2> QED BY <2>1, <2>2
  <1> QED BY <1>8 DEF c, d, v

-----------------------------------------------------------------------------
(* What a send of the page does to the invariant.  The invariant is stated *)
(* for packets w that may still be about to be sent and for the motion pd  *)
(* that is left in the page; InductiveInv has it for wire and pending.     *)

\* All that was moved is in the page, in w, or applied.
Account(w, pd) ==
  \A a \in Axes : a = "move" \/ backend = "wayland" =>
    moved[a] = pd[a] + Carried(w, a)[Len(w)] + applied[a]

\* The packets of the mouse are at their places, and clicks carry no motion.
InPlace(w) ==
  ~overtaken => \A i \in DOMAIN w :
    w[i].type = "mouse" => w[i].at = applied["move"] + Carried(w, "move")[i]
ClicksStill(w) ==
  \A i \in DOMAIN w : w[i].type = "mouse" /\ w[i].action # "move" => w[i].delta = Still

Good(w, pd) == w \in Seq(Packet) /\ Account(w, pd) /\ InPlace(w) /\ ClicksStill(w)

\* The invariant without what it says of the buttons.
GoodNow == Good(wire, pending) /\ (pending # Still => raf)

\* This is the invariant as LinuxPointer states it.
LEMMA GoodIsInv ==
  ASSUME TypeOK
  PROVE  GoodNow <=> MotionConserved /\ ClicksAreStill /\ PlacesAdd
  BY DEF GoodNow, Good, Account, InPlace, ClicksStill, TypeOK, MotionConserved, ClicksAreStill,
         PlacesAdd, InFlight

\* The packets that are made are packets.
LEMMA PacketsTyped ==
  ASSUME TypeOK, NEW action \in {"move", "down", "up"}, NEW delta \in [Axes -> Int],
         NEW btns \in SUBSET Buttons
  PROVE  Mouse(action, delta, btns) \in Packet /\ Touch(action) \in Packet
  <1>1. moved["move"] \in Int
    BY DEF TypeOK, Axes
  <1> QED BY <1>1 DEF Mouse, Touch, Packet

\* Standing still is a motion.
LEMMA StillTyped == Still \in [Axes -> Int] /\ \A a \in Axes : Still[a] = 0
  BY DEF Still

\* A packet of the mouse that takes along the motion that was left, or a part
\* of none.
LEMMA MouseKeeps ==
  ASSUME TypeOK, NEW w, NEW pd \in [Axes -> Int], Good(w, pd),
         NEW action \in {"move", "down", "up"}, NEW btns \in SUBSET Buttons,
         action # "move" => pd = Still
  PROVE  Good(Append(w, Mouse(action, pd, btns)), Still)
  <1> DEFINE p == Mouse(action, pd, btns)
             v == Append(w, p)
  <1>1. p \in Packet /\ w \in Seq(Packet)
    BY PacketsTyped DEF Good
  <1>2. p.type = "mouse" /\ p.action = action /\ p.delta = pd /\ p.at = moved["move"]
    BY DEF Mouse
  <1>3. /\ v \in Seq(Packet) /\ Len(w) \in Nat /\ Len(v) = Len(w) + 1
        /\ v[Len(w) + 1] = p /\ \A k \in 1 .. Len(w) : v[k] = w[k]
    BY <1>1, Appended
  <1>4. ASSUME NEW a \in Axes
        PROVE  /\ \A n \in 0 .. Len(w) : Carried(v, a)[n] = Carried(w, a)[n]
               /\ Carried(v, a)[Len(v)] = Carried(w, a)[Len(w)] + pd[a]
               /\ Carried(w, a)[Len(w)] \in Int /\ pd[a] \in Int
    <2>1. Delta(p, a) = pd[a]
      BY <1>2 DEF Delta
    <2>2. Len(w) \in 0 .. Len(w)
      BY <1>3
    <2> HIDE DEF p
    <2> QED BY <1>1, <1>3, <2>1, <2>2, CarriedAppended, CarriedSums
  <1> HIDE DEF v, p
  <1>5. Account(v, Still)
    <2> SUFFICES ASSUME NEW a \in Axes, a = "move" \/ backend = "wayland"
                 PROVE  moved[a] = Still[a] + Carried(v, a)[Len(v)] + applied[a]
      BY DEF Account
    <2>1. moved[a] = pd[a] + Carried(w, a)[Len(w)] + applied[a]
      BY DEF Good, Account
    <2>2. applied[a] \in Int /\ Still[a] = 0
      BY StillTyped DEF TypeOK
    <2> QED BY <1>4, <2>1, <2>2
  <1>6. InPlace(v)
    <2> SUFFICES ASSUME ~overtaken, NEW i \in DOMAIN v, v[i].type = "mouse"
                 PROVE  v[i].at = applied["move"] + Carried(v, "move")[i]
      BY DEF InPlace
    <2>1. "move" \in Axes /\ i \in 1 .. Len(w) + 1
      BY <1>3 DEF Axes
    <2>2. CASE i = Len(w) + 1
      <3>1. moved["move"] = 0 + Carried(v, "move")[Len(v)] + applied["move"]
        BY <1>5, <2>1, StillTyped DEF Account
      <3>2. applied["move"] \in Int
        BY <2>1 DEF TypeOK
      <3>3. Carried(v, "move")[Len(v)] \in Int
        <4>1. /\ Carried(v, "move")[Len(v)] = Carried(w, "move")[Len(w)] + pd["move"]
              /\ Carried(w, "move")[Len(w)] \in Int /\ pd["move"] \in Int
          BY <1>4, <2>1
        <4> QED BY <4>1
      <3> QED BY <1>2, <1>3, <2>2, <3>1, <3>2, <3>3
    <2>3. CASE i \in 1 .. Len(w)
      <3>1. w[i].at = applied["move"] + Carried(w, "move")[i]
        BY <1>3, <2>3 DEF Good, InPlace
      <3>2. Carried(v, "move")[i] = Carried(w, "move")[i]
        BY <1>3, <1>4, <2>1, <2>3
      <3> QED BY <1>3, <2>3, <3>1, <3>2
    <2> QED BY <1>3, <2>1, <2>2, <2>3
  <1>7. ClicksStill(v)
    <2> SUFFICES ASSUME NEW i \in DOMAIN v, v[i].type = "mouse", v[i].action # "move"
                 PROVE  v[i].delta = Still
      BY DEF ClicksStill
    <2>1. CASE i = Len(w) + 1
      BY <1>2, <1>3, <2>1
    <2>2. CASE i \in 1 .. Len(w)
      BY <1>3, <2>2 DEF Good, ClicksStill
    <2> QED BY <1>3, <2>1, <2>2
  <1> QED BY <1>3, <1>5, <1>6, <1>7 DEF Good, v, p

\* A packet of the finger carries nothing.
LEMMA TouchKeeps ==
  ASSUME TypeOK, NEW w, NEW pd \in [Axes -> Int], Good(w, pd), NEW action \in {"move", "down", "up"}
  PROVE  Good(Append(w, Touch(action)), pd)
  <1> DEFINE p == Touch(action)
             v == Append(w, p)
  <1>1. p \in Packet /\ w \in Seq(Packet)
    BY PacketsTyped, StillTyped DEF Good
  <1>2. p.type = "touch"
    BY DEF Touch
  <1>3. /\ v \in Seq(Packet) /\ Len(w) \in Nat /\ Len(v) = Len(w) + 1
        /\ v[Len(w) + 1] = p /\ \A k \in 1 .. Len(w) : v[k] = w[k]
    BY <1>1, Appended
  <1>4. ASSUME NEW a \in Axes
        PROVE  /\ \A n \in 0 .. Len(w) : Carried(v, a)[n] = Carried(w, a)[n]
               /\ Carried(v, a)[Len(v)] = Carried(w, a)[Len(w)]
    <2>1. Delta(p, a) = 0
      BY <1>2 DEF Delta
    <2>2. Len(w) \in 0 .. Len(w)
      BY <1>3
    <2> HIDE DEF p
    <2>3. Carried(w, a)[Len(w)] \in Int /\ Carried(v, a)[Len(w) + 1] = Carried(w, a)[Len(w)] + 0
      BY <1>1, <2>1, <2>2, CarriedAppended, CarriedSums
    <2> QED BY <1>1, <1>3, <2>3, CarriedAppended
  <1> HIDE DEF v, p
  <1>5. Account(v, pd)
    BY <1>4 DEF Good, Account
  <1>6. InPlace(v)
    <2> SUFFICES ASSUME ~overtaken, NEW i \in DOMAIN v, v[i].type = "mouse"
                 PROVE  v[i].at = applied["move"] + Carried(v, "move")[i]
      BY DEF InPlace
    <2>1. "move" \in Axes /\ i \in 1 .. Len(w) /\ i \in 0 .. Len(w)
      BY <1>2, <1>3 DEF Axes
    <2>2. w[i].at = applied["move"] + Carried(w, "move")[i]
      BY <1>3, <2>1 DEF Good, InPlace
    <2> QED BY <1>3, <1>4, <2>1, <2>2
  <1>7. ClicksStill(v)
    BY <1>2, <1>3 DEF Good, ClicksStill
  <1> QED BY <1>3, <1>5, <1>6, <1>7 DEF Good, v, p

\* What a flush sends.
LEMMA FlushKeeps ==
  ASSUME TypeOK, Good(wire, pending)
  PROVE  Good(wire \o Flushed, Still)
  <1>1. CASE pending = Still
    <2>1. wire \o Flushed = wire
      BY <1>1 DEF Flushed, TypeOK
    <2> QED BY <1>1, <2>1
  <1>2. CASE pending # Still
    <2>1. Mouse("move", pending, mask) \in Packet
      BY PacketsTyped DEF TypeOK
    <2>2. wire \o Flushed = Append(wire, Mouse("move", pending, mask))
      BY <1>2, <2>1 DEF Flushed, TypeOK
    <2>3. pending \in [Axes -> Int] /\ mask \in SUBSET Buttons
      BY DEF TypeOK
    <2> QED BY <2>2, <2>3, MouseKeeps
  <1> QED BY <1>1, <1>2

-----------------------------------------------------------------------------
(* What becomes of a button                                                *)

\* What a sequence settles is the user's state of the button alone.
LEMMA SettlesSame ==
  ASSUME NEW kind, NEW w, NEW b, NEW from, NEW old, NEW to, Settles(kind, w, b, from, old),
         b \in old <=> b \in to
  PROVE  Settles(kind, w, b, from, to)
  BY DEF Settles

\* A packet that names the button settles it.
LEMMA SettlesNamed ==
  ASSUME NEW kind, NEW w \in Seq(Packet), NEW p \in Packet, NEW b, NEW from, NEW to,
         Names(kind, p, b), b \in to <=> p.action = "down"
  PROVE  Settles(kind, Append(w, p), b, from, to)
  <1> DEFINE v == Append(w, p)
             naming == {i \in DOMAIN v : Names(kind, v[i], b)}
  <1>1. /\ v \in Seq(Packet) /\ Len(w) \in Nat /\ Len(v) = Len(w) + 1 /\ v[Len(w) + 1] = p
        /\ DOMAIN v = 1 .. Len(v)
    BY Appended
  <1>2. Len(w) + 1 \in naming
    <2> HIDE DEF v
    <2> QED BY <1>1
  <1>3. ASSUME NEW i \in naming, \A j \in naming : j <= i PROVE i = Len(w) + 1
    <2> HIDE DEF v
    <2>1. i \in 1 .. Len(w) + 1
      BY <1>1
    <2>2. Len(w) + 1 <= i
      BY <1>2, <1>3
    <2> QED BY <1>1, <2>1, <2>2
  <1> QED BY <1>1, <1>2, <1>3 DEF Settles

\* A packet that does not name it leaves it to the others.
LEMMA SettlesUnnamed ==
  ASSUME NEW kind, NEW w \in Seq(Packet), NEW p \in Packet, NEW b, NEW from, NEW old, NEW to,
         ~Names(kind, p, b), Settles(kind, w, b, from, old), b \in old <=> b \in to
  PROVE  Settles(kind, Append(w, p), b, from, to)
  <1> DEFINE v == Append(w, p)
  <1>1. /\ v \in Seq(Packet) /\ Len(w) \in Nat /\ Len(v) = Len(w) + 1
        /\ v[Len(w) + 1] = p /\ \A k \in 1 .. Len(w) : v[k] = w[k]
        /\ DOMAIN v = 1 .. Len(w) + 1 /\ DOMAIN w = 1 .. Len(w)
    BY Appended
  <1> HIDE DEF v
  <1>2. {i \in DOMAIN v : Names(kind, v[i], b)} = {i \in DOMAIN w : Names(kind, w[i], b)}
    BY <1>1
  <1>3. \A i \in {i \in DOMAIN w : Names(kind, w[i], b)} : v[i] = w[i]
    BY <1>1
  <1> QED BY <1>2, <1>3 DEF Settles, v

\* The first packet arrives: it does what it says.
LEMMA SettlesAhead ==
  ASSUME NEW kind, NEW w \in Seq(Packet), NEW b, NEW from, NEW new, NEW to,
         1 \in 1 .. Len(w), Settles(kind, w, b, from, to),
         Names(kind, w[1], b) => (b \in new <=> w[1].action = "down"),
         ~Names(kind, w[1], b) => (b \in new <=> b \in from)
  PROVE  Settles(kind, RemoveAt(w, 1), b, new, to)
  <1> DEFINE v == RemoveAt(w, 1)
             before == {i \in DOMAIN w : Names(kind, w[i], b)}
             after == {i \in DOMAIN v : Names(kind, v[i], b)}
  <1>1. /\ v \in Seq(Packet) /\ Len(v) = Len(w) - 1 /\ Len(w) \in Nat
        /\ \A n \in 1 .. Len(w) - 1 : v[n] = IF n < 1 THEN w[n] ELSE w[n + 1]
    <2>1. PICK i \in 1 .. Len(w) : i = 1
      OBVIOUS
    <2>2. /\ RemoveAt(w, i) \in Seq(Packet) /\ Len(RemoveAt(w, i)) = Len(w) - 1
          /\ \A n \in 1 .. Len(w) - 1 : RemoveAt(w, i)[n] = IF n < i THEN w[n] ELSE w[n + 1]
      BY Removed
    <2> QED BY <2>1, <2>2
  <1> HIDE DEF v
  <1>2. DOMAIN v = 1 .. Len(w) - 1 /\ DOMAIN w = 1 .. Len(w) /\ \A n \in 1 .. Len(w) - 1 : v[n] = w[n + 1]
    BY <1>1
  <1>3. /\ before \subseteq Nat /\ after \subseteq Nat
        /\ \A n \in after : n + 1 \in before /\ v[n] = w[n + 1]
        /\ \A n \in before : n = 1 \/ n - 1 \in after
        /\ 1 \in before <=> Names(kind, w[1], b)
    BY <1>1, <1>2
  <1>4. /\ before = {} => (b \in from <=> b \in to)
        /\ \A i \in before : (\A j \in before : j <= i) => (b \in to <=> w[i].action = "down")
    BY DEF Settles
  <1> HIDE DEF before, after
  <1>5. after = {} => (b \in new <=> b \in to)
    <2> SUFFICES ASSUME after = {} PROVE b \in new <=> b \in to
      OBVIOUS
    <2>1. CASE Names(kind, w[1], b)
      <3>1. 1 \in before /\ \A j \in before : j <= 1
        BY <1>3, <2>1
      <3> QED BY <1>4, <2>1, <3>1
    <2>2. CASE ~Names(kind, w[1], b)
      <3>1. before = {}
        BY <1>3, <2>2
      <3> QED BY <1>4, <2>2, <3>1
    <2> QED BY <2>1, <2>2
  <1>6. ASSUME NEW i \in after, \A j \in after : j <= i PROVE b \in to <=> v[i].action = "down"
    <2>1. i + 1 \in before /\ \A j \in before : j <= i + 1
      BY <1>3, <1>6
    <2> QED BY <1>3, <1>4, <2>1
  <1> QED BY <1>5, <1>6 DEF Settles, v, after

-----------------------------------------------------------------------------
(* The sends of the page, and types                                        *)

\* What a flush sends, and how it is sent: at most one packet, in front of the click.
LEMMA Sends ==
  ASSUME TypeOK
  PROVE  /\ Flushed = <<>> \/ Flushed = <<Mouse("move", pending, mask)>>
         /\ Mouse("move", pending, mask) \in Packet
         /\ wire \o Flushed \in Seq(Packet)
         /\ wire \o <<>> = wire
         /\ \A p \in Packet : wire \o <<p>> = Append(wire, p)
         /\ \A p \in Packet : wire \o (Flushed \o <<p>>) = Append(wire \o Flushed, p)
  <1>1. wire \in Seq(Packet) /\ pending \in [Axes -> Int] /\ mask \in SUBSET Buttons
    BY DEF TypeOK
  <1>2. Mouse("move", pending, mask) \in Packet
    BY <1>1, PacketsTyped
  <1>3. Flushed = <<>> \/ Flushed = <<Mouse("move", pending, mask)>>
    BY DEF Flushed
  <1>4. Flushed \in Seq(Packet)
    <2>1. <<>> \in Seq(Packet) /\ \A p \in Packet : <<p>> \in Seq(Packet)
      OBVIOUS
    <2> QED BY <1>2, <1>3, <2>1
  <1> HIDE DEF TypeOK
  <1>5. \A p \in Packet : wire \o (Flushed \o <<p>>) = Append(wire \o Flushed, p)
    BY <1>1, <1>4
  <1> QED BY <1>1, <1>2, <1>3, <1>4, <1>5

\* The turn of the wheel is a whole number, of units or of clicks.
LEMMA TurnTyped ==
  ASSUME NEW w \in Int
  PROVE  Turn(w) \in Int
  <1>1. ASSUME NEW u \in Nat PROVE u \div WheelStep \in Int
    BY <1>1, PointerAssumption
  <1> DEFINE n == (IF w < 0 THEN -w ELSE w) \div WheelStep
  <1>2. n \in Int
    <2>1. (IF w < 0 THEN -w ELSE w) \in Nat
      OBVIOUS
    <2> QED BY <1>1, <2>1
  <1>3. Clicks(w) = IF w = 0 THEN 0 ELSE IF w < 0 THEN -(IF n = 0 THEN 1 ELSE IF n > 20 THEN 20 ELSE n)
                    ELSE IF n = 0 THEN 1 ELSE IF n > 20 THEN 20 ELSE n
    BY DEF Clicks
  <1> HIDE DEF n
  <1>4. Clicks(w) \in Int
    BY <1>2, <1>3
  <1> QED BY <1>4 DEF Turn

\* What one event of the user carries is a motion.
LEMMA MotionTyped ==
  ASSUME NEW d \in UNION {Unit(a) : a \in Axes}
  PROVE  d \in [Axes -> Int]
  <1>1. PICK a \in Axes, s \in Steps : d = [Still EXCEPT ![a] = s]
    BY DEF Unit
  <1>2. s \in Int
    BY PointerAssumption
  <1> QED BY <1>1, <1>2, StillTyped

\* Motions add up.
LEMMA PlusTyped ==
  ASSUME NEW u \in [Axes -> Int], NEW v \in [Axes -> Int]
  PROVE  Plus(u, v) \in [Axes -> Int] /\ \A a \in Axes : Plus(u, v)[a] = u[a] + v[a]
  BY DEF Plus

\* What the recorder does with a packet, stated for the kinds of packets.
LEMMA Handled ==
  ASSUME TypeOK, NEW p \in Packet, HandleMouseEvent(p) \/ HandleTouchEvent(p)
  PROVE  /\ applied' \in [Axes -> Int] /\ finger' \in BOOLEAN
         /\ \A a \in Axes : a = "move" \/ backend = "wayland" => applied'[a] = applied[a] + Delta(p, a)
         /\ buttons' \subseteq Buttons
         /\ (p.type = "mouse" /\ p.action # "move" => p.delta = Still) =>
              \A b \in Buttons :
                /\ Names(backend, p, b) => (b \in buttons' <=> p.action = "down")
                /\ ~Names(backend, p, b) => (b \in buttons' <=> b \in buttons)
  <1>0. /\ applied \in [Axes -> Int] /\ backend \in {"x11", "wayland"} /\ buttons \subseteq Buttons
        /\ finger \in BOOLEAN
    BY DEF TypeOK
  <1>a. "move" \in Axes /\ "wheel" \in Axes /\ \A a \in Axes : a = "move" \/ a = "wheel"
    BY DEF Axes
  <1>1. CASE HandleMouseEvent(p)
    <2>1. /\ p.type = "mouse" /\ p.action \in {"move", "down", "up"} /\ p.delta \in [Axes -> Int]
          /\ p.buttons \subseteq Buttons
      BY <1>1 DEF HandleMouseEvent, Packet
    <2> DEFINE d == [move |-> p.delta["move"], wheel |-> Turn(p.delta["wheel"])]
    <2>2. d \in [Axes -> Int] /\ d["move"] = p.delta["move"] /\ d["wheel"] = Turn(p.delta["wheel"])
      <3>1. p.delta["move"] \in Int /\ Turn(p.delta["wheel"]) \in Int
        BY <1>a, <2>1, TurnTyped
      <3> QED BY <3>1 DEF Axes
    <2>3. applied' = Plus(applied, d)
      BY <1>1 DEF HandleMouseEvent
    <2> HIDE DEF d
    <2>4. /\ applied' \in [Axes -> Int]
          /\ \A a \in Axes : applied'[a] = applied[a] + d[a]
      BY <1>0, <2>2, <2>3, PlusTyped
    <2>5. ASSUME NEW a \in Axes, a = "move" \/ backend = "wayland" PROVE d[a] = Delta(p, a)
      BY <1>a, <2>1, <2>2, <2>5 DEF Delta, Turn
    <2>6. IF p.action # "move" /\ p.delta["wheel"] = 0
          THEN buttons' = IF p.action = "down" THEN buttons \cup p.buttons ELSE buttons \ p.buttons
          ELSE buttons' = buttons
      BY <1>1 DEF HandleMouseEvent, Press
    <2>7. buttons' \subseteq Buttons
      BY <1>0, <2>1, <2>6
    <2>8. ASSUME p.action # "move" => p.delta = Still, NEW b \in Buttons
          PROVE  /\ Names(backend, p, b) => (b \in buttons' <=> p.action = "down")
                 /\ ~Names(backend, p, b) => (b \in buttons' <=> b \in buttons)
      <3>1. p.action # "move" => p.delta["wheel"] = 0
        BY <1>a, <2>8, StillTyped
      <3>2. Names(backend, p, b) <=> p.action # "move" /\ b \in p.buttons
        BY <2>1 DEF Names
      <3> QED BY <2>1, <2>6, <3>1, <3>2
    <2>9. finger' \in BOOLEAN
      BY <1>0, <1>1 DEF HandleMouseEvent
    <2> QED BY <2>1, <2>4, <2>5, <2>7, <2>8, <2>9
  <1>2. CASE HandleTouchEvent(p)
    <2>1. p.type = "touch" /\ p.action \in {"move", "down", "up"}
      BY <1>2 DEF HandleTouchEvent, Packet
    <2>2. applied' = applied /\ \A a \in Axes : Delta(p, a) = 0
      BY <1>2, <2>1 DEF HandleTouchEvent, Delta
    <2>3. IF backend = "x11" /\ p.action # "move"
          THEN buttons' = IF p.action = "down" THEN buttons \cup {"left"} ELSE buttons \ {"left"}
          ELSE buttons' = buttons
      BY <1>2 DEF HandleTouchEvent, Press
    <2>4. buttons' \subseteq Buttons
      BY <1>0, <2>3 DEF Buttons
    <2>5. finger' \in BOOLEAN
      BY <1>0, <1>2 DEF HandleTouchEvent
    <2>6. ASSUME NEW b \in Buttons
          PROVE  /\ Names(backend, p, b) => (b \in buttons' <=> p.action = "down")
                 /\ ~Names(backend, p, b) => (b \in buttons' <=> b \in buttons)
      <3>1. Names(backend, p, b) <=> p.action # "move" /\ backend = "x11" /\ b = "left"
        BY <2>1 DEF Names
      <3> QED BY <2>1, <2>3, <3>1
    <2>7. ASSUME NEW a \in Axes PROVE applied'[a] = applied[a] + Delta(p, a)
      BY <1>0, <2>2
    <2> QED BY <1>0, <2>2, <2>4, <2>5, <2>6, <2>7
  <1> QED BY <1>1, <1>2

\* Every packet and every account keeps its type.
LEMMA TypeStep ==
  ASSUME TypeOK, [Next]_vars
  PROVE  TypeOK'
  <1>0. Still \in [Axes -> Int] /\ "left" \in Buttons
    BY StillTyped DEF Buttons
  <1>1. ASSUME NEW b \in Buttons, MouseDown(b) PROVE TypeOK'
    <2>1. /\ held' = held \cup {b} /\ UNCHANGED <<inside, moved, events, raf, recorder>>
      BY <1>1 DEF MouseDown
    <2>2. CASE LockedDown(b)
      <3>1. Mouse("down", Still, mask') \in Packet /\ mask' \subseteq Buttons
        BY <1>0, <2>2, PacketsTyped DEF LockedDown, TypeOK
      <3>2. wire' = Append(wire \o Flushed, Mouse("down", Still, mask')) /\ overtaken' = overtaken
        BY <2>2, <3>1, Sends DEF LockedDown, Sent
      <3>3. wire' \in Seq(Packet)
        BY <3>1, <3>2, Sends, Appended
      <3> QED BY <1>0, <2>1, <2>2, <3>1, <3>2, <3>3
           DEF TypeOK, LockedDown, ResetPending, touch, recorder
    <2>3. CASE UnlockedDown(b)
      <3>1. Touch("down") \in Packet
        BY <1>0, PacketsTyped
      <3>2. wire' \in Seq(Packet) /\ overtaken' = overtaken /\ active' \in BOOLEAN
        <4>1. CASE b = "left"
          <5>1. wire' = wire \o <<Touch("down")>> /\ overtaken' = overtaken /\ active' = TRUE
            BY <2>3, <4>1 DEF UnlockedDown, Sent
          <5> QED BY <3>1, <5>1, Sends, Appended DEF TypeOK
        <4>2. CASE b # "left"
          BY <2>3, <4>2 DEF UnlockedDown, TypeOK, channel
        <4> QED BY <4>1, <4>2
      <3> QED BY <2>1, <2>3, <3>2 DEF TypeOK, UnlockedDown, recorder
    <2>4. CASE OutsideDown(b)
      BY <2>1, <2>4 DEF TypeOK, OutsideDown, touch, channel, recorder
    <2> QED BY <1>1, <2>2, <2>3, <2>4 DEF MouseDown
  <1>2. ASSUME NEW b \in Buttons, MouseUp(b) PROVE TypeOK'
    <2>1. /\ held' = held \ {b} /\ UNCHANGED <<inside, moved, events, raf, lock, recorder>>
      BY <1>2 DEF MouseUp
    <2>2. CASE LockedUp(b)
      <3>1. Mouse("up", Still, ReleasingMask(b)) \in Packet
        BY <1>0, PacketsTyped DEF ReleasingMask
      <3>2. wire' = Append(wire \o Flushed, Mouse("up", Still, ReleasingMask(b))) /\ overtaken' = overtaken
        BY <2>2, <3>1, Sends DEF LockedUp, Sent
      <3>3. wire' \in Seq(Packet)
        BY <3>1, <3>2, Sends, Appended
      <3> QED BY <1>0, <2>1, <2>2, <3>2, <3>3 DEF TypeOK, LockedUp, ResetPending, touch, recorder
    <2>3. CASE UnlockedUp(b)
      <3>1. Touch("up") \in Packet
        BY <1>0, PacketsTyped
      <3>2. wire' \in Seq(Packet) /\ overtaken' = overtaken
        BY <2>3, <3>1 DEF UnlockedUp, TypeOK, Sent
      <3> QED BY <1>0, <2>1, <2>3, <3>2 DEF TypeOK, UnlockedUp, recorder
    <2>4. CASE UnheardUp(b)
      BY <2>1, <2>4 DEF TypeOK, UnheardUp, touch, channel, recorder
    <2> QED BY <1>2, <2>2, <2>3, <2>4 DEF MouseUp
  <1>3. ASSUME NEW d \in UNION {Unit(a) : a \in Axes}, LockedMotion(d) PROVE TypeOK'
    <2>1. Plus(moved, d) \in [Axes -> Int] /\ Plus(pending, d) \in [Axes -> Int]
      BY MotionTyped, PlusTyped DEF TypeOK
    <2> QED BY <1>3, <2>1 DEF TypeOK, LockedMotion, touch, channel, recorder
  <1>4. CASE UnlockedMove
    BY <1>4 DEF TypeOK, UnlockedMove, user, mouse, channel, recorder
  <1>5. CASE Leave
    <2>1. Touch("up") \in Packet
      BY <1>0, PacketsTyped
    <2>2. /\ wire' \in Seq(Packet) /\ overtaken' = overtaken /\ active' \in BOOLEAN
          /\ missed' \subseteq Buttons
      <3>1. CASE active /\ held # {"left"}
        <4>1. /\ wire' = wire \o <<Touch("up")>> /\ overtaken' = overtaken /\ active' = FALSE
              /\ missed' = missed \cup ({"left"} \cap held)
          BY <1>5, <3>1 DEF Leave, Sent
        <4> QED BY <1>0, <2>1, <4>1, Sends, Appended DEF TypeOK
      <3>2. CASE ~(active /\ held # {"left"})
        BY <1>5, <3>2 DEF Leave, TypeOK, channel
      <3> QED BY <3>1, <3>2
    <2> QED BY <1>5, <2>2 DEF TypeOK, Leave, mouse, recorder
  <1>6. CASE Enter
    BY <1>6 DEF TypeOK, Enter, mouse, touch, channel, recorder
  <1>7. CASE Lock
    BY <1>7 DEF TypeOK, Lock, user, mouse, touch, channel, recorder
  <1>8. CASE Unlock
    BY <1>8 DEF TypeOK, Unlock, mouse, touch, channel, recorder
  <1>9. CASE Frame
    <2>1. wire' \in Seq(Packet) /\ overtaken' = overtaken
      BY <1>9, Sends DEF Frame, Sent
    <2> QED BY <1>0, <1>9, <2>1 DEF TypeOK, Frame, ResetPending, user, touch, recorder
  <1>10. CASE TouchFrame
    <2>1. Touch("move") \in Packet
      BY <1>0, PacketsTyped
    <2>2. wire' \in Seq(Packet) /\ overtaken' = overtaken
      BY <1>10, <2>1 DEF TouchFrame, TypeOK, Sent
    <2> QED BY <1>10, <2>2 DEF TypeOK, TouchFrame, user, mouse, recorder
  <1>11. CASE Deliver
    <2>1. PICK i \in 1 .. Len(wire) :
            /\ wire' = RemoveAt(wire, i) /\ overtaken' = (overtaken \/ i > 1)
            /\ HandleMouseEvent(wire[i]) \/ HandleTouchEvent(wire[i])
            /\ UNCHANGED <<user, lock, mouse, touch, backend>>
      BY <1>11 DEF Deliver
    <2>2. wire \in Seq(Packet) /\ wire[i] \in Packet
      BY DEF TypeOK
    <2>3. wire' \in Seq(Packet) /\ overtaken' \in BOOLEAN
      BY <2>1, <2>2, Removed DEF TypeOK
    <2>4. applied' \in [Axes -> Int] /\ finger' \in BOOLEAN /\ buttons' \subseteq Buttons
      BY <2>1, <2>2, Handled
    <2> QED BY <2>1, <2>3, <2>4 DEF TypeOK, user, mouse, touch
  <1>12. CASE UNCHANGED vars
    BY <1>12 DEF TypeOK, vars, user, mouse, touch, channel, recorder
  <1> QED BY <1>1, <1>2, <1>3, <1>4, <1>5, <1>6, <1>7, <1>8, <1>9, <1>10, <1>11, <1>12 DEF Next

-----------------------------------------------------------------------------
(* The steps                                                               *)

\* A step of the page that neither moves the user nor delivers.
LEMMA GoodAgain ==
  ASSUME UNCHANGED <<backend, moved, applied, overtaken>>, Good(wire', pending'),
         pending' # Still => raf'
  PROVE  GoodNow'
  BY DEF GoodNow, Good, Account, InPlace, ClicksStill

\* A step that changes nothing of this.
LEMMA GoodSame ==
  ASSUME GoodNow, UNCHANGED <<backend, moved, applied, overtaken, wire, pending, raf>>
  PROVE  GoodNow'
  BY DEF GoodNow, Good, Account, InPlace, ClicksStill

\* The arrival of any packet.
LEMMA GoodDelivered ==
  ASSUME TypeOK, GoodNow, Deliver
  PROVE  GoodNow'
  <1>1. PICK i \in 1 .. Len(wire) :
          /\ wire' = RemoveAt(wire, i) /\ overtaken' = (overtaken \/ i > 1)
          /\ HandleMouseEvent(wire[i]) \/ HandleTouchEvent(wire[i])
          /\ UNCHANGED <<user, lock, mouse, touch, backend>>
    BY DEF Deliver
  <1>2. wire \in Seq(Packet) /\ wire[i] \in Packet /\ Len(wire) \in Nat
    BY DEF TypeOK
  <1>3. /\ wire' \in Seq(Packet) /\ Len(wire') = Len(wire) - 1
        /\ \A n \in 1 .. Len(wire) - 1 : wire'[n] = IF n < i THEN wire[n] ELSE wire[n + 1]
    BY <1>1, <1>2, Removed
  <1>4. \A a \in Axes : a = "move" \/ backend = "wayland" => applied'[a] = applied[a] + Delta(wire[i], a)
    BY <1>1, <1>2, Handled
  <1>5. UNCHANGED <<moved, pending, raf, backend>>
    BY <1>1 DEF user, mouse
  <1>6. ASSUME NEW a \in Axes
        PROVE  /\ \A n \in i .. Len(wire) : Carried(wire', a)[n - 1] = Carried(wire, a)[n] - Delta(wire[i], a)
               /\ \A n \in 0 .. Len(wire) : Carried(wire, a)[n] \in Int
               /\ Delta(wire[i], a) \in Int /\ applied[a] \in Int /\ pending[a] \in Int
    BY <1>1, <1>2, CarriedRemoved, CarriedSums, DeltaTyped DEF TypeOK
  <1>7. Good(wire, pending) /\ (pending # Still => raf)
    BY DEF GoodNow
  <1>8. Account(wire, pending)'
    <2> SUFFICES ASSUME NEW a \in Axes, a = "move" \/ backend = "wayland"
                 PROVE  moved[a] = pending[a] + Carried(wire', a)[Len(wire')] + applied'[a]
      BY <1>5 DEF Account
    <2>1. moved[a] = pending[a] + Carried(wire, a)[Len(wire)] + applied[a]
      BY <1>7 DEF Good, Account
    <2>2. Len(wire) \in i .. Len(wire) /\ Len(wire) \in 0 .. Len(wire)
      BY <1>2
    <2>3. Carried(wire', a)[Len(wire')] = Carried(wire, a)[Len(wire)] - Delta(wire[i], a)
      BY <1>3, <1>6, <2>2
    <2>4. Carried(wire, a)[Len(wire)] \in Int
      BY <1>6, <2>2
    <2>5. applied'[a] = applied[a] + Delta(wire[i], a)
      BY <1>4
    <2> QED BY <1>6, <2>1, <2>3, <2>4, <2>5
  <1>9. InPlace(wire)'
    <2> SUFFICES ASSUME ~overtaken', NEW n \in DOMAIN wire', wire'[n].type = "mouse"
                 PROVE  wire'[n].at = applied'["move"] + Carried(wire', "move")[n]
      BY DEF InPlace
    <2>1. ~overtaken /\ i = 1
      <3>1. ~(overtaken \/ i > 1)
        BY <1>1, Zenon
      <3> QED BY <3>1
    <2>2. n \in 1 .. Len(wire) - 1 /\ n + 1 \in 1 .. Len(wire) /\ wire'[n] = wire[n + 1] /\ "move" \in Axes
      BY <1>2, <1>3, <2>1 DEF Axes
    <2>3. wire[n + 1].at = applied["move"] + Carried(wire, "move")[n + 1]
      BY <1>2, <1>7, <2>1, <2>2 DEF Good, InPlace
    <2>4. Carried(wire', "move")[n] = Carried(wire, "move")[n + 1] - Delta(wire[i], "move")
      <3>1. n + 1 \in i .. Len(wire) /\ (n + 1) - 1 = n
        BY <2>1, <2>2
      <3> QED BY <1>6, <2>2, <3>1
    <2>5. /\ Carried(wire, "move")[n + 1] \in Int /\ Delta(wire[i], "move") \in Int
          /\ applied["move"] \in Int /\ applied'["move"] = applied["move"] + Delta(wire[i], "move")
      BY <1>4, <1>6, <2>2
    <2> QED BY <2>2, <2>3, <2>4, <2>5
  <1>10. ClicksStill(wire)'
    BY <1>2, <1>3, <1>7 DEF Good, ClicksStill
  <1> QED BY <1>3, <1>5, <1>7, <1>8, <1>9, <1>10 DEF GoodNow, Good

\* The account, the places and the still clicks, in every step.
LEMMA GoodStep ==
  ASSUME TypeOK, GoodNow, [Next]_vars
  PROVE  GoodNow'
  <1>0. /\ Still \in [Axes -> Int] /\ "left" \in Buttons /\ pending \in [Axes -> Int]
        /\ Good(wire, pending) /\ (pending # Still => raf)
    BY StillTyped DEF Buttons, TypeOK, GoodNow
  <1>a. Good(wire \o Flushed, Still)
    BY <1>0, FlushKeeps
  <1>b. ASSUME NEW action \in {"down", "up"}, NEW btns \in SUBSET Buttons,
               wire' = wire \o (Flushed \o <<Mouse(action, Still, btns)>>), pending' = Still,
               UNCHANGED <<backend, moved, applied, overtaken>>
        PROVE  GoodNow'
    <2>1. Mouse(action, Still, btns) \in Packet
      BY <1>0, PacketsTyped
    <2>2. wire' = Append(wire \o Flushed, Mouse(action, Still, btns))
      BY <1>b, <2>1, Sends
    <2>3. Good(wire', Still)
      BY <1>0, <1>a, <2>2, MouseKeeps
    <2> QED BY <1>b, <2>3, GoodAgain
  <1>c. ASSUME NEW action \in {"move", "down", "up"}, Sent(<<Touch(action)>>),
               UNCHANGED <<backend, moved, applied, pending, raf>>
        PROVE  GoodNow'
    <2>1. Touch(action) \in Packet
      BY <1>0, PacketsTyped
    <2>2. wire' = Append(wire, Touch(action)) /\ overtaken' = overtaken
      BY <1>c, <2>1, Sends DEF Sent
    <2>3. Good(wire', pending)
      BY <1>0, <2>2, TouchKeeps
    <2> QED BY <1>0, <1>c, <2>2, <2>3, GoodAgain
  <1>1. ASSUME NEW b \in Buttons, MouseDown(b) PROVE GoodNow'
    <2>1. UNCHANGED <<backend, moved, applied, raf>>
      BY <1>1 DEF MouseDown, recorder
    <2>2. CASE LockedDown(b)
      <3>1. mask' \in SUBSET Buttons
        BY <2>2 DEF LockedDown, TypeOK
      <3>2. /\ wire' = wire \o (Flushed \o <<Mouse("down", Still, mask')>>) /\ pending' = Still
            /\ overtaken' = overtaken
        BY <2>2 DEF LockedDown, Sent, ResetPending
      <3> QED BY <1>b, <2>1, <3>1, <3>2
    <2>3. CASE UnlockedDown(b)
      <3>1. pending' = pending
        BY <2>3 DEF UnlockedDown
      <3>2. CASE b = "left"
        <4>1. Sent(<<Touch("down")>>)
          BY <2>3, <3>2 DEF UnlockedDown
        <4> QED BY <1>c, <2>1, <3>1, <4>1
      <3>3. CASE b # "left"
        <4>1. UNCHANGED <<wire, overtaken>>
          BY <2>3, <3>3 DEF UnlockedDown, channel
        <4> QED BY <2>1, <3>1, <4>1, GoodSame
      <3> QED BY <3>2, <3>3
    <2>4. CASE OutsideDown(b)
      <3>1. UNCHANGED <<wire, overtaken, pending>>
        BY <2>4 DEF OutsideDown, channel
      <3> QED BY <2>1, <3>1, GoodSame
    <2> QED BY <1>1, <2>2, <2>3, <2>4 DEF MouseDown
  <1>2. ASSUME NEW b \in Buttons, MouseUp(b) PROVE GoodNow'
    <2>1. UNCHANGED <<backend, moved, applied, raf>>
      BY <1>2 DEF MouseUp, recorder
    <2>2. CASE LockedUp(b)
      <3>1. ReleasingMask(b) \in SUBSET Buttons
        BY DEF ReleasingMask
      <3>2. /\ wire' = wire \o (Flushed \o <<Mouse("up", Still, ReleasingMask(b))>>) /\ pending' = Still
            /\ overtaken' = overtaken
        BY <2>2 DEF LockedUp, Sent, ResetPending
      <3> QED BY <1>b, <2>1, <3>1, <3>2
    <2>3. CASE UnlockedUp(b)
      <3>1. Sent(<<Touch("up")>>) /\ pending' = pending
        BY <2>3 DEF UnlockedUp
      <3> QED BY <1>c, <2>1, <3>1
    <2>4. CASE UnheardUp(b)
      <3>1. UNCHANGED <<wire, overtaken, pending>>
        BY <2>4 DEF UnheardUp, channel
      <3> QED BY <2>1, <3>1, GoodSame
    <2> QED BY <1>2, <2>2, <2>3, <2>4 DEF MouseUp
  <1>3. ASSUME NEW d \in UNION {Unit(a) : a \in Axes}, LockedMotion(d) PROVE GoodNow'
    <2>1. /\ moved' = Plus(moved, d) /\ pending' = Plus(pending, d) /\ raf' = TRUE
          /\ UNCHANGED <<backend, applied, overtaken, wire>>
      BY <1>3 DEF LockedMotion, channel, recorder
    <2>2. d \in [Axes -> Int] /\ moved \in [Axes -> Int] /\ applied \in [Axes -> Int]
      BY MotionTyped DEF TypeOK
    <2>3. Account(wire, pending)'
      <3> SUFFICES ASSUME NEW a \in Axes, a = "move" \/ backend = "wayland"
                   PROVE  moved'[a] = pending'[a] + Carried(wire, a)[Len(wire)] + applied[a]
        BY <2>1 DEF Account
      <3>1. moved[a] = pending[a] + Carried(wire, a)[Len(wire)] + applied[a]
        BY <1>0 DEF Good, Account
      <3>2. moved'[a] = moved[a] + d[a] /\ pending'[a] = pending[a] + d[a]
        BY <1>0, <2>1, <2>2, PlusTyped
      <3>3. Carried(wire, a)[Len(wire)] \in Int
        <4>1. wire \in Seq(Packet) /\ Len(wire) \in 0 .. Len(wire)
          BY DEF TypeOK
        <4> QED BY <4>1, CarriedSums
      <3>4. moved[a] \in Int /\ pending[a] \in Int /\ applied[a] \in Int /\ d[a] \in Int
        BY <1>0, <2>2
      <3> QED BY <3>1, <3>2, <3>3, <3>4
    <2>4. InPlace(wire)' /\ ClicksStill(wire)'
      BY <1>0, <2>1 DEF Good, InPlace, ClicksStill
    <2>5. wire' \in Seq(Packet)
      BY <1>0, <2>1 DEF Good
    <2> QED BY <2>1, <2>3, <2>4, <2>5 DEF GoodNow, Good
  <1>4. CASE UnlockedMove
    BY <1>4, GoodSame DEF UnlockedMove, user, mouse, channel, recorder
  <1>5. CASE Leave
    <2>1. UNCHANGED <<backend, moved, applied, pending, raf>>
      BY <1>5 DEF Leave, mouse, recorder
    <2>2. CASE active /\ held # {"left"}
      <3>1. Sent(<<Touch("up")>>)
        BY <1>5, <2>2 DEF Leave
      <3> QED BY <1>c, <2>1, <3>1
    <2>3. CASE ~(active /\ held # {"left"})
      <3>1. UNCHANGED <<wire, overtaken>>
        BY <1>5, <2>3 DEF Leave, channel
      <3> QED BY <2>1, <3>1, GoodSame
    <2> QED BY <2>2, <2>3
  <1>6. CASE Enter
    BY <1>6, GoodSame DEF Enter, mouse, channel, recorder
  <1>7. CASE Lock
    BY <1>7, GoodSame DEF Lock, user, mouse, channel, recorder
  <1>8. CASE Unlock
    BY <1>8, GoodSame DEF Unlock, mouse, channel, recorder
  <1>9. CASE Frame
    <2>1. /\ wire' = wire \o Flushed /\ pending' = Still
          /\ UNCHANGED <<backend, moved, applied, overtaken>>
      BY <1>9 DEF Frame, Sent, ResetPending, user, recorder
    <2> QED BY <1>a, <2>1, GoodAgain
  <1>10. CASE TouchFrame
    <2>1. Sent(<<Touch("move")>>) /\ UNCHANGED <<backend, moved, applied, pending, raf>>
      BY <1>10 DEF TouchFrame, user, mouse, recorder
    <2> QED BY <1>c, <2>1
  <1>11. CASE Deliver
    BY <1>11, GoodDelivered
  <1>12. CASE UNCHANGED vars
    BY <1>12, GoodSame DEF vars, user, mouse, channel, recorder
  <1> QED BY <1>1, <1>2, <1>3, <1>4, <1>5, <1>6, <1>7, <1>8, <1>9, <1>10, <1>11, <1>12 DEF Next

\* The two scripts share the buttons.
LEMMA ScriptsStep ==
  ASSUME TypeOK, ScriptsShare, [Next]_vars
  PROVE  ScriptsShare'
  <1>0. backend \in {"x11", "wayland"} /\ "left" \in Buttons
    BY DEF TypeOK, Buttons
  <1>1. ASSUME NEW b \in Buttons, MouseDown(b) PROVE ScriptsShare'
    <2>1. held' = held \cup {b} /\ backend' = backend
      BY <1>1 DEF MouseDown, recorder
    <2>2. CASE LockedDown(b)
      BY <2>1, <2>2 DEF LockedDown, ScriptsShare
    <2>3. CASE UnlockedDown(b)
      BY <1>0, <2>1, <2>3 DEF UnlockedDown, ScriptsShare
    <2>4. CASE OutsideDown(b)
      BY <2>1, <2>4 DEF OutsideDown, ScriptsShare
    <2> QED BY <1>1, <2>2, <2>3, <2>4 DEF MouseDown
  <1>2. ASSUME NEW b \in Buttons, MouseUp(b) PROVE ScriptsShare'
    <2>1. held' = held \ {b} /\ backend' = backend /\ lock' = lock
      BY <1>2 DEF MouseUp, recorder
    <2>2. CASE LockedUp(b)
      BY <2>1, <2>2 DEF LockedUp, ScriptsShare
    <2>3. CASE UnlockedUp(b)
      BY <2>1, <2>3 DEF UnlockedUp, ScriptsShare
    <2>4. CASE UnheardUp(b)
      BY <2>1, <2>4 DEF UnheardUp, ScriptsShare
    <2> QED BY <1>2, <2>2, <2>3, <2>4 DEF MouseUp
  <1>3. ASSUME NEW d \in UNION {Unit(a) : a \in Axes}, LockedMotion(d) PROVE ScriptsShare'
    BY <1>3 DEF LockedMotion, ScriptsShare, recorder
  <1>4. CASE UnlockedMove
    BY <1>4 DEF UnlockedMove, ScriptsShare, user, mouse, recorder
  <1>5. CASE Leave
    <2>1. missed \subseteq missed' /\ UNCHANGED <<held, lock, mask, backend>>
      BY <1>5 DEF Leave, mouse, recorder
    <2> QED BY <2>1 DEF ScriptsShare
  <1>6. CASE Enter
    BY <1>6 DEF Enter, ScriptsShare, mouse, recorder
  <1>7. CASE Lock
    BY <1>7 DEF Lock, ScriptsShare, user, mouse, recorder
  <1>8. CASE Unlock
    BY <1>8 DEF Unlock, ScriptsShare, mouse, recorder
  <1>9. CASE Frame
    BY <1>9 DEF Frame, ScriptsShare, user, recorder
  <1>10. CASE TouchFrame
    BY <1>10 DEF TouchFrame, ScriptsShare, user, mouse, recorder
  <1>11. CASE Deliver
    BY <1>11 DEF Deliver, ScriptsShare, user, mouse
  <1>12. CASE UNCHANGED vars
    BY <1>12 DEF vars, ScriptsShare, user, mouse, recorder
  <1> QED BY <1>1, <1>2, <1>3, <1>4, <1>5, <1>6, <1>7, <1>8, <1>9, <1>10, <1>11, <1>12 DEF Next

\* A step that sends nothing and of which every button not missed knows nothing.
LEMMA ButtonsSame ==
  ASSUME ButtonsCome, UNCHANGED <<backend, buttons, wire, overtaken>>, missed \subseteq missed',
         \A b \in Buttons \ missed' : b \in held' <=> b \in held
  PROVE  ButtonsCome'
  <1> SUFFICES ASSUME ~overtaken, NEW b \in Buttons \ missed'
               PROVE  Settles(backend, wire, b, buttons, held')
    BY DEF ButtonsCome
  <1>1. Settles(backend, wire, b, buttons, held)
    BY DEF ButtonsCome
  <1> QED BY <1>1, SettlesSame

\* A flush names no button.
LEMMA FlushNamesNone ==
  ASSUME TypeOK, NEW b, Settles(backend, wire, b, buttons, held)
  PROVE  Settles(backend, wire \o Flushed, b, buttons, held)
  <1> DEFINE m == Mouse("move", pending, mask)
  <1>1. Flushed = <<>> \/ Flushed = <<m>>
    BY Sends
  <1>2. m \in Packet /\ ~Names(backend, m, b) /\ wire \in Seq(Packet)
    BY Sends DEF Names, Mouse, TypeOK
  <1> HIDE DEF m
  <1>3. wire \o <<>> = wire /\ wire \o <<m>> = Append(wire, m)
    BY <1>2, Sends
  <1>4. Settles(backend, Append(wire, m), b, buttons, held)
    BY <1>2, SettlesUnnamed
  <1> QED BY <1>1, <1>3, <1>4

\* A click of the mouse settles the buttons it names and no other.
LEMMA ClickSettles ==
  ASSUME TypeOK, ButtonsCome, NEW action \in {"down", "up"}, NEW btns \in SUBSET Buttons,
         wire' = wire \o (Flushed \o <<Mouse(action, Still, btns)>>),
         UNCHANGED <<backend, buttons, overtaken>>,
         \A b \in Buttons \ missed' :
           IF b \in btns THEN b \in held' <=> action = "down"
                         ELSE b \notin missed /\ (b \in held' <=> b \in held)
  PROVE  ButtonsCome'
  <1> DEFINE p == Mouse(action, Still, btns)
  <1> SUFFICES ASSUME ~overtaken, NEW b \in Buttons \ missed'
               PROVE  Settles(backend, wire', b, buttons, held')
    BY DEF ButtonsCome
  <1>1. p \in Packet
    BY PacketsTyped, StillTyped
  <1>2. p.action = action /\ (Names(backend, p, b) <=> b \in btns)
    BY DEF Mouse, Names
  <1>3. wire' = Append(wire \o Flushed, p) /\ wire \o Flushed \in Seq(Packet)
    BY <1>1, Sends
  <1> HIDE DEF p
  <1>4. CASE b \in btns
    <2>1. b \in held' <=> p.action = "down"
      BY <1>2, <1>4
    <2>2. Names(backend, p, b)
      BY <1>2, <1>4
    <2> QED BY <1>1, <1>3, <2>1, <2>2, SettlesNamed
  <1>5. CASE b \notin btns
    <2>1. Settles(backend, wire, b, buttons, held)
      BY <1>5 DEF ButtonsCome
    <2>2. Settles(backend, wire \o Flushed, b, buttons, held)
      BY <2>1, FlushNamesNone
    <2>3. (b \in held <=> b \in held') /\ ~Names(backend, p, b)
      BY <1>2, <1>5
    <2> QED BY <1>1, <1>3, <2>2, <2>3, SettlesUnnamed
  <1> QED BY <1>4, <1>5

\* A packet of the finger settles the left button on X11 and no other.
LEMMA TouchSettles ==
  ASSUME TypeOK, ButtonsCome, NEW action \in {"move", "down", "up"}, Sent(<<Touch(action)>>),
         UNCHANGED <<backend, buttons>>,
         \A b \in Buttons \ missed' :
           IF action # "move" /\ backend = "x11" /\ b = "left"
           THEN b \in held' <=> action = "down"
           ELSE b \notin missed /\ (b \in held' <=> b \in held)
  PROVE  ButtonsCome'
  <1> DEFINE p == Touch(action)
  <1>1. p \in Packet /\ wire \in Seq(Packet)
    BY PacketsTyped, StillTyped DEF TypeOK
  <1>2. wire' = Append(wire, p) /\ overtaken' = overtaken
    BY <1>1, Sends DEF Sent
  <1> SUFFICES ASSUME ~overtaken, NEW b \in Buttons \ missed'
               PROVE  Settles(backend, wire', b, buttons, held')
    BY <1>2 DEF ButtonsCome
  <1>3. p.action = action /\ (Names(backend, p, b) <=> action # "move" /\ backend = "x11" /\ b = "left")
    BY DEF Touch, Names
  <1> HIDE DEF p
  <1>4. CASE Names(backend, p, b)
    BY <1>1, <1>2, <1>3, <1>4, SettlesNamed
  <1>5. CASE ~Names(backend, p, b)
    <2>1. b \notin missed /\ (b \in held' <=> b \in held)
      BY <1>3, <1>5
    <2>2. Settles(backend, wire, b, buttons, held)
      BY <2>1 DEF ButtonsCome
    <2> QED BY <1>1, <1>2, <1>5, <2>1, <2>2, SettlesUnnamed
  <1> QED BY <1>4, <1>5

\* The buttons of the recorder, in every step.
LEMMA ButtonsStep ==
  ASSUME TypeOK, ClicksAreStill, ScriptsShare, ButtonsCome, [Next]_vars
  PROVE  ButtonsCome'
  <1>0. backend \in {"x11", "wayland"} /\ held \subseteq Buttons /\ mask \subseteq Buttons
    BY DEF TypeOK
  <1>1. ASSUME NEW b \in Buttons, MouseDown(b) PROVE ButtonsCome'
    <2>1. held' = held \cup {b} /\ UNCHANGED <<backend, buttons>>
      BY <1>1 DEF MouseDown, recorder
    <2>2. CASE LockedDown(b)
      <3>1. /\ mask' = mask \cup {b} /\ missed' = missed /\ overtaken' = overtaken /\ lock = "on"
            /\ wire' = wire \o (Flushed \o <<Mouse("down", Still, mask')>>)
        BY <2>2 DEF LockedDown, Sent
      <3>2. mask \subseteq held \cup missed /\ mask' \in SUBSET Buttons
        BY <1>0, <3>1 DEF ScriptsShare
      <3> QED BY <2>1, <3>1, <3>2, ClickSettles
    <2>3. CASE UnlockedDown(b)
      <3>1. missed' = IF b = "left" /\ backend = "x11" THEN missed ELSE missed \cup {b}
        BY <2>3 DEF UnlockedDown
      <3>2. CASE b = "left"
        <4>1. Sent(<<Touch("down")>>)
          BY <2>3, <3>2 DEF UnlockedDown
        <4> QED BY <1>0, <2>1, <3>1, <3>2, <4>1, TouchSettles
      <3>3. CASE b # "left"
        <4>1. UNCHANGED <<wire, overtaken>>
          BY <2>3, <3>3 DEF UnlockedDown, channel
        <4> QED BY <2>1, <3>1, <3>3, <4>1, ButtonsSame
      <3> QED BY <3>2, <3>3
    <2>4. CASE OutsideDown(b)
      <3>1. missed' = missed \cup {b} /\ UNCHANGED <<wire, overtaken>>
        BY <2>4 DEF OutsideDown, channel
      <3> QED BY <2>1, <3>1, ButtonsSame
    <2> QED BY <1>1, <2>2, <2>3, <2>4 DEF MouseDown
  <1>2. ASSUME NEW b \in Buttons, MouseUp(b) PROVE ButtonsCome'
    <2>1. b \in held /\ held' = held \ {b} /\ UNCHANGED <<backend, buttons>>
      BY <1>2 DEF MouseUp, recorder
    <2>2. CASE LockedUp(b)
      <3>1. /\ missed' = missed \ {b} /\ overtaken' = overtaken
            /\ wire' = wire \o (Flushed \o <<Mouse("up", Still, {b})>>)
        BY <2>2 DEF LockedUp, Sent, ReleasingMask
      <3>2. {b} \in SUBSET Buttons
        OBVIOUS
      <3> QED BY <2>1, <3>1, <3>2, ClickSettles
    <2>3. CASE UnlockedUp(b)
      <3>1. /\ Sent(<<Touch("up")>>) /\ lock # "on"
            /\ missed' = IF b = "left" THEN missed ELSE missed \cup {"left"}
        BY <2>3 DEF UnlockedUp
      <3>2. held \subseteq missed \cup {"left"} /\ (backend = "wayland" => held \subseteq missed)
        BY <3>1 DEF ScriptsShare
      <3>3. ASSUME NEW c \in Buttons \ missed'
            PROVE  IF backend = "x11" /\ c = "left" THEN c \notin held'
                   ELSE c \notin missed /\ (c \in held' <=> c \in held)
        BY <1>0, <2>1, <3>1, <3>2
      <3> QED BY <2>1, <3>1, <3>3, TouchSettles
    <2>4. CASE UnheardUp(b)
      <3>1. missed' = missed \cup {b} /\ UNCHANGED <<wire, overtaken>>
        BY <2>4 DEF UnheardUp, channel
      <3> QED BY <2>1, <3>1, ButtonsSame
    <2> QED BY <1>2, <2>2, <2>3, <2>4 DEF MouseUp
  <1>3. ASSUME NEW d \in UNION {Unit(a) : a \in Axes}, LockedMotion(d) PROVE ButtonsCome'
    BY <1>3, ButtonsSame DEF LockedMotion, channel, recorder
  <1>4. CASE UnlockedMove
    BY <1>4, ButtonsSame DEF UnlockedMove, user, channel, recorder
  <1>5. CASE Leave
    <2>1. UNCHANGED <<held, backend, buttons>>
      BY <1>5 DEF Leave, recorder
    <2>2. CASE active /\ held # {"left"}
      <3>1. Sent(<<Touch("up")>>) /\ missed' = missed \cup ({"left"} \cap held)
        BY <1>5, <2>2 DEF Leave
      <3> QED BY <2>1, <3>1, TouchSettles
    <2>3. CASE ~(active /\ held # {"left"})
      <3>1. UNCHANGED <<wire, overtaken, missed>>
        BY <1>5, <2>3 DEF Leave, channel
      <3> QED BY <2>1, <3>1, ButtonsSame
    <2> QED BY <2>2, <2>3
  <1>6. CASE Enter
    BY <1>6, ButtonsSame DEF Enter, channel, recorder
  <1>7. CASE Lock
    BY <1>7, ButtonsSame DEF Lock, user, channel, recorder
  <1>8. CASE Unlock
    BY <1>8, ButtonsSame DEF Unlock, channel, recorder
  <1>9. CASE Frame
    <2>1. /\ wire' = wire \o Flushed
          /\ UNCHANGED <<backend, buttons, overtaken, held, missed>>
      BY <1>9 DEF Frame, Sent, user, recorder
    <2> SUFFICES ASSUME ~overtaken, NEW b \in Buttons \ missed
                 PROVE  Settles(backend, wire', b, buttons, held)
      BY <2>1 DEF ButtonsCome
    <2>2. Settles(backend, wire, b, buttons, held)
      BY DEF ButtonsCome
    <2> QED BY <2>1, <2>2, FlushNamesNone
  <1>10. CASE TouchFrame
    <2>1. Sent(<<Touch("move")>>) /\ UNCHANGED <<backend, buttons, held, missed>>
      BY <1>10 DEF TouchFrame, user, recorder
    <2> QED BY <2>1, TouchSettles
  <1>11. CASE Deliver
    <2>1. PICK i \in 1 .. Len(wire) :
            /\ wire' = RemoveAt(wire, i) /\ overtaken' = (overtaken \/ i > 1)
            /\ HandleMouseEvent(wire[i]) \/ HandleTouchEvent(wire[i])
            /\ UNCHANGED <<user, lock, mouse, touch, backend>>
      BY <1>11 DEF Deliver
    <2>2. wire \in Seq(Packet) /\ wire[i] \in Packet /\ Len(wire) \in Nat
      BY DEF TypeOK
    <2>3. UNCHANGED <<held, missed, backend>>
      BY <2>1 DEF user
    <2> SUFFICES ASSUME ~overtaken', NEW b \in Buttons \ missed
                 PROVE  Settles(backend, wire', b, buttons', held)
      BY <2>3 DEF ButtonsCome
    <2>4. ~overtaken /\ i = 1
      <3>1. ~(overtaken \/ i > 1)
        BY <2>1, Zenon
      <3> QED BY <3>1
    <2>5. Settles(backend, wire, b, buttons, held)
      BY <2>4 DEF ButtonsCome
    <2>6. wire[i].type = "mouse" /\ wire[i].action # "move" => wire[i].delta = Still
      BY <2>2 DEF ClicksAreStill
    <2>7. /\ Names(backend, wire[i], b) => (b \in buttons' <=> wire[i].action = "down")
          /\ ~Names(backend, wire[i], b) => (b \in buttons' <=> b \in buttons)
      BY <2>1, <2>2, <2>6, Handled
    <2> QED BY <2>1, <2>2, <2>4, <2>5, <2>7, SettlesAhead
  <1>12. CASE UNCHANGED vars
    BY <1>12, ButtonsSame DEF vars, user, channel, recorder
  <1> QED BY <1>1, <1>2, <1>3, <1>4, <1>5, <1>6, <1>7, <1>8, <1>9, <1>10, <1>11, <1>12 DEF Next

-----------------------------------------------------------------------------
(* The theorems                                                            *)

\* A page that has just been opened.
LEMMA PointerStarts == Init => InductiveInv
  <1> SUFFICES ASSUME Init PROVE InductiveInv
    OBVIOUS
  <1>1. /\ wire = <<>> /\ moved = Still /\ pending = Still /\ applied = Still /\ held = {} /\ buttons = {}
        /\ mask = {}
    BY DEF Init
  <1>2. <<>> \in Seq(Packet) /\ Len(<<>>) = 0 /\ DOMAIN <<>> = {}
    OBVIOUS
  <1>3. TypeOK
    BY <1>2, StillTyped, PointerAssumption DEF Init, TypeOK
  <1>4. MotionConserved
    <2>1. \A a \in Axes : Carried(<<>>, a)[0] = 0
      BY <1>2, CarriedSums
    <2> QED BY <1>1, <1>2, <2>1, StillTyped DEF MotionConserved, InFlight
  <1>5. ClicksAreStill /\ PlacesAdd
    BY <1>1, <1>2 DEF ClicksAreStill, PlacesAdd
  <1>6. ButtonsCome /\ ScriptsShare
    BY <1>1, <1>2 DEF ButtonsCome, Settles, ScriptsShare
  <1> QED BY <1>3, <1>4, <1>5, <1>6 DEF InductiveInv

\* The invariant of the page, the channel and the recorder: types, the account of
\* all motion, still clicks, each packet at its place, the buttons that are coming
\* and the division of the mouse between the two scripts.
THEOREM PointerInvariant == Spec => []InductiveInv
  <1>1. InductiveInv /\ [Next]_vars => InductiveInv'
    <2> SUFFICES ASSUME InductiveInv, [Next]_vars PROVE InductiveInv'
      OBVIOUS
    <2>1. /\ TypeOK /\ MotionConserved /\ ClicksAreStill /\ PlacesAdd /\ ButtonsCome /\ ScriptsShare
      BY DEF InductiveInv
    <2>2. TypeOK'
      BY <2>1, TypeStep
    <2>3. GoodNow'
      BY <2>1, GoodIsInv, GoodStep
    <2>4. (GoodNow <=> MotionConserved /\ ClicksAreStill /\ PlacesAdd)'
      BY <2>2 DEF GoodNow, Good, Account, InPlace, ClicksStill, TypeOK, MotionConserved,
                  ClicksAreStill, PlacesAdd, InFlight
    <2>5. ButtonsCome'
      BY <2>1, ButtonsStep
    <2>6. ScriptsShare'
      BY <2>1, ScriptsStep
    <2> QED BY <2>2, <2>3, <2>4, <2>5, <2>6 DEF InductiveInv
  <1> QED BY <1>1, PointerStarts, PTL DEF Spec

\* No motion of the locked mouse is lost or applied twice, in whatever order the
\* packets arrive (linux_mouse.js, InputController.HandleMouseEvent).
THEOREM MotionKept == Spec => []MotionConserved
  <1>1. InductiveInv => MotionConserved
    BY DEF InductiveInv
  <1> QED BY <1>1, PointerInvariant, PTL

\* A click finds the pointer where the user clicked, as long as no packet
\* overtakes another: flushPendingEvents has sent the motion before it.
THEOREM ClicksLand == Spec => []ClickInPlace
  <1>1. InductiveInv => ClickInPlace
    <2> SUFFICES ASSUME InductiveInv, 1 \in 1 .. Len(wire), ~overtaken, wire[1].type = "mouse",
                        wire[1].action # "move"
                 PROVE  wire[1].at = applied["move"]
      BY DEF ClickInPlace
    <2>1. TypeOK /\ wire[1].delta = Still /\ wire[1].at = applied["move"] + Carried(wire, "move")[1]
      BY DEF InductiveInv, TypeOK, ClicksAreStill, PlacesAdd
    <2>2. "move" \in Axes /\ wire \in Seq(Packet) /\ wire[1] \in Packet
      BY <2>1 DEF TypeOK, Axes
    <2>3. Carried(wire, "move")[1] = 0 + Delta(wire[1], "move")
      <3>1. 1 - 1 = 0
        OBVIOUS
      <3> QED BY <2>2, <3>1, CarriedSums
    <2>4. Delta(wire[1], "move") = 0
      BY <2>1, <2>2, StillTyped DEF Delta
    <2>5. applied["move"] \in Int
      BY <2>1, <2>2 DEF TypeOK
    <2> QED BY <2>1, <2>3, <2>4, <2>5
  <1> QED BY <1>1, PointerInvariant, PTL

\* Once everything has arrived in order, the recorder holds down exactly the
\* buttons the user does, but those whose press or release went unsent.
THEOREM ButtonsAgree == Spec => []ButtonsSettle
  <1>1. InductiveInv => ButtonsSettle
    <2> SUFFICES ASSUME InductiveInv, wire = <<>>, ~overtaken, NEW b \in Buttons \ missed
                 PROVE  b \in held <=> b \in buttons
      BY DEF ButtonsSettle, Drained
    <2>1. Settles(backend, wire, b, buttons, held)
      BY DEF InductiveInv, ButtonsCome
    <2> QED BY <2>1 DEF Settles
  <1> QED BY <1>1, PointerInvariant, PTL
=============================================================================
