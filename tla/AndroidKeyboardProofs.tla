------------------------ MODULE AndroidKeyboardProofs ------------------------
(***************************************************************************)
(* What is proved of the keyboards of an Android session, for any keys,    *)
(* any room in a report and any number of messages under way.              *)
(* InductiveInv has one lemma per conjunct; the four properties follow.    *)
(***************************************************************************)
EXTENDS AndroidKeyboard, Integers, SequenceTheorems, FiniteSetTheorems, TLAPS

-----------------------------------------------------------------------------
(* Sequences                                                               *)

\* The first message under way and those after it.
LEMMA HeadAndTail ==
  ASSUME NEW S, NEW s \in Seq(S), s # <<>>
  PROVE  /\ Head(s) = s[1] /\ Head(s) \in S /\ Tail(s) \in Seq(S)
         /\ Len(s) \in Nat /\ Len(s) >= 1 /\ Len(Tail(s)) = Len(s) - 1
         /\ \A i \in 1 .. Len(s) - 1 : Tail(s)[i] = s[i + 1]
  <1>1. Head(s) = s[1] /\ Head(s) \in S /\ Tail(s) \in Seq(S)
    OBVIOUS
  <1>2. Len(s) \in Nat /\ Len(s) >= 1 /\ Len(Tail(s)) = Len(s) - 1
    OBVIOUS
  <1>3. \A i \in 1 .. Len(s) - 1 : Tail(s)[i] = s[i + 1]
    OBVIOUS
  <1> QED BY <1>1, <1>2, <1>3

\* A sequence with one message more.
LEMMA Appended ==
  ASSUME NEW S, NEW s \in Seq(S), NEW e \in S
  PROVE  /\ Append(s, e) \in Seq(S)
         /\ Len(s) \in Nat /\ Len(Append(s, e)) = Len(s) + 1
         /\ Append(s, e)[Len(s) + 1] = e
         /\ \A i \in 1 .. Len(s) : Append(s, e)[i] = s[i]
  OBVIOUS

\* A handler of the page sends nothing, one message or two.
LEMMA Joined ==
  ASSUME NEW S, NEW s \in Seq(S)
  PROVE  /\ s \o <<>> = s
         /\ \A e \in S : s \o <<e>> = Append(s, e)
         /\ \A d, e \in S : s \o <<d, e>> = Append(Append(s, d), e)
  <1>1. s \o <<>> = s
    OBVIOUS
  <1>2. \A e \in S : s \o <<e>> = Append(s, e)
    OBVIOUS
  <1>3. \A d, e \in S : s \o <<d, e>> = Append(Append(s, d), e)
    OBVIOUS
  <1> QED BY <1>1, <1>2, <1>3

\* A key that is released leaves the set of pressed keys, which holds it once.
LEMMA Removed ==
  ASSUME NEW S, NEW s \in Seq(S), NEW n \in 1 .. Len(s),
         \A i, j \in 1 .. Len(s) : s[i] = s[j] => i = j
  PROVE  /\ RemoveAt(s, n) \in Seq(S)
         /\ Len(RemoveAt(s, n)) = Len(s) - 1
         /\ \A i, j \in 1 .. Len(RemoveAt(s, n)) : RemoveAt(s, n)[i] = RemoveAt(s, n)[j] => i = j
         /\ ToSet(RemoveAt(s, n)) = ToSet(s) \ {s[n]}
  <1> DEFINE a == SubSeq(s, 1, n - 1)
             b == SubSeq(s, n + 1, Len(s))
             t == a \o b
  <1>1. Len(s) \in Nat /\ n \in Nat /\ 1 <= n /\ n <= Len(s)
    OBVIOUS
  <1>2. a \in Seq(S) /\ Len(a) = n - 1 /\ \A i \in 1 .. n - 1 : a[i] = s[i]
    BY <1>1, SubSeqProperties
  <1>3. b \in Seq(S) /\ Len(b) = Len(s) - n /\ \A i \in 1 .. Len(s) - n : b[i] = s[i + n]
    BY <1>1, SubSeqProperties
  <1> HIDE DEF a, b
  <1>4. /\ t \in Seq(S) /\ Len(t) = Len(a) + Len(b)
        /\ \A i \in 1 .. Len(a) + Len(b) : t[i] = IF i <= Len(a) THEN a[i] ELSE b[i - Len(a)]
    BY <1>2, <1>3, ConcatProperties
  <1>5. RemoveAt(s, n) = t
    BY DEF RemoveAt, a, b
  <1> HIDE DEF t
  <1>6. Len(t) = Len(s) - 1
    BY <1>1, <1>2, <1>3, <1>4
  <1>7. ASSUME NEW i \in 1 .. Len(s) - 1 PROVE t[i] = IF i < n THEN s[i] ELSE s[i + 1]
    <2>1. t[i] = IF i <= n - 1 THEN a[i] ELSE b[i - (n - 1)]
      BY <1>1, <1>2, <1>3, <1>4
    <2>2. i \in Nat /\ 1 <= i /\ i <= Len(s) - 1
      BY <1>1
    <2>3. CASE i < n
      BY <1>1, <1>2, <2>1, <2>2, <2>3
    <2>4. CASE i >= n
      <3>1. i - (n - 1) \in 1 .. Len(s) - n /\ (i - (n - 1)) + n = i + 1 /\ ~(i <= n - 1)
        BY <1>1, <2>2, <2>4
      <3>2. b[i - (n - 1)] = s[i + 1]
        BY ONLY <1>3, <3>1
      <3> QED BY <2>1, <2>4, <3>1, <3>2, <1>1, <2>2
    <2> QED BY <1>1, <2>2, <2>3, <2>4
  <1>8. \A i, j \in 1 .. Len(t) : t[i] = t[j] => i = j
    BY <1>1, <1>6, <1>7
  <1>9. ToSet(t) \subseteq ToSet(s) \ {s[n]}
    BY <1>1, <1>4, <1>6, <1>7 DEF ToSet
  <1>10. ASSUME NEW k \in ToSet(s) \ {s[n]} PROVE k \in ToSet(t)
    <2>1. PICK i \in 1 .. Len(s) : s[i] = k /\ i # n
      BY <1>10 DEF ToSet
    <2>2. CASE i < n
      <3>1. i \in 1 .. Len(t) /\ t[i] = k
        BY <1>1, <1>6, <1>7, <2>1, <2>2
      <3> QED BY <3>1, <1>4 DEF ToSet
    <2>3. CASE i > n
      <3>1. i - 1 \in 1 .. Len(t) /\ t[i - 1] = k
        BY <1>1, <1>4, <1>6, <1>7, <2>1, <2>3
      <3> QED BY <3>1, <1>4 DEF ToSet
    <2> QED BY <1>1, <2>1, <2>2, <2>3
  <1> QED BY <1>4, <1>5, <1>6, <1>8, <1>9, <1>10

\* What is in a sequence with one message more.
LEMMA SetOfAppended ==
  ASSUME NEW S, NEW s \in Seq(S), NEW e \in S
  PROVE  ToSet(Append(s, e)) = ToSet(s) \cup {e}
  <1>1. \A i \in 1 .. Len(s) + 1 : Append(s, e)[i] = IF i = Len(s) + 1 THEN e ELSE s[i]
    OBVIOUS
  <1>2. DOMAIN s = 1 .. Len(s) /\ DOMAIN Append(s, e) = 1 .. Len(s) + 1 /\ Len(s) \in Nat
    OBVIOUS
  <1> QED BY <1>1, <1>2 DEF ToSet

-----------------------------------------------------------------------------
(* The wire: places of messages when one is sent, and when one arrives     *)

HidTypes == {"create", "destroy", "input"}
KeyTypes == {"down", "up"}

\* What a message may be.
LEMMA Messages ==
  ASSUME NEW m \in Message
  PROVE  /\ m.type \in HidTypes \cup KeyTypes
         /\ m.type \in KeyTypes => m.key \in Keys \ HidOnly
         /\ m.type = "input" => m.report \in Report
  BY DEF Message, HidTypes, KeyTypes

\* A message sent is the last of its kind.
LEMMA PlacesAppended ==
  ASSUME NEW w \in Seq(Message), NEW m \in Message
  PROVE  /\ m.type \in HidTypes => ToHid(Append(w, m)) = ToHid(w) \cup {Len(w) + 1}
         /\ m.type \notin HidTypes => ToHid(Append(w, m)) = ToHid(w)
         /\ \A k : IF m.type \in KeyTypes /\ m.key = k
                     THEN OnKey(Append(w, m), k) = OnKey(w, k) \cup {Len(w) + 1}
                     ELSE OnKey(Append(w, m), k) = OnKey(w, k)
         /\ \A i \in ToHid(w) : i \in 1 .. Len(w) /\ Append(w, m)[i] = w[i]
         /\ \A k : \A i \in OnKey(w, k) : i \in 1 .. Len(w) /\ Append(w, m)[i] = w[i]
         /\ Append(w, m)[Len(w) + 1] = m
  <1> DEFINE v == Append(w, m)
  <1>1. /\ Len(w) \in Nat /\ Len(v) = Len(w) + 1 /\ v[Len(w) + 1] = m
        /\ \A i \in 1 .. Len(w) : v[i] = w[i]
    BY Appended
  <1> HIDE DEF v
  <1>2. \A i : i \in 1 .. Len(v) <=> i \in 1 .. Len(w) \/ i = Len(w) + 1
    BY <1>1
  <1>3. Len(w) + 1 \notin 1 .. Len(w)
    BY <1>1
  <1>4. m.type \in HidTypes => ToHid(v) = ToHid(w) \cup {Len(w) + 1}
    BY <1>1, <1>2 DEF ToHid, HidTypes
  <1>5. m.type \notin HidTypes => ToHid(v) = ToHid(w)
    BY <1>1, <1>2 DEF ToHid, HidTypes
  <1>6. ASSUME NEW k
        PROVE  IF m.type \in KeyTypes /\ m.key = k
                 THEN OnKey(v, k) = OnKey(w, k) \cup {Len(w) + 1}
                 ELSE OnKey(v, k) = OnKey(w, k)
    BY <1>1, <1>2 DEF OnKey, KeyTypes
  <1>7. /\ \A i \in ToHid(w) : i \in 1 .. Len(w) /\ v[i] = w[i]
        /\ \A k : \A i \in OnKey(w, k) : i \in 1 .. Len(w) /\ v[i] = w[i]
    BY <1>1 DEF ToHid, OnKey
  <1> QED BY <1>1, <1>4, <1>5, <1>6, <1>7 DEF v

\* The last place of a set that a later one joins.
LEMMA LastAppended ==
  ASSUME NEW n \in Nat, NEW I \in SUBSET (1 .. n), NEW i \in I \cup {n + 1},
         IsLast(i, I \cup {n + 1})
  PROVE  i = n + 1
  BY DEF IsLast

\* When the first message has gone the others are one place nearer.
LEMMA PlacesOfTail ==
  ASSUME NEW w \in Seq(Message), w # <<>>
  PROVE  /\ \A i : i \in ToHid(Tail(w)) <=> i \in 1 .. Len(w) - 1 /\ i + 1 \in ToHid(w)
         /\ \A k, i : i \in OnKey(Tail(w), k) <=> i \in 1 .. Len(w) - 1 /\ i + 1 \in OnKey(w, k)
         /\ 1 \in ToHid(w) <=> w[1].type \in HidTypes
         /\ \A k : 1 \in OnKey(w, k) <=> w[1].type \in KeyTypes /\ w[1].key = k
         /\ \A i \in 1 .. Len(w) - 1 : Tail(w)[i] = w[i + 1]
  <1> DEFINE v == Tail(w)
  <1>1. /\ Len(w) \in Nat /\ Len(w) >= 1 /\ Len(v) = Len(w) - 1
        /\ \A i \in 1 .. Len(w) - 1 : v[i] = w[i + 1]
    BY HeadAndTail
  <1> HIDE DEF v
  <1>2. \A i \in 1 .. Len(v) : i + 1 \in 1 .. Len(w)
    BY <1>1
  <1>3. \A i : i \in ToHid(v) <=> i \in 1 .. Len(w) - 1 /\ i + 1 \in ToHid(w)
    BY <1>1, <1>2 DEF ToHid
  <1>4. \A k, i : i \in OnKey(v, k) <=> i \in 1 .. Len(w) - 1 /\ i + 1 \in OnKey(w, k)
    BY <1>1, <1>2 DEF OnKey
  <1>5. 1 \in 1 .. Len(w)
    BY <1>1
  <1>6. /\ 1 \in ToHid(w) <=> w[1].type \in HidTypes
        /\ \A k : 1 \in OnKey(w, k) <=> w[1].type \in KeyTypes /\ w[1].key = k
    BY <1>5 DEF ToHid, OnKey, HidTypes, KeyTypes
  <1> QED BY <1>1, <1>3, <1>4, <1>6 DEF v

\* The last of the messages left is the last there was; if none is left there was
\* none but the first.
LEMMA LastOfTail ==
  ASSUME NEW n \in Nat, n >= 1, NEW I \in SUBSET (1 .. n), NEW J \in SUBSET (1 .. n - 1),
         \A i : i \in J <=> i \in 1 .. n - 1 /\ i + 1 \in I
  PROVE  /\ \A i \in J : IsLast(i, J) => IsLast(i + 1, I)
         /\ J = {} => I = {} \/ IsLast(1, I)
         /\ 1 \notin I /\ J = {} => I = {}
  <1>1. ASSUME NEW i \in I, i # 1 PROVE i - 1 \in J /\ (i - 1) + 1 = i
    BY <1>1
  <1>2. ASSUME NEW i \in J, IsLast(i, J) PROVE IsLast(i + 1, I)
    <2>1. i \in 1 .. n - 1 /\ i + 1 \in I
      OBVIOUS
    <2>2. ASSUME NEW j \in I PROVE j <= i + 1
      <3>1. CASE j = 1
        BY <2>1, <3>1
      <3>2. CASE j # 1
        <4>1. j - 1 \in J
          BY <1>1, <3>2
        <4>2. j - 1 <= i
          BY <1>2, <4>1 DEF IsLast
        <4> QED BY <2>1, <4>2
      <3> QED BY <3>1, <3>2
    <2> QED BY <2>1, <2>2 DEF IsLast
  <1>3. J = {} => \A i \in I : i = 1
    BY <1>1
  <1>4. J = {} => I = {} \/ IsLast(1, I)
    BY <1>3 DEF IsLast
  <1> QED BY <1>2, <1>3, <1>4

-----------------------------------------------------------------------------
(* What the page sends                                                     *)

Input(p, m) == [type |-> "input", report |-> [keys |-> Fill(p), mods |-> m]]

\* A report has room for ReportKeys keys, and no more are put in.
LEMMA ReportsTyped ==
  ASSUME NEW p \in Seq(Letters), NEW m \in SUBSET Modifiers
  PROVE  /\ Len(p) <= ReportKeys => Fill(p) = ToSet(p)
         /\ [keys |-> Fill(p), mods |-> m] \in Report
         /\ Input(p, m) \in Message
  <1> DEFINE n == IF Len(p) < ReportKeys THEN Len(p) ELSE ReportKeys
  <1>1. Len(p) \in Nat /\ ReportKeys \in Nat /\ n \in Nat /\ n <= ReportKeys /\ n <= Len(p)
    BY KeyboardAssumption
  <1>2. Len(p) <= ReportKeys => n = Len(p)
    BY <1>1
  <1>3. Fill(p) = {p[i] : i \in 1 .. n}
    BY DEF Fill
  <1> HIDE DEF n
  <1>4. \A i \in 1 .. n : i \in 1 .. Len(p) /\ p[i] \in Letters
    BY <1>1
  <1>5. Len(p) <= ReportKeys => Fill(p) = ToSet(p)
    BY <1>2, <1>3, <1>4 DEF ToSet
  <1>6. Fill(p) \subseteq Letters
    BY <1>3, <1>4
  <1>7. Cardinality(Fill(p)) <= ReportKeys
    <2>1. IsFiniteSet(1 .. n) /\ Cardinality(1 .. n) = n
      BY <1>1, FS_Interval
    <2> DEFINE f == [i \in 1 .. n |-> p[i]]
    <2>2. f \in Surjection(1 .. n, Fill(p))
      BY <1>3 DEF Surjection
    <2>3. IsFiniteSet(Fill(p)) /\ Cardinality(Fill(p)) <= Cardinality(1 .. n)
      BY <2>1, <2>2, FS_Surjection
    <2>4. Cardinality(Fill(p)) \in Nat
      BY <2>3, FS_CardinalityType
    <2> QED BY <1>1, <2>1, <2>3, <2>4
  <1>8. [keys |-> Fill(p), mods |-> m] \in Report
    BY <1>6, <1>7 DEF Report
  <1> QED BY <1>5, <1>8 DEF Input, Message

\* The report of an empty keyboard is a report.
LEMMA NoKeysTyped == NoKeys \in Report
  <1>1. <<>> \in Seq(Letters) /\ Len(<<>>) = 0
    OBVIOUS
  <1>2. Fill(<<>>) = {}
    BY <1>1, KeyboardAssumption DEF Fill
  <1>3. [keys |-> Fill(<<>>), mods |-> {}] \in Report
    BY <1>1, ReportsTyped
  <1> QED BY <1>2, <1>3 DEF NoKeys

\* The wire after a handler of the page.
LEMMA SentOnWire ==
  ASSUME TypeOK
  PROVE  /\ Sent(<<>>) => wire' = wire
         /\ \A m \in Message : Sent(<<m>>) => wire' = Append(wire, m)
         /\ \A m, o \in Message : Sent(<<m, o>>) => wire' = Append(Append(wire, m), o)
  <1>1. wire \in Seq(Message)
    BY DEF TypeOK
  <1> QED BY <1>1, Joined DEF Sent

-----------------------------------------------------------------------------
(* The steps, by what they send                                            *)

\* Nothing is sent, and no key comes into question that the page has seen.
Quiet ==
  /\ UNCHANGED <<page, wire, android>>
  /\ missed \subseteq missed'
  /\ \A k \in Keys \ (missed' \cup HidOnly) : Typed(k)' <=> Typed(k)

\* keyboard.js sends a key.
KeyMoves(k, t) ==
  /\ ~enabled /\ k \in Keys \ HidOnly /\ t \in KeyTypes
  /\ UNCHANGED <<page, android, missed>>
  /\ wire' = Append(wire, [type |-> t, key |-> k])
  /\ t = "down" <=> k \in held'
  /\ \A j \in Keys : j # k => (j \in held' <=> j \in held)

\* uhid_keyboard.js sends a report.
Reports ==
  /\ enabled /\ initialized
  /\ UNCHANGED <<enabled, initialized, android>>
  /\ missed \subseteq missed'
  /\ wire' = Append(wire, Input(pressed', mods'))

\* The virtual keyboard is plugged in, and unplugged.
Comes ==
  /\ ~enabled /\ ~initialized /\ enabled' /\ initialized'
  /\ UNCHANGED <<held, pressed, mods, android>>
  /\ missed' = missed \cup held
  /\ wire' = Append(Append(wire, [type |-> "destroy"]), [type |-> "create"])

Goes ==
  /\ enabled /\ initialized /\ ~enabled' /\ ~initialized'
  /\ UNCHANGED <<held, pressed, mods, android>>
  /\ missed' = missed \cup held
  /\ wire' = Append(wire, [type |-> "destroy"])

\* The messages that plug the virtual keyboard in and out are messages.
LEMMA Signals == [type |-> "destroy"] \in Message /\ [type |-> "create"] \in Message
  BY DEF Message

\* Every handler of the page is one of these.
LEMMA KeyDownKind ==
  ASSUME TypeOK, PageFollows, NEW k \in Keys, KeyDown(k)
  PROVE  Quiet \/ KeyMoves(k, "down") \/ Reports
  <1>1. /\ held' = held \cup {k} /\ UNCHANGED <<focus, missed, enabled, initialized, down, hid>>
        /\ enabled = initialized
    BY DEF KeyDown, PageFollows, android
  <1>2. CASE ~enabled
    <2>1. Sent(KeyCode("down", k)) /\ UNCHANGED <<pressed, mods>>
      BY <1>2 DEF KeyDown
    <2>2. CASE k \in HidOnly
      <3>1. wire' = wire
        BY <2>1, <2>2, SentOnWire DEF KeyCode
      <3> QED BY <1>1, <2>1, <2>2, <3>1 DEF Quiet, Typed, page, android
    <2>3. CASE k \notin HidOnly
      <3>1. [type |-> "down", key |-> k] \in Message
        BY <2>3 DEF Message
      <3>2. wire' = Append(wire, [type |-> "down", key |-> k])
        BY <2>1, <2>3, <3>1, SentOnWire DEF KeyCode
      <3> QED BY <1>1, <1>2, <2>1, <2>3, <3>2 DEF KeyMoves, KeyTypes, page, android
    <2> QED BY <2>2, <2>3
  <1>3. CASE enabled
    <2>1. CASE UNCHANGED <<pressed, mods, wire>>
      BY <1>1, <1>3, <2>1 DEF Quiet, Typed, page, android
    <2>2. CASE ~UNCHANGED <<pressed, mods, wire>>
      <3>1. /\ Sent(KeyboardReport(pressed', mods'))
            /\ \/ k \in Modifiers /\ mods' = mods \cup {k} /\ pressed' = pressed
               \/ k \in Letters /\ mods' = mods /\ pressed' = Append(pressed, k)
        BY <1>3, <2>2 DEF KeyDown
      <3>2. pressed' \in Seq(Letters) /\ mods' \subseteq Modifiers
        BY <3>1 DEF TypeOK
      <3>3. Input(pressed', mods') \in Message
        BY <3>2, ReportsTyped
      <3>4. wire' = Append(wire, Input(pressed', mods'))
        BY <1>1, <1>3, <3>1, <3>3, SentOnWire DEF KeyboardReport, Input
      <3> QED BY <1>1, <1>3, <3>4 DEF Reports, android
    <2> QED BY <2>1, <2>2
  <1> QED BY <1>2, <1>3

\* A key that comes up: nothing, a message of its own or a report.
LEMMA KeyUpKind ==
  ASSUME TypeOK, PageFollows, NEW k \in Keys, KeyUp(k)
  PROVE  Quiet \/ KeyMoves(k, "up") \/ Reports
  <1>1. /\ held' = held \ {k} /\ UNCHANGED <<focus, missed, enabled, initialized, down, hid>>
        /\ enabled = initialized
    BY DEF KeyUp, PageFollows, android
  <1>2. CASE ~enabled
    <2>1. Sent(KeyCode("up", k)) /\ UNCHANGED <<pressed, mods>>
      BY <1>2 DEF KeyUp
    <2>2. CASE k \in HidOnly
      <3>1. wire' = wire
        BY <2>1, <2>2, SentOnWire DEF KeyCode
      <3> QED BY <1>1, <2>1, <2>2, <3>1 DEF Quiet, Typed, page, android
    <2>3. CASE k \notin HidOnly
      <3>1. [type |-> "up", key |-> k] \in Message
        BY <2>3 DEF Message
      <3>2. wire' = Append(wire, [type |-> "up", key |-> k])
        BY <2>1, <2>3, <3>1, SentOnWire DEF KeyCode
      <3> QED BY <1>1, <1>2, <2>1, <2>3, <3>2 DEF KeyMoves, KeyTypes, page, android
    <2> QED BY <2>2, <2>3
  <1>3. CASE enabled
    <2>1. CASE UNCHANGED <<pressed, mods, wire>>
      BY <1>1, <1>3, <2>1 DEF Quiet, Typed, page, android
    <2>2. CASE ~UNCHANGED <<pressed, mods, wire>>
      <3>1. /\ Sent(KeyboardReport(pressed', mods'))
            /\ \/ mods' = mods \ {k} /\ pressed' = pressed
               \/ mods' = mods /\ \E i \in DOMAIN pressed : pressed' = RemoveAt(pressed, i)
        BY <1>3, <2>2 DEF KeyUp, WithoutModifier
      <3>2. pressed' \in Seq(Letters) /\ mods' \subseteq Modifiers
        BY <3>1, Removed DEF TypeOK, PageFollows
      <3>3. Input(pressed', mods') \in Message
        BY <3>2, ReportsTyped
      <3>4. wire' = Append(wire, Input(pressed', mods'))
        BY <1>1, <1>3, <3>1, <3>3, SentOnWire DEF KeyboardReport, Input
      <3> QED BY <1>1, <1>3, <3>4 DEF Reports, android
    <2> QED BY <2>1, <2>2
  <1> QED BY <1>2, <1>3

\* A page that loses the focus: nothing, or a report.
LEMMA BlurKind ==
  ASSUME TypeOK, PageFollows, Blur
  PROVE  Quiet \/ Reports
  <1>1. /\ missed' = missed \cup held /\ UNCHANGED <<held, enabled, initialized, down, hid>>
        /\ enabled = initialized
    BY DEF Blur, PageFollows, android
  <1>2. CASE SomethingPressed
    <2>1. /\ enabled /\ Sent(KeyboardReport(pressed', mods'))
          /\ pressed' = <<>> /\ mods' = {}
      BY <1>2 DEF Blur, SomethingPressed
    <2>2. Input(pressed', mods') \in Message
      <3>1. <<>> \in Seq(Letters)
        OBVIOUS
      <3> QED BY <2>1, <3>1, ReportsTyped
    <2>3. wire' = Append(wire, Input(pressed', mods'))
      BY <1>1, <2>1, <2>2, SentOnWire DEF KeyboardReport, Input
    <2> QED BY <1>1, <2>1, <2>3 DEF Reports, android
  <1>3. CASE ~SomethingPressed
    <2>1. UNCHANGED <<pressed, mods, wire>>
      BY <1>3 DEF Blur
    <2> QED BY <1>1, <2>1 DEF Quiet, Typed, page, android
  <1> QED BY <1>2, <1>3

\* The virtual keyboard is switched on: it is announced.
LEMMA ToggleOnKind ==
  ASSUME TypeOK, PageFollows, ToggleOn
  PROVE  Comes
  <1>1. /\ Sent(IF initialized THEN <<>> ELSE DestroyThenCreate)
        /\ ~enabled /\ enabled = initialized /\ initialized' /\ enabled'
        /\ missed' = missed \cup held /\ UNCHANGED <<held, pressed, mods, android>>
    BY DEF ToggleOn, PageFollows
  <1>2. Sent(<<[type |-> "destroy"], [type |-> "create"]>>)
    BY <1>1 DEF DestroyThenCreate
  <1>3. wire' = Append(Append(wire, [type |-> "destroy"]), [type |-> "create"])
    BY <1>2, SentOnWire, Signals
  <1> QED BY <1>1, <1>3 DEF Comes

\* The virtual keyboard is switched off: it is taken away.
LEMMA ToggleOffKind ==
  ASSUME TypeOK, PageFollows, ToggleOff
  PROVE  Goes
  <1>1. /\ Sent(IF initialized THEN <<[type |-> "destroy"]>> ELSE <<>>)
        /\ enabled /\ enabled = initialized /\ ~initialized' /\ ~enabled'
        /\ missed' = missed \cup held /\ UNCHANGED <<held, pressed, mods, android>>
    BY DEF ToggleOff, PageFollows, DestroyedInitialized
  <1>2. Sent(<<[type |-> "destroy"]>>)
    BY <1>1
  <1>3. wire' = Append(wire, [type |-> "destroy"])
    BY <1>2, SentOnWire, Signals
  <1> QED BY <1>1, <1>3 DEF Goes

\* Every step is of one of these kinds.
LEMMA StepKinds ==
  ASSUME TypeOK, PageFollows, [Next]_vars
  PROVE  \/ Quiet \/ Reports \/ Comes \/ Goes \/ HandleEvent
         \/ \E k \in Keys, t \in KeyTypes : KeyMoves(k, t)
  <1>1. CASE UNCHANGED vars
    BY <1>1 DEF vars, user, page, android, Quiet, Typed
  <1>2. ASSUME NEW k \in Keys, KeyDown(k)
        PROVE  Quiet \/ Reports \/ \E t \in KeyTypes : KeyMoves(k, t)
    BY <1>2, KeyDownKind DEF KeyTypes
  <1>3. ASSUME NEW k \in Keys, KeyUp(k)
        PROVE  Quiet \/ Reports \/ \E t \in KeyTypes : KeyMoves(k, t)
    BY <1>3, KeyUpKind DEF KeyTypes
  <1>4. ASSUME NEW k \in Keys, Elsewhere(k) PROVE Quiet
    BY <1>4 DEF Elsewhere, Quiet, Typed, page
  <1>5. CASE Focus
    BY <1>5 DEF Focus, Quiet, Typed, page
  <1> QED BY <1>1, <1>2, <1>3, <1>4, <1>5, BlurKind, ToggleOnKind, ToggleOffKind DEF Next

-----------------------------------------------------------------------------
(* The page and its user                                                   *)

\* The page when it has been opened.
LEMMA PageStart == Init => TypeOK /\ PageFollows
  <1> SUFFICES ASSUME Init PROVE TypeOK /\ PageFollows
    OBVIOUS
  <1>1. /\ pressed = <<>> /\ <<>> \in Seq(Letters) /\ Len(<<>>) = 0 /\ ToSet(<<>>) = {}
        /\ wire = <<>> /\ <<>> \in Seq(Message)
    BY DEF Init, ToSet
  <1>2. TypeOK
    BY <1>1 DEF Init, TypeOK
  <1>3. PageFollows
    <2>1. Len(pressed) = 0 /\ ToSet(pressed) = {} /\ mods = {} /\ ~enabled /\ ~initialized /\ focus
      BY <1>1 DEF Init
    <2>2. enabled = initialized
      BY DEF Init
    <2> QED BY <2>1, <2>2 DEF PageFollows
  <1> QED BY <1>2, <1>3

\* Key presses and releases, as the page keeps count of them.
LEMMA PageOnKeyDown ==
  ASSUME TypeOK, PageFollows, NEW k \in Keys, KeyDown(k)
  PROVE  /\ PageFollows'
         /\ held' \subseteq Keys /\ UNCHANGED <<focus, missed, enabled, initialized, android>>
         /\ pressed' \in Seq(Letters) /\ mods' \subseteq Modifiers
  <1>1. /\ held' = held \cup {k} /\ focus /\ UNCHANGED <<focus, missed, enabled, initialized, android>>
        /\ pressed \in Seq(Letters) /\ mods \subseteq Modifiers /\ held \subseteq Keys
        /\ Letters \subseteq Keys /\ Modifiers \subseteq Keys
    BY DEF KeyDown, TypeOK, Keys
  <1>2. CASE UNCHANGED <<pressed, mods>> /\ ~enabled
    BY <1>1, <1>2 DEF PageFollows
  <1>3. CASE enabled /\ k \in Modifiers /\ mods' = mods \cup {k} /\ pressed' = pressed
    BY <1>1, <1>3 DEF PageFollows
  <1>4. CASE enabled /\ k \in Letters \ ToSet(pressed) /\ mods' = mods /\ pressed' = Append(pressed, k)
    <2>1. /\ pressed' \in Seq(Letters) /\ ToSet(pressed') = ToSet(pressed) \cup {k}
          /\ Len(pressed) \in Nat /\ Len(pressed') = Len(pressed) + 1 /\ pressed'[Len(pressed) + 1] = k
          /\ \A i \in 1 .. Len(pressed) : pressed'[i] = pressed[i]
      BY <1>1, <1>4, Appended, SetOfAppended
    <2>2. \A i \in 1 .. Len(pressed) : pressed[i] # k
      BY <1>4 DEF ToSet
    <2>3. \A i, j \in 1 .. Len(pressed') : pressed'[i] = pressed'[j] => i = j
      <3>1. \A i \in 1 .. Len(pressed') : i = Len(pressed) + 1 \/ i \in 1 .. Len(pressed)
        BY <2>1
      <3> QED BY <2>1, <2>2, <3>1 DEF PageFollows
    <2> QED BY <1>1, <1>4, <2>1, <2>3 DEF PageFollows
  <1>5. CASE enabled /\ k \in mods \cup ToSet(pressed) /\ UNCHANGED <<pressed, mods>>
    BY <1>1, <1>5 DEF PageFollows
  <1> QED BY <1>2, <1>3, <1>4, <1>5 DEF KeyDown

\* A key that comes up leaves the sets of the page and of the user alike.
LEMMA PageOnKeyUp ==
  ASSUME TypeOK, PageFollows, NEW k \in Keys, KeyUp(k)
  PROVE  /\ PageFollows'
         /\ held' \subseteq Keys /\ UNCHANGED <<focus, missed, enabled, initialized, android>>
         /\ pressed' \in Seq(Letters) /\ mods' \subseteq Modifiers
  <1>1. /\ held' = held \ {k} /\ k \in held /\ focus
        /\ UNCHANGED <<focus, missed, enabled, initialized, android>>
        /\ pressed \in Seq(Letters) /\ mods \subseteq Modifiers /\ held \subseteq Keys
        /\ Letters \cap Modifiers = {} /\ ToSet(pressed) \subseteq Letters
    <2>1. ToSet(pressed) \subseteq Letters
      BY DEF TypeOK, ToSet
    <2> QED BY <2>1, KeyboardAssumption DEF KeyUp, TypeOK, Keys
  <1>2. CASE UNCHANGED <<pressed, mods>> /\ ~enabled
    BY <1>1, <1>2 DEF PageFollows
  <1>3. CASE enabled /\ k \in mods /\ mods' = mods \ {k} /\ pressed' = pressed
    <2>1. k \notin ToSet(pressed)
      BY <1>1, <1>3
    <2> QED BY <1>1, <1>3, <2>1 DEF PageFollows
  <1>4. ASSUME enabled, mods' = mods, NEW n \in DOMAIN pressed, pressed[n] = k,
               pressed' = RemoveAt(pressed, n)
        PROVE  /\ PageFollows'
               /\ pressed' \in Seq(Letters) /\ mods' \subseteq Modifiers
    <2>1. /\ pressed' \in Seq(Letters) /\ ToSet(pressed') = ToSet(pressed) \ {k}
          /\ \A i, j \in 1 .. Len(pressed') : pressed'[i] = pressed'[j] => i = j
      BY <1>1, <1>4, Removed DEF PageFollows
    <2>2. k \notin mods
      BY <1>1, <1>4 DEF ToSet
    <2> QED BY <1>1, <1>4, <2>1, <2>2 DEF PageFollows
  <1>5. CASE enabled /\ k \notin mods \cup ToSet(pressed) /\ UNCHANGED <<pressed, mods>>
    BY <1>1, <1>5 DEF PageFollows
  <1> QED BY <1>1, <1>2, <1>3, <1>4, <1>5 DEF KeyUp, WithoutModifier

\* The page loses the focus, or the user chooses the other keyboard.
LEMMA PageOnBlur ==
  ASSUME TypeOK, PageFollows, Blur
  PROVE  /\ PageFollows'
         /\ missed' \subseteq Keys /\ focus' \in BOOLEAN
         /\ UNCHANGED <<held, enabled, initialized, android>>
         /\ pressed' \in Seq(Letters) /\ mods' \subseteq Modifiers
  <1>1. /\ missed' = missed \cup held /\ focus' = FALSE /\ UNCHANGED <<held, enabled, initialized, android>>
        /\ <<>> \in Seq(Letters) /\ ToSet(<<>>) = {} /\ Len(<<>>) = 0
    BY DEF Blur, ToSet
  <1>2. missed' \subseteq Keys /\ focus' \in BOOLEAN
    BY <1>1 DEF TypeOK
  <1>3. CASE SomethingPressed
    <2>1. pressed' = <<>> /\ mods' = {} /\ ToSet(pressed') = {} /\ Len(pressed') = 0
      BY <1>1, <1>3 DEF Blur
    <2>2. PageFollows'
      BY <1>1, <2>1 DEF PageFollows
    <2> QED BY <1>1, <1>2, <2>1, <2>2
  <1>4. CASE ~SomethingPressed
    <2>1. UNCHANGED <<pressed, mods>> /\ (enabled => pressed = <<>> /\ mods = {})
      BY <1>4 DEF Blur, SomethingPressed
    <2>2. enabled => ToSet(pressed) \cup mods = {}
      BY <1>1, <2>1
    <2>3. PageFollows'
      BY <1>1, <2>1, <2>2 DEF PageFollows
    <2> QED BY <1>1, <1>2, <2>1, <2>3 DEF TypeOK
  <1> QED BY <1>3, <1>4

\* A switch of keyboards in mid-press is remembered as missed.
LEMMA PageOnToggle ==
  ASSUME TypeOK, PageFollows, ToggleOn \/ ToggleOff
  PROVE  PageFollows' /\ missed' \subseteq Keys
  <1>1. /\ missed' = missed \cup held /\ UNCHANGED <<held, pressed, mods>>
        /\ focus' /\ missed' \subseteq Keys
    BY DEF TypeOK, ToggleOn, ToggleOff
  <1>2. \A k \in Keys \ missed' : k \notin ToSet(pressed) \cup mods
    BY <1>1 DEF PageFollows
  <1>3. \A k \in Keys \ missed' : k \notin held'
    BY <1>1
  <1>4. \/ enabled' = TRUE /\ initialized' = TRUE
        \/ enabled' = FALSE /\ initialized' = FALSE
    BY DEF ToggleOn, ToggleOff, DestroyedInitialized
  <1> QED BY <1>1, <1>2, <1>3, <1>4 DEF PageFollows

\* Every variable keeps its type, and the page keeps up with its user.
LEMMA PageStep ==
  ASSUME TypeOK, PageFollows, [Next]_vars
  PROVE  PageFollows' /\ TypeOK'
  <1>1. ASSUME Quiet \/ Reports \/ Comes \/ Goes \/ (\E k \in Keys, t \in KeyTypes : KeyMoves(k, t)),
               pressed' \in Seq(Letters), mods' \subseteq Modifiers
        PROVE  wire' \in Seq(Message) /\ android' = android
    <2>1. wire \in Seq(Message) /\ Input(pressed', mods') \in Message
      BY <1>1, ReportsTyped DEF TypeOK
    <2>2. \A k \in Keys \ HidOnly, t \in KeyTypes : [type |-> t, key |-> k] \in Message
      BY DEF Message, KeyTypes
    <2>3. CASE Quiet
      BY <2>1, <2>3 DEF Quiet
    <2>4. CASE Reports
      BY <2>1, <2>4, Appended DEF Reports
    <2>5. CASE Comes
      <3>1. /\ Append(wire, [type |-> "destroy"]) \in Seq(Message)
            /\ wire' = Append(Append(wire, [type |-> "destroy"]), [type |-> "create"])
        BY <2>1, <2>5, Signals, Appended DEF Comes
      <3> QED BY <2>5, <3>1, Signals, Appended DEF Comes
    <2>6. CASE Goes
      BY <2>1, <2>6, Signals, Appended DEF Goes
    <2>7. ASSUME NEW k \in Keys, NEW t \in KeyTypes, KeyMoves(k, t)
          PROVE  wire' \in Seq(Message) /\ android' = android
      BY <2>1, <2>2, <2>7, Appended DEF KeyMoves
    <2> QED BY <1>1, <2>3, <2>4, <2>5, <2>6, <2>7
  <1>2. ASSUME NEW k \in Keys, KeyDown(k) PROVE PageFollows' /\ TypeOK'
    <2>1. wire' \in Seq(Message)
      BY <1>1, <1>2, KeyDownKind, PageOnKeyDown DEF KeyTypes
    <2> QED BY <1>2, <2>1, PageOnKeyDown DEF TypeOK, android
  <1>3. ASSUME NEW k \in Keys, KeyUp(k) PROVE PageFollows' /\ TypeOK'
    <2>1. wire' \in Seq(Message)
      BY <1>1, <1>3, KeyUpKind, PageOnKeyUp DEF KeyTypes
    <2> QED BY <1>3, <2>1, PageOnKeyUp DEF TypeOK, android
  <1>4. ASSUME NEW k \in Keys, Elsewhere(k) PROVE PageFollows' /\ TypeOK'
    BY <1>4 DEF Elsewhere, PageFollows, TypeOK, page, android
  <1>5. CASE Blur
    <2>1. wire' \in Seq(Message)
      BY <1>1, <1>5, BlurKind, PageOnBlur
    <2> QED BY <1>5, <2>1, PageOnBlur DEF TypeOK, android
  <1>6. CASE Focus
    BY <1>6 DEF Focus, PageFollows, TypeOK, page, android
  <1>7. CASE ToggleOn
    <2>1. wire' \in Seq(Message)
      BY <1>1, <1>7, ToggleOnKind DEF TypeOK, Comes
    <2> QED BY <1>7, <2>1, PageOnToggle DEF TypeOK, ToggleOn, android
  <1>8. CASE ToggleOff
    <2>1. wire' \in Seq(Message)
      BY <1>1, <1>8, ToggleOffKind DEF TypeOK, Goes
    <2> QED BY <1>8, <2>1, PageOnToggle DEF TypeOK, ToggleOff, DestroyedInitialized, android
  <1>9. CASE HandleEvent
    <2>1. /\ wire # <<>> /\ wire' = Tail(wire) /\ wire \in Seq(Message)
          /\ UNCHANGED <<user, page>>
      BY <1>9 DEF HandleEvent, TypeOK
    <2>2. Head(wire) \in Message /\ wire' \in Seq(Message)
      BY <2>1, HeadAndTail
    <2>3. down' \subseteq Keys \ HidOnly /\ hid' \subseteq Report
      <3>1. CASE InjectKey(Head(wire))
        BY <2>2, <3>1, Messages DEF InjectKey, TypeOK, KeyTypes
      <3>2. CASE UHIDCreate(Head(wire)) \/ UHIDDestroy(Head(wire))
        BY <3>2, NoKeysTyped DEF UHIDCreate, UHIDDestroy, TypeOK
      <3>3. CASE UHIDInput(Head(wire))
        BY <2>2, <3>3, Messages DEF UHIDInput, TypeOK
      <3> QED BY <1>9, <3>1, <3>2, <3>3 DEF HandleEvent
    <2> QED BY <2>1, <2>2, <2>3 DEF TypeOK, PageFollows, user, page
  <1>10. CASE UNCHANGED vars
    BY <1>10 DEF vars, user, page, android, TypeOK, PageFollows
  <1> QED BY <1>2, <1>3, <1>4, <1>5, <1>6, <1>7, <1>8, <1>9, <1>10 DEF Next

-----------------------------------------------------------------------------
(* The phone                                                               *)

\* What the first message does: a report always finds a keyboard.
LEMMA Arrival ==
  ASSUME TypeOK, InputsFollow(wire), HandleEvent
  PROVE  /\ wire # <<>> /\ wire \in Seq(Message) /\ wire' = Tail(wire) /\ wire[1] \in Message
         /\ UNCHANGED <<user, page>>
         /\ wire[1].type \in HidTypes => hid' = Leaves(wire[1]) /\ down' = down
         /\ wire[1].type \in KeyTypes =>
              /\ hid' = hid
              /\ down' = IF wire[1].type = "down" THEN down \cup {wire[1].key}
                                                  ELSE down \ {wire[1].key}
  <1>1. wire # <<>> /\ wire \in Seq(Message) /\ wire' = Tail(wire) /\ UNCHANGED <<user, page>>
    BY DEF HandleEvent, TypeOK
  <1>2. Head(wire) = wire[1] /\ wire[1] \in Message /\ 1 \in 1 .. Len(wire)
    BY <1>1, HeadAndTail
  <1>3. wire[1].type = "input" => hid # {}
    BY <1>2 DEF InputsFollow
  <1>4. CASE InjectKey(wire[1])
    BY <1>1, <1>2, <1>4 DEF InjectKey, HidTypes
  <1>5. CASE UHIDCreate(wire[1])
    BY <1>1, <1>2, <1>5 DEF UHIDCreate, Leaves, KeyTypes
  <1>6. CASE UHIDDestroy(wire[1])
    BY <1>1, <1>2, <1>6 DEF UHIDDestroy, Leaves, KeyTypes
  <1>7. CASE UHIDInput(wire[1])
    <2>1. hid' = {wire[1].report} /\ wire[1].type = "input" /\ down' = down
      BY <1>3, <1>7 DEF UHIDInput
    <2> QED BY <1>1, <1>2, <2>1 DEF Leaves, KeyTypes
  <1> QED BY <1>2, <1>4, <1>5, <1>6, <1>7 DEF HandleEvent

\* Has the phone the keyboard?
LEMMA PluggedAppended ==
  ASSUME Plugged(wire), wire \in Seq(Message), NEW m \in Message,
         wire' = Append(wire, m), hid' = hid, initialized' = initialized,
         m.type \in KeyTypes \/ (m.type = "input" /\ initialized)
  PROVE  Plugged(wire)'
  <1>1. /\ Len(wire) \in Nat /\ Len(wire') = Len(wire) + 1 /\ wire'[Len(wire) + 1] = m
        /\ \A i \in 1 .. Len(wire) : wire'[i] = wire[i]
    BY Appended
  <1>2. \A i \in 1 .. Len(wire') : i \in 1 .. Len(wire) \/ i = Len(wire) + 1
    BY <1>1
  <1>3. \A i \in 1 .. Len(wire) : i \in 1 .. Len(wire')
    BY <1>1
  <1> QED BY <1>1, <1>2, <1>3 DEF Plugged, KeyTypes

\* Reports stay behind the announcement of their keyboard, in every step.
LEMMA PluggedStep ==
  ASSUME InductiveInv, [Next]_vars
  PROVE  Plugged(wire)'
  <1>1. wire \in Seq(Message) /\ wire' \in Seq(Message) /\ pressed' \in Seq(Letters) /\ mods' \subseteq Modifiers
    BY PageStep DEF InductiveInv, TypeOK
  <1>2. CASE Quiet
    BY <1>2 DEF Quiet, page, android, InductiveInv, Plugged
  <1>3. CASE Reports
    <2>1. Input(pressed', mods') \in Message
      BY <1>1, ReportsTyped
    <2> QED BY <1>1, <1>3, <2>1, PluggedAppended DEF Reports, android, InductiveInv, Input
  <1>4. CASE Comes
    <2>1. Len(wire) \in Nat /\ Append(wire, [type |-> "destroy"]) \in Seq(Message)
      BY <1>1, Signals, Appended
    <2>2. /\ Len(wire') = Len(wire) + 2
          /\ wire'[Len(wire) + 2] = [type |-> "create"]
      BY <1>1, <1>4, <2>1, Signals, Appended DEF Comes
    <2>3. /\ Len(wire) + 2 \in 1 .. Len(wire') /\ wire'[Len(wire) + 2].type = "create"
          /\ \A i \in 1 .. Len(wire') : i < Len(wire) + 2 \/ i = Len(wire) + 2
      BY <2>1, <2>2
    <2> QED BY <1>4, <2>3 DEF Plugged, Comes
  <1>5. CASE Goes
    <2>1. /\ Len(wire) \in Nat /\ Len(wire') = Len(wire) + 1
          /\ wire'[Len(wire) + 1] = [type |-> "destroy"]
      BY <1>1, <1>5, Signals, Appended DEF Goes
    <2>2. /\ Len(wire) + 1 \in 1 .. Len(wire') /\ wire'[Len(wire) + 1].type = "destroy"
          /\ \A i \in 1 .. Len(wire') : i < Len(wire) + 1 \/ i = Len(wire) + 1
      BY <2>1
    <2> QED BY <1>5, <2>2 DEF Plugged, Goes
  <1>6. ASSUME NEW k \in Keys, NEW t \in KeyTypes, KeyMoves(k, t) PROVE Plugged(wire)'
    <2>1. [type |-> t, key |-> k] \in Message
      BY <1>6 DEF KeyMoves, Message, KeyTypes
    <2>2. wire' = Append(wire, [type |-> t, key |-> k]) /\ hid' = hid /\ initialized' = initialized
      BY <1>6 DEF KeyMoves, page, android
    <2> QED BY <1>1, <2>1, <2>2, PluggedAppended DEF InductiveInv
  <1>7. CASE HandleEvent
    <2>1. /\ wire # <<>> /\ wire' = Tail(wire) /\ wire[1] \in Message /\ initialized' = initialized
          /\ wire[1].type \in HidTypes => hid' = Leaves(wire[1])
          /\ wire[1].type \in KeyTypes => hid' = hid
      BY <1>7, Arrival DEF InductiveInv, page
    <2>2. /\ Len(wire) \in Nat /\ Len(wire) >= 1 /\ Len(wire') = Len(wire) - 1
          /\ \A i \in 1 .. Len(wire) - 1 : wire'[i] = wire[i + 1]
      BY <1>1, <2>1, HeadAndTail
    <2>3. \A i \in 1 .. Len(wire) : i = 1 \/ (i - 1 \in 1 .. Len(wire') /\ wire'[i - 1] = wire[i])
      <3>1. ASSUME NEW i \in 1 .. Len(wire), i # 1
            PROVE  i - 1 \in 1 .. Len(wire) - 1 /\ (i - 1) + 1 = i
        BY <2>2, <3>1
      <3> QED BY <2>2, <3>1
    <2>4. \A i \in 1 .. Len(wire') : i + 1 \in 1 .. Len(wire) /\ wire'[i] = wire[i + 1] /\ i >= 1
      BY <2>2
    <2>5. \A i \in 1 .. Len(wire'), j \in 1 .. Len(wire) :
            i + 1 < j => /\ j - 1 \in 1 .. Len(wire') /\ wire'[j - 1] = wire[j] /\ i < j - 1
      <3>1. ASSUME NEW i \in 1 .. Len(wire'), NEW j \in 1 .. Len(wire), i + 1 < j
            PROVE  j # 1 /\ i < j - 1
        BY <2>2, <3>1
      <3> QED BY <2>3, <3>1
    <2>6. wire[1].type \in HidTypes \cup KeyTypes
      BY <2>1, Messages
    <2>7. CASE initialized
      <3>1. /\ hid # {} \/ \E i \in 1 .. Len(wire) : wire[i].type = "create"
            /\ \A i \in 1 .. Len(wire) : wire[i].type = "destroy" =>
                 \E j \in 1 .. Len(wire) : i < j /\ wire[j].type = "create"
        BY <2>7 DEF InductiveInv, Plugged
      <3>2. ASSUME NEW i \in 1 .. Len(wire'), wire'[i].type = "destroy"
            PROVE  \E j \in 1 .. Len(wire') : i < j /\ wire'[j].type = "create"
        <4>1. i + 1 \in 1 .. Len(wire) /\ wire[i + 1].type = "destroy"
          BY <2>4, <3>2
        <4>2. PICK j \in 1 .. Len(wire) : i + 1 < j /\ wire[j].type = "create"
          BY <3>1, <4>1
        <4> QED BY <2>5, <4>2
      <3>3. hid' # {} \/ \E i \in 1 .. Len(wire') : wire'[i].type = "create"
        <4>1. CASE wire[1].type = "destroy"
          <5>1. 1 \in 1 .. Len(wire)
            BY <2>2
          <5>2. PICK j \in 1 .. Len(wire) : 1 < j /\ wire[j].type = "create"
            BY <3>1, <4>1, <5>1
          <5> QED BY <2>3, <5>2
        <4>2. CASE wire[1].type \in {"create", "input"}
          BY <2>1, <4>2 DEF Leaves, HidTypes
        <4>3. CASE wire[1].type \in KeyTypes
          BY <2>1, <2>3, <3>1, <4>3 DEF KeyTypes
        <4> QED BY <2>6, <4>1, <4>2, <4>3 DEF HidTypes
      <3> QED BY <2>1, <2>7, <3>2, <3>3 DEF Plugged
    <2>8. CASE ~initialized
      <3>1. /\ hid = {} \/ \E i \in 1 .. Len(wire) : wire[i].type = "destroy"
            /\ \A i \in 1 .. Len(wire) : wire[i].type \in {"create", "input"} =>
                 \E j \in 1 .. Len(wire) : i < j /\ wire[j].type = "destroy"
        BY <2>8 DEF InductiveInv, Plugged
      <3>2. ASSUME NEW i \in 1 .. Len(wire'), wire'[i].type \in {"create", "input"}
            PROVE  \E j \in 1 .. Len(wire') : i < j /\ wire'[j].type = "destroy"
        <4>1. i + 1 \in 1 .. Len(wire) /\ wire[i + 1].type \in {"create", "input"}
          BY <2>4, <3>2
        <4>2. PICK j \in 1 .. Len(wire) : i + 1 < j /\ wire[j].type = "destroy"
          BY <3>1, <4>1
        <4> QED BY <2>5, <4>2
      <3>3. hid' = {} \/ \E i \in 1 .. Len(wire') : wire'[i].type = "destroy"
        <4>1. CASE wire[1].type \in {"create", "input"}
          <5>1. 1 \in 1 .. Len(wire)
            BY <2>2
          <5>2. PICK j \in 1 .. Len(wire) : 1 < j /\ wire[j].type = "destroy"
            BY <3>1, <4>1, <5>1
          <5> QED BY <2>3, <5>2
        <4>2. CASE wire[1].type = "destroy"
          BY <2>1, <4>2 DEF Leaves, HidTypes
        <4>3. CASE wire[1].type \in KeyTypes
          BY <2>1, <2>3, <3>1, <4>3 DEF KeyTypes
        <4> QED BY <2>6, <4>1, <4>2, <4>3 DEF HidTypes
      <3> QED BY <2>1, <2>8, <3>2, <3>3 DEF Plugged
    <2> QED BY <2>7, <2>8
  <1> QED BY <1>2, <1>3, <1>4, <1>5, <1>6, <1>7, StepKinds DEF InductiveInv

\* Does every report find it?
LEMMA InputsFollowAppended ==
  ASSUME NEW w \in Seq(Message), NEW m \in Message, InputsFollow(w),
         m.type = "input" => /\ hid # {} \/ \E j \in 1 .. Len(w) : w[j].type = "create"
                             /\ \A j \in 1 .. Len(w) : w[j].type = "destroy" =>
                                  \E l \in 1 .. Len(w) : j < l /\ w[l].type = "create"
  PROVE  InputsFollow(Append(w, m))
  <1> DEFINE v == Append(w, m)
  <1>1. /\ Len(w) \in Nat /\ Len(v) = Len(w) + 1 /\ v[Len(w) + 1] = m
        /\ \A i \in 1 .. Len(w) : v[i] = w[i]
    BY Appended
  <1> HIDE DEF v
  <1>2. \A i \in 1 .. Len(w) : i \in 1 .. Len(v)
    BY <1>1
  <1>3. \A i, j \in 1 .. Len(v) : j < i => j \in 1 .. Len(w)
    BY <1>1
  <1>4. ASSUME NEW i \in 1 .. Len(v), v[i].type = "input"
        PROVE  /\ hid # {} \/ \E j \in 1 .. Len(v) : j < i /\ v[j].type = "create"
               /\ \A j \in 1 .. Len(v) : j < i /\ v[j].type = "destroy" =>
                    \E l \in 1 .. Len(v) : j < l /\ l < i /\ v[l].type = "create"
    <2>1. CASE i \in 1 .. Len(w)
      <3>1. /\ hid # {} \/ \E j \in 1 .. Len(w) : j < i /\ w[j].type = "create"
            /\ \A j \in 1 .. Len(w) : j < i /\ w[j].type = "destroy" =>
                 \E l \in 1 .. Len(w) : j < l /\ l < i /\ w[l].type = "create"
        BY <1>1, <1>4, <2>1 DEF InputsFollow
      <3>2. hid # {} \/ \E j \in 1 .. Len(v) : j < i /\ v[j].type = "create"
        BY <1>1, <1>2, <3>1
      <3>3. ASSUME NEW j \in 1 .. Len(v), j < i, v[j].type = "destroy"
            PROVE  \E l \in 1 .. Len(v) : j < l /\ l < i /\ v[l].type = "create"
        <4>1. j \in 1 .. Len(w) /\ w[j].type = "destroy"
          BY <1>1, <1>3, <3>3
        <4> QED BY <1>1, <1>2, <3>1, <3>3, <4>1
      <3> QED BY <3>2, <3>3
    <2>2. CASE i = Len(w) + 1
      <3>1. m.type = "input"
        BY <1>1, <1>4, <2>2
      <3>2. \A j \in 1 .. Len(w) : j < i
        BY <1>1, <2>2
      <3>3. hid # {} \/ \E j \in 1 .. Len(v) : j < i /\ v[j].type = "create"
        BY <1>1, <1>2, <3>1, <3>2
      <3>4. ASSUME NEW j \in 1 .. Len(v), j < i, v[j].type = "destroy"
            PROVE  \E l \in 1 .. Len(v) : j < l /\ l < i /\ v[l].type = "create"
        <4>1. j \in 1 .. Len(w) /\ w[j].type = "destroy"
          BY <1>1, <1>3, <3>4
        <4>2. PICK l \in 1 .. Len(w) : j < l /\ w[l].type = "create"
          BY <3>1, <4>1
        <4> QED BY <1>1, <1>2, <3>2, <4>2
      <3> QED BY <3>3, <3>4
    <2> QED BY <1>1, <2>1, <2>2
  <1>5. InputsFollow(v)
    BY <1>4 DEF InputsFollow
  <1> QED BY <1>5 DEF v

\* No report gets in front of the keyboard it is for, in every step.
LEMMA InputsFollowStep ==
  ASSUME InductiveInv, [Next]_vars
  PROVE  InputsFollow(wire)'
  <1>1. /\ wire \in Seq(Message) /\ pressed' \in Seq(Letters) /\ mods' \subseteq Modifiers
        /\ InputsFollow(wire)
    BY PageStep DEF InductiveInv, TypeOK
  <1>2. ASSUME InputsFollow(wire'), hid' = hid PROVE InputsFollow(wire)'
    BY <1>2 DEF InputsFollow
  <1>3. CASE Quiet
    BY <1>1, <1>3, <1>2 DEF Quiet, android
  <1>4. CASE Reports
    <2>1. Input(pressed', mods') \in Message
      BY <1>1, ReportsTyped
    <2>2. /\ hid # {} \/ \E i \in 1 .. Len(wire) : wire[i].type = "create"
          /\ \A i \in 1 .. Len(wire) : wire[i].type = "destroy" =>
               \E j \in 1 .. Len(wire) : i < j /\ wire[j].type = "create"
      BY <1>4 DEF Reports, InductiveInv, Plugged
    <2>3. InputsFollow(Append(wire, Input(pressed', mods')))
      BY <1>1, <2>1, <2>2, InputsFollowAppended
    <2> QED BY <1>2, <1>4, <2>3 DEF Reports, android
  <1>5. CASE Comes
    <2> DEFINE v == Append(wire, [type |-> "destroy"])
    <2>1. v \in Seq(Message) /\ InputsFollow(v)
      BY <1>1, Signals, Appended, InputsFollowAppended
    <2> HIDE DEF v
    <2>2. InputsFollow(Append(v, [type |-> "create"]))
      BY <2>1, Signals, InputsFollowAppended
    <2> QED BY <1>2, <1>5, <2>2 DEF Comes, android, v
  <1>6. CASE Goes
    <2>1. InputsFollow(Append(wire, [type |-> "destroy"]))
      BY <1>1, Signals, InputsFollowAppended
    <2> QED BY <1>2, <1>6, <2>1 DEF Goes, android
  <1>7. ASSUME NEW k \in Keys, NEW t \in KeyTypes, KeyMoves(k, t) PROVE InputsFollow(wire)'
    <2>1. [type |-> t, key |-> k] \in Message /\ t # "input"
      BY <1>7 DEF KeyMoves, Message, KeyTypes
    <2>2. InputsFollow(Append(wire, [type |-> t, key |-> k]))
      BY <1>1, <2>1, InputsFollowAppended
    <2> QED BY <1>2, <1>7, <2>2 DEF KeyMoves, android
  <1>8. CASE HandleEvent
    <2>1. /\ wire # <<>> /\ wire' = Tail(wire) /\ wire[1] \in Message
          /\ wire[1].type \in HidTypes => hid' = Leaves(wire[1])
          /\ wire[1].type \in KeyTypes => hid' = hid
      BY <1>8, Arrival DEF InductiveInv
    <2>2. /\ Len(wire) \in Nat /\ Len(wire) >= 1 /\ Len(wire') = Len(wire) - 1
          /\ \A i \in 1 .. Len(wire) - 1 : wire'[i] = wire[i + 1]
      BY <1>1, <2>1, HeadAndTail
    <2>3. ASSUME NEW i \in 1 .. Len(wire), i # 1
          PROVE  i - 1 \in 1 .. Len(wire') /\ wire'[i - 1] = wire[i]
      <3>1. i - 1 \in 1 .. Len(wire) - 1 /\ (i - 1) + 1 = i
        BY <2>2, <2>3
      <3> QED BY <2>2, <3>1
    <2>4. \A i \in 1 .. Len(wire') : i + 1 \in 1 .. Len(wire) /\ wire'[i] = wire[i + 1] /\ i + 1 # 1
      BY <2>2
    <2>5. wire[1].type \in HidTypes \cup KeyTypes /\ 1 \in 1 .. Len(wire)
      BY <2>1, <2>2, Messages
    <2>6. \A i, j \in 1 .. Len(wire) : j < i /\ j # 1 => j - 1 < i - 1
      BY <2>2
    <2>7. ASSUME NEW i \in 1 .. Len(wire'), wire'[i].type = "input"
          PROVE  /\ hid' # {} \/ \E j \in 1 .. Len(wire') : j < i /\ wire'[j].type = "create"
                 /\ \A j \in 1 .. Len(wire') : j < i /\ wire'[j].type = "destroy" =>
                      \E l \in 1 .. Len(wire') : j < l /\ l < i /\ wire'[l].type = "create"
      <3>1. /\ i + 1 \in 1 .. Len(wire) /\ wire[i + 1].type = "input" /\ (i + 1) - 1 = i
            /\ 1 < i + 1
        BY <2>2, <2>4, <2>7
      <3>2. /\ hid # {} \/ \E j \in 1 .. Len(wire) : j < i + 1 /\ wire[j].type = "create"
            /\ \A j \in 1 .. Len(wire) : j < i + 1 /\ wire[j].type = "destroy" =>
                 \E l \in 1 .. Len(wire) : j < l /\ l < i + 1 /\ wire[l].type = "create"
        BY <1>1, <3>1 DEF InputsFollow
      <3>3. ASSUME NEW j \in 1 .. Len(wire), j # 1, j < i + 1
            PROVE  j - 1 \in 1 .. Len(wire') /\ wire'[j - 1] = wire[j] /\ j - 1 < i
        BY <2>3, <2>6, <3>1, <3>3
      <3>4. hid' # {} \/ \E j \in 1 .. Len(wire') : j < i /\ wire'[j].type = "create"
        <4>1. CASE wire[1].type \in {"create", "input"}
          BY <2>1, <4>1 DEF Leaves, HidTypes
        <4>2. CASE wire[1].type = "destroy"
          <5>1. PICK l \in 1 .. Len(wire) : 1 < l /\ l < i + 1 /\ wire[l].type = "create"
            BY <2>5, <3>1, <3>2, <4>2
          <5> QED BY <3>3, <5>1
        <4>3. CASE wire[1].type \in KeyTypes
          <5>1. wire[1].type # "create" /\ hid' = hid
            BY <2>1, <4>3 DEF KeyTypes
          <5> QED BY <3>2, <3>3, <5>1
        <4> QED BY <2>5, <4>1, <4>2, <4>3 DEF HidTypes
      <3>5. ASSUME NEW j \in 1 .. Len(wire'), j < i, wire'[j].type = "destroy"
            PROVE  \E l \in 1 .. Len(wire') : j < l /\ l < i /\ wire'[l].type = "create"
        <4>1. j + 1 \in 1 .. Len(wire) /\ j + 1 < i + 1 /\ wire[j + 1].type = "destroy" /\ 1 < j + 1
          BY <2>2, <2>4, <3>5
        <4>2. PICK l \in 1 .. Len(wire) : j + 1 < l /\ l < i + 1 /\ wire[l].type = "create"
          BY <3>2, <4>1
        <4>3. l # 1 /\ j < l - 1
          BY <2>2, <4>1, <4>2
        <4> QED BY <3>3, <4>2, <4>3
      <3> QED BY <3>4, <3>5
    <2> QED BY <2>7 DEF InputsFollow
  <1> QED BY <1>3, <1>4, <1>5, <1>6, <1>7, <1>8, StepKinds DEF InductiveInv

\* What does it show?  Shown, after the step.
ShownAfter(h) ==
  IF initialized'
    THEN \/ h = {[keys |-> Fill(pressed'), mods |-> mods']}
         \/ h = {NoKeys} /\ ToSet(pressed') \cup mods' \subseteq missed'
    ELSE h = {}

\* The last message to the virtual keyboard stays what the page has, in every step.
LEMMA HidSettlesStep ==
  ASSUME InductiveInv, [Next]_vars
  PROVE  HidSettles(wire)'
  <1>1. /\ wire \in Seq(Message) /\ pressed' \in Seq(Letters) /\ mods' \subseteq Modifiers
        /\ HidSettles(wire) /\ Len(wire) \in Nat /\ ToHid(wire) \in SUBSET (1 .. Len(wire))
    BY PageStep DEF InductiveInv, TypeOK, ToHid
  \* A message to the virtual keyboard decides.
  <1>2. ASSUME NEW w \in Seq(Message), NEW m \in Message, m.type \in HidTypes,
               wire' = Append(w, m), ShownAfter(Leaves(m))
        PROVE  HidSettles(wire)'
    <2>1. ToHid(wire') = ToHid(w) \cup {Len(w) + 1} /\ wire'[Len(w) + 1] = m
      BY <1>2, PlacesAppended
    <2>2. Len(w) \in Nat /\ ToHid(w) \in SUBSET (1 .. Len(w))
      BY DEF ToHid
    <2>3. \A i \in ToHid(wire') : IsLast(i, ToHid(wire')) => i = Len(w) + 1
      BY <2>1, <2>2, LastAppended
    <2> QED BY <1>2, <2>1, <2>3 DEF HidSettles, Shown, ShownAfter
  \* Others change nothing.
  <1>3. ASSUME ToHid(wire') = ToHid(wire), \A i \in ToHid(wire) : wire'[i] = wire[i],
               hid' = hid, \A h : Shown(h) => ShownAfter(h)
        PROVE  HidSettles(wire)'
    BY <1>1, <1>3 DEF HidSettles, Shown, ShownAfter
  <1>4. CASE Quiet
    <2>1. \A h : Shown(h) => ShownAfter(h)
      BY <1>4 DEF Quiet, page, Shown, ShownAfter
    <2> QED BY <1>3, <1>4, <2>1 DEF Quiet, android
  <1>5. CASE Reports
    <2>1. Input(pressed', mods') \in Message
      BY <1>1, ReportsTyped
    <2>2. Leaves(Input(pressed', mods')) = {[keys |-> Fill(pressed'), mods |-> mods']}
      BY DEF Leaves, Input
    <2>3. ShownAfter({[keys |-> Fill(pressed'), mods |-> mods']})
      BY <1>5 DEF Reports, ShownAfter
    <2>4. Input(pressed', mods').type = "input"
      BY DEF Input
    <2>5. PICK m \in Message : m.type = "input" /\ wire' = Append(wire, m)
                               /\ Leaves(m) = {[keys |-> Fill(pressed'), mods |-> mods']}
      BY <1>5, <2>1, <2>2, <2>4 DEF Reports
    <2>6. ShownAfter(Leaves(m))
      BY <2>3, <2>5
    <2> QED BY <1>1, <1>2, <2>5, <2>6 DEF HidTypes
  <1>6. CASE Comes
    <2> DEFINE v == Append(wire, [type |-> "destroy"])
    <2>1. v \in Seq(Message) /\ wire' = Append(v, [type |-> "create"])
      BY <1>1, <1>6, Signals, Appended DEF Comes
    <2> HIDE DEF v
    <2>2. ToSet(pressed') \cup mods' \subseteq missed'
      <3>1. ToSet(pressed) \subseteq Letters /\ mods \subseteq Modifiers
        BY DEF InductiveInv, TypeOK, ToSet
      <3>2. ToSet(pressed) \cup mods \subseteq missed
        BY <1>6, <3>1 DEF Comes, InductiveInv, PageFollows, Keys
      <3> QED BY <1>6, <3>2 DEF Comes
    <2>3. ShownAfter({NoKeys})
      BY <1>6, <2>2 DEF Comes, Shown, ShownAfter
    <2>4. PICK m \in Message : wire' = Append(v, m) /\ m.type \in HidTypes /\ Leaves(m) = {NoKeys}
      BY <2>1, Signals DEF Leaves, HidTypes
    <2>5. ShownAfter(Leaves(m))
      BY <2>3, <2>4
    <2> QED BY <1>2, <2>1, <2>4, <2>5
  <1>7. CASE Goes
    <2>1. ShownAfter({})
      BY <1>7 DEF Goes, Shown, ShownAfter
    <2>2. PICK m \in Message : wire' = Append(wire, m) /\ m.type \in HidTypes /\ Leaves(m) = {}
      BY <1>7, Signals DEF Goes, Leaves, HidTypes
    <2>3. ShownAfter(Leaves(m))
      BY <2>1, <2>2
    <2> QED BY <1>1, <1>2, <2>2, <2>3
  <1>8. ASSUME NEW k \in Keys, NEW t \in KeyTypes, KeyMoves(k, t) PROVE HidSettles(wire)'
    <2>1. /\ [type |-> t, key |-> k] \in Message /\ t \notin HidTypes
          /\ wire' = Append(wire, [type |-> t, key |-> k]) /\ hid' = hid
      BY <1>8 DEF KeyMoves, Message, KeyTypes, HidTypes, android
    <2>2. \A h : Shown(h) => ShownAfter(h)
      BY <1>8 DEF KeyMoves, page, Shown, ShownAfter
    <2>3. ToHid(wire') = ToHid(wire) /\ \A i \in ToHid(wire) : wire'[i] = wire[i]
      BY <1>1, <2>1, PlacesAppended
    <2> QED BY <1>3, <2>1, <2>2, <2>3
  <1>9. CASE HandleEvent
    <2>1. /\ wire # <<>> /\ wire' = Tail(wire) /\ wire[1] \in Message /\ UNCHANGED <<user, page>>
          /\ wire[1].type \in HidTypes => hid' = Leaves(wire[1])
          /\ wire[1].type \in KeyTypes => hid' = hid
      BY <1>9, Arrival DEF InductiveInv
    <2>2. /\ Len(wire) \in Nat /\ Len(wire) >= 1
          /\ \A i : i \in ToHid(wire') <=> i \in 1 .. Len(wire) - 1 /\ i + 1 \in ToHid(wire)
          /\ 1 \in ToHid(wire) <=> wire[1].type \in HidTypes
          /\ \A i \in 1 .. Len(wire) - 1 : wire'[i] = wire[i + 1]
      BY <1>1, <2>1, PlacesOfTail, HeadAndTail
    <2>3. ToHid(wire') \in SUBSET (1 .. Len(wire) - 1)
      BY <2>2
    <2>4. /\ \A i \in ToHid(wire') : IsLast(i, ToHid(wire')) => IsLast(i + 1, ToHid(wire))
          /\ ToHid(wire') = {} => ToHid(wire) = {} \/ IsLast(1, ToHid(wire))
          /\ 1 \notin ToHid(wire) /\ ToHid(wire') = {} => ToHid(wire) = {}
      BY <1>1, <2>2, <2>3, LastOfTail
    <2>5. \A h : Shown(h) => ShownAfter(h)
      BY <2>1 DEF user, page, Shown, ShownAfter
    <2>6. ASSUME NEW i \in ToHid(wire'), IsLast(i, ToHid(wire')) PROVE ShownAfter(Leaves(wire'[i]))
      <3>1. i + 1 \in ToHid(wire) /\ IsLast(i + 1, ToHid(wire)) /\ wire'[i] = wire[i + 1]
        BY <2>2, <2>4, <2>6
      <3>2. Shown(Leaves(wire[i + 1]))
        BY <1>1, <3>1 DEF HidSettles
      <3>3. ShownAfter(Leaves(wire[i + 1]))
        BY <2>5, <3>2
      <3> QED BY <3>1, <3>3
    <2>7. ASSUME ToHid(wire') = {} PROVE ShownAfter(hid')
      <3>1. CASE 1 \in ToHid(wire)
        <4>1. IsLast(1, ToHid(wire)) /\ hid' = Leaves(wire[1])
          BY <2>1, <2>2, <2>4, <2>7, <3>1
        <4>2. Shown(Leaves(wire[1]))
          BY <1>1, <3>1, <4>1 DEF HidSettles
        <4> QED BY <2>5, <4>1, <4>2
      <3>2. CASE 1 \notin ToHid(wire)
        <4>1. ToHid(wire) = {} /\ hid' = hid
          BY <2>1, <2>2, <2>4, <2>7, <3>2, Messages
        <4>2. Shown(hid)
          BY <1>1, <4>1 DEF HidSettles
        <4> QED BY <2>5, <4>1, <4>2
      <3> QED BY <3>1, <3>2
    <2>8. \A i \in ToHid(wire') : IsLast(i, ToHid(wire')) => ShownAfter(Leaves(wire'[i]))
      BY <2>6
    <2> QED BY <2>7, <2>8 DEF HidSettles, Shown, ShownAfter
  <1> QED BY <1>4, <1>5, <1>6, <1>7, <1>8, <1>9, StepKinds DEF InductiveInv

\* Which keys are injected?  A page that uses the virtual keyboard, or changes over,
\* has none down that it has seen.
LEMMA KeysSettleStep ==
  ASSUME InductiveInv, [Next]_vars
  PROVE  KeysSettle(wire)'
  <1>1. /\ wire \in Seq(Message) /\ pressed' \in Seq(Letters) /\ mods' \subseteq Modifiers
        /\ KeysSettle(wire) /\ Len(wire) \in Nat
        /\ \A k : OnKey(wire, k) \in SUBSET (1 .. Len(wire))
    BY PageStep DEF InductiveInv, TypeOK, OnKey
  \* Nothing about a key.
  <1>2. ASSUME missed \subseteq missed', down' = down,
               \A k : OnKey(wire', k) = OnKey(wire, k),
               \A k : \A i \in OnKey(wire, k) : wire'[i] = wire[i],
               \A k \in Keys \ (missed' \cup HidOnly) : Typed(k)' <=> Typed(k)
        PROVE  KeysSettle(wire)'
    <2> SUFFICES ASSUME NEW k \in Keys \ (missed' \cup HidOnly)
                 PROVE  /\ OnKey(wire', k) = {} => (k \in down' <=> Typed(k)')
                        /\ \A i \in OnKey(wire', k) :
                             IsLast(i, OnKey(wire', k)) => (wire'[i].type = "down" <=> Typed(k)')
      BY DEF KeysSettle
    <2>1. /\ OnKey(wire, k) = {} => (k \in down <=> Typed(k))
          /\ \A i \in OnKey(wire, k) : IsLast(i, OnKey(wire, k)) => (wire[i].type = "down" <=> Typed(k))
      BY <1>1, <1>2 DEF KeysSettle
    <2> QED BY <1>2, <2>1
  <1>3. CASE Quiet
    BY <1>2, <1>3 DEF Quiet, android
  <1>4. CASE Reports
    <2>1. Input(pressed', mods') \in Message /\ Input(pressed', mods').type \notin KeyTypes
      BY <1>1, ReportsTyped DEF Input, KeyTypes
    <2>2. /\ \A k : OnKey(wire', k) = OnKey(wire, k)
          /\ \A k : \A i \in OnKey(wire, k) : wire'[i] = wire[i]
      BY <1>1, <1>4, <2>1, PlacesAppended DEF Reports
    <2> QED BY <1>2, <1>4, <2>2 DEF Reports, Typed, android
  <1>5. CASE Comes
    <2> DEFINE v == Append(wire, [type |-> "destroy"])
    <2>1. /\ v \in Seq(Message) /\ wire' = Append(v, [type |-> "create"])
          /\ [type |-> "destroy"].type \notin KeyTypes /\ [type |-> "create"].type \notin KeyTypes
      BY <1>1, <1>5, Signals, Appended DEF Comes, KeyTypes
    <2>2. /\ \A k : OnKey(v, k) = OnKey(wire, k)
          /\ \A k : \A i \in OnKey(wire, k) : v[i] = wire[i]
      BY <1>1, <2>1, Signals, PlacesAppended
    <2> HIDE DEF v
    <2>3. /\ \A k : OnKey(wire', k) = OnKey(v, k)
          /\ \A k : \A i \in OnKey(v, k) : wire'[i] = v[i]
      BY <2>1, Signals, PlacesAppended
    <2>4. \A k \in Keys \ (missed' \cup HidOnly) : Typed(k)' <=> Typed(k)
      BY <1>5 DEF Comes, Typed
    <2> QED BY <1>2, <1>5, <2>2, <2>3, <2>4 DEF Comes, android
  <1>6. CASE Goes
    <2>1. wire' = Append(wire, [type |-> "destroy"]) /\ [type |-> "destroy"].type \notin KeyTypes
      BY <1>6 DEF Goes, KeyTypes
    <2>2. /\ \A k : OnKey(wire', k) = OnKey(wire, k)
          /\ \A k : \A i \in OnKey(wire, k) : wire'[i] = wire[i]
      BY <1>1, <2>1, Signals, PlacesAppended
    <2>3. \A k \in Keys \ (missed' \cup HidOnly) : Typed(k)' <=> Typed(k)
      BY <1>6 DEF Goes, Typed
    <2> QED BY <1>2, <1>6, <2>2, <2>3 DEF Goes, android
  <1>7. ASSUME NEW k \in Keys, NEW t \in KeyTypes, KeyMoves(k, t) PROVE KeysSettle(wire)'
    <2>1. /\ UNCHANGED <<missed, enabled, down>> /\ ~enabled /\ (t = "down" <=> k \in held')
          /\ \A j \in Keys : j # k => (j \in held' <=> j \in held)
      BY <1>7 DEF KeyMoves, page, android
    <2>2. PICK m \in Message : wire' = Append(wire, m) /\ m.type = t /\ m.key = k
      BY <1>7 DEF KeyMoves, Message, KeyTypes
    <2>3. /\ OnKey(wire', k) = OnKey(wire, k) \cup {Len(wire) + 1} /\ wire'[Len(wire) + 1] = m
          /\ \A j : j # k => OnKey(wire', j) = OnKey(wire, j)
          /\ \A j : \A i \in OnKey(wire, j) : wire'[i] = wire[i]
      BY <1>1, <2>2, PlacesAppended
    <2> SUFFICES ASSUME NEW j \in Keys \ (missed' \cup HidOnly)
                 PROVE  /\ OnKey(wire', j) = {} => (j \in down' <=> Typed(j)')
                        /\ \A i \in OnKey(wire', j) :
                             IsLast(i, OnKey(wire', j)) => (wire'[i].type = "down" <=> Typed(j)')
      BY DEF KeysSettle
    <2>4. CASE j = k
      <3>1. \A i \in OnKey(wire', k) : IsLast(i, OnKey(wire', k)) => i = Len(wire) + 1
        BY <1>1, <2>3, LastAppended
      <3>2. wire'[Len(wire) + 1].type = "down" <=> Typed(k)'
        BY <2>1, <2>2, <2>3 DEF Typed
      <3> QED BY <2>3, <2>4, <3>1, <3>2
    <2>5. CASE j # k
      <3>1. Typed(j)' <=> Typed(j)
        BY <2>1, <2>5 DEF Typed
      <3>2. /\ OnKey(wire, j) = {} => (j \in down <=> Typed(j))
            /\ \A i \in OnKey(wire, j) : IsLast(i, OnKey(wire, j)) => (wire[i].type = "down" <=> Typed(j))
        BY <1>1, <2>1 DEF KeysSettle
      <3>3. OnKey(wire', j) = OnKey(wire, j)
        BY <2>3, <2>5
      <3> QED BY <2>1, <2>3, <3>1, <3>2, <3>3
    <2> QED BY <2>4, <2>5
  <1>8. CASE HandleEvent
    <2>1. /\ wire # <<>> /\ wire' = Tail(wire) /\ wire[1] \in Message /\ UNCHANGED <<user, page>>
          /\ wire[1].type \in HidTypes => down' = down
          /\ wire[1].type \in KeyTypes =>
               down' = IF wire[1].type = "down" THEN down \cup {wire[1].key} ELSE down \ {wire[1].key}
      BY <1>8, Arrival DEF InductiveInv
    <2>2. wire[1].type \in HidTypes \cup KeyTypes
      BY <2>1, Messages
    <2>3. Len(wire) >= 1 /\ \A i \in 1 .. Len(wire) - 1 : wire'[i] = wire[i + 1]
      BY <1>1, <2>1, HeadAndTail
    <2> SUFFICES ASSUME NEW k \in Keys \ (missed' \cup HidOnly)
                 PROVE  /\ OnKey(wire', k) = {} => (k \in down' <=> Typed(k)')
                        /\ \A i \in OnKey(wire', k) :
                             IsLast(i, OnKey(wire', k)) => (wire'[i].type = "down" <=> Typed(k)')
      BY DEF KeysSettle
    <2>4. /\ \A i : i \in OnKey(wire', k) <=> i \in 1 .. Len(wire) - 1 /\ i + 1 \in OnKey(wire, k)
          /\ 1 \in OnKey(wire, k) <=> wire[1].type \in KeyTypes /\ wire[1].key = k
      BY <1>1, <2>1, PlacesOfTail
    <2>5. OnKey(wire', k) \in SUBSET (1 .. Len(wire) - 1)
      BY <2>4
    <2>6. /\ \A i \in OnKey(wire', k) : IsLast(i, OnKey(wire', k)) => IsLast(i + 1, OnKey(wire, k))
          /\ OnKey(wire', k) = {} => OnKey(wire, k) = {} \/ IsLast(1, OnKey(wire, k))
          /\ 1 \notin OnKey(wire, k) /\ OnKey(wire', k) = {} => OnKey(wire, k) = {}
      BY <1>1, <2>3, <2>4, <2>5, LastOfTail
    <2>7. Typed(k)' <=> Typed(k)
      BY <2>1 DEF user, page, Typed
    <2>8. /\ OnKey(wire, k) = {} => (k \in down <=> Typed(k))
          /\ \A i \in OnKey(wire, k) : IsLast(i, OnKey(wire, k)) => (wire[i].type = "down" <=> Typed(k))
      BY <1>1, <2>1 DEF KeysSettle, user
    <2>9. ASSUME NEW i \in OnKey(wire', k), IsLast(i, OnKey(wire', k))
          PROVE  wire'[i].type = "down" <=> Typed(k)'
      BY <2>3, <2>4, <2>6, <2>7, <2>8, <2>9
    <2>10. ASSUME OnKey(wire', k) = {} PROVE k \in down' <=> Typed(k)'
      <3>1. CASE 1 \in OnKey(wire, k)
        <4>1. wire[1].type = "down" <=> Typed(k)
          BY <2>6, <2>8, <2>10, <3>1
        <4>2. k \in down' <=> wire[1].type = "down"
          BY <2>1, <2>4, <3>1
        <4> QED BY <2>7, <4>1, <4>2
      <3>2. CASE 1 \notin OnKey(wire, k)
        <4>1. k \in down <=> Typed(k)
          BY <2>6, <2>8, <2>10, <3>2
        <4>2. k \in down' <=> k \in down
          BY <2>1, <2>2, <2>4, <3>2
        <4> QED BY <2>7, <4>1, <4>2
      <3> QED BY <3>1, <3>2
    <2> QED BY <2>9, <2>10
  <1> QED BY <1>3, <1>4, <1>5, <1>6, <1>7, <1>8, StepKinds DEF InductiveInv

-----------------------------------------------------------------------------
(* The theorems                                                            *)

\* The whole invariant, when the page has been opened.
LEMMA InvariantStart == Init => InductiveInv
  <1> SUFFICES ASSUME Init PROVE InductiveInv
    OBVIOUS
  <1>1. wire = <<>> /\ Len(wire) = 0 /\ hid = {} /\ down = {} /\ held = {} /\ ~initialized
    BY DEF Init
  <1>2. ToHid(wire) = {} /\ \A k : OnKey(wire, k) = {}
    BY <1>1 DEF ToHid, OnKey
  <1>3. Plugged(wire) /\ InputsFollow(wire)
    BY <1>1 DEF Plugged, InputsFollow
  <1>4. HidSettles(wire) /\ KeysSettle(wire)
    BY <1>1, <1>2 DEF HidSettles, KeysSettle, Shown, Typed
  <1> QED BY <1>3, <1>4, PageStart DEF InductiveInv

\* Whatever the user types, toggles and leaves, and however far behind the phone is,
\* the messages under way lead it to where the page believes it to be.
THEOREM KeyboardInvariant == Spec => []InductiveInv
  <1>1. InductiveInv /\ [Next]_vars => InductiveInv'
    <2> SUFFICES ASSUME InductiveInv, [Next]_vars PROVE InductiveInv'
      OBVIOUS
    <2>1. PageFollows' /\ TypeOK'
      BY PageStep DEF InductiveInv
    <2> QED BY <2>1, PluggedStep, InputsFollowStep, HidSettlesStep, KeysSettleStep DEF InductiveInv
  <1> QED BY <1>1, InvariantStart, PTL DEF Spec

\* The phone has the virtual keyboard exactly when the page believes so.
THEOREM DeviceFollows == Spec => []HidDeviceFollows
  <1>1. InductiveInv => HidDeviceFollows
    <2> SUFFICES ASSUME InductiveInv, Drained PROVE hid # {} <=> initialized
      BY DEF HidDeviceFollows
    <2>1. Len(wire) = 0
      BY DEF Drained
    <2> QED BY <2>1 DEF InductiveInv, Plugged
  <1> QED BY <1>1, KeyboardInvariant, PTL

\* No report arrives at a phone without a virtual keyboard.
THEOREM ReportsArrive == Spec => []InputHasDevice
  <1>1. InductiveInv => InputHasDevice
    BY DEF InductiveInv, InputsFollow, InputHasDevice
  <1> QED BY <1>1, KeyboardInvariant, PTL

\* While the page is in the background no key of the virtual keyboard stays down.
THEOREM BackgroundIsQuiet == Spec => []BlurReleases
  <1>1. InductiveInv => BlurReleases
    <2> SUFFICES ASSUME InductiveInv, Drained, ~focus PROVE hid \subseteq {NoKeys}
      BY DEF BlurReleases
    <2>1. Len(wire) = 0
      BY DEF Drained
    <2>2. Shown(hid)
      BY <2>1 DEF InductiveInv, HidSettles, ToHid
    <2>3. CASE ~initialized
      BY <2>2, <2>3 DEF Shown
    <2>4. CASE initialized
      <3>1. pressed = <<>> /\ mods = {}
        BY <2>4 DEF InductiveInv, PageFollows
      <3>2. Fill(<<>>) = {}
        BY KeyboardAssumption DEF Fill
      <3> QED BY <2>2, <2>4, <3>1, <3>2 DEF Shown, NoKeys
    <2> QED BY <2>3, <2>4
  <1> QED BY <1>1, KeyboardInvariant, PTL

\* When every message has arrived the apps see the keys the user holds, as far as the
\* page has seen them go down and up and the report has room.
THEOREM HeldIsDown == Spec => []WhatIsHeldIsDown
  <1>1. InductiveInv => WhatIsHeldIsDown
    <2> SUFFICES ASSUME InductiveInv, Drained, Len(pressed) <= ReportKeys,
                        NEW k \in Keys \ missed, enabled \/ k \notin HidOnly
                 PROVE  k \in held <=> k \in DownForApps
      BY DEF WhatIsHeldIsDown
    <2>1. Len(wire) = 0
      BY DEF Drained
    <2>2. CASE ~enabled
      <3>1. OnKey(wire, k) = {}
        BY <2>1 DEF OnKey
      <3>2. k \in down <=> k \in held
        BY <2>2, <3>1 DEF InductiveInv, KeysSettle, Typed
      <3> QED BY <2>2, <3>2 DEF DownForApps
    <2>3. CASE enabled
      <3>1. Shown(hid) /\ initialized
        BY <2>1, <2>3 DEF InductiveInv, HidSettles, ToHid, PageFollows
      <3>2. k \in held <=> k \in ToSet(pressed) \cup mods
        BY <2>3 DEF InductiveInv, PageFollows
      <3>3. Fill(pressed) = ToSet(pressed)
        <4>1. pressed \in Seq(Letters) /\ mods \in SUBSET Modifiers
          BY DEF InductiveInv, TypeOK
        <4> QED BY <4>1, ReportsTyped
      <3>4. CASE hid = {[keys |-> Fill(pressed), mods |-> mods]}
        <4>1. DownForApps = ToSet(pressed) \cup mods
          BY <2>3, <3>3, <3>4 DEF DownForApps
        <4> QED BY <3>2, <4>1
      <3>5. CASE hid = {NoKeys} /\ ToSet(pressed) \cup mods \subseteq missed
        <4>1. DownForApps = {}
          BY <2>3, <3>5 DEF DownForApps, NoKeys
        <4> QED BY <3>2, <3>5, <4>1
      <3> QED BY <3>1, <3>4, <3>5 DEF Shown
    <2> QED BY <2>2, <2>3
  <1> QED BY <1>1, KeyboardInvariant, PTL
=============================================================================
