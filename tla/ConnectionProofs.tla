-------------------------- MODULE ConnectionProofs ---------------------------
(***************************************************************************)
(* What is proved of what passes between a session and its device, for any *)
(* scenario.                                                               *)
(*                                                                         *)
(* The sound is stamped with the real time, and regularly.                 *)
(*                                                                         *)
(* The units of a Linux session's encoder are sent whole, whatever pieces  *)
(* the pipe delivers them in; what the agent gets of them can be decoded;  *)
(* and a picture that is sent in place outlasts the reads behind it.       *)
(*                                                                         *)
(* An event of the page becomes one packet, which the device reads as the  *)
(* user meant it; two goroutines write packets to one connection, and the  *)
(* reader finds each of them; and the keys of a Linux session follow those *)
(* of the page.                                                            *)
(***************************************************************************)
EXTENDS Connection, FiniteSetTheorems, WellFoundedInduction, SequenceTheorems, TLAPS

-----------------------------------------------------------------------------
(* Remainders                                                              *)

\* Quotient and remainder.
LEMMA Division ==
  ASSUME NEW a \in Int, NEW d \in Nat \ {0}
  PROVE  /\ a \div d \in Int /\ a % d \in Int /\ 0 <= a % d /\ a % d < d
         /\ a = d * (a \div d) + (a % d)
  OBVIOUS

\* A remainder is the only one.
LEMMA Remainder ==
  ASSUME NEW a \in Int, NEW d \in Nat \ {0}, NEW q \in Int, NEW r \in Int, 0 <= r, r < d,
         a = d * q + r
  PROVE  a % d = r
  <1> DEFINE k == a \div d
             s == a % d
  <1>1. k \in Int /\ s \in Int /\ 0 <= s /\ s < d /\ a = d * k + s
    BY Division
  <1> HIDE DEF k, s
  <1>2. d * (k - q) = r - s
    BY <1>1
  <1>3. ASSUME NEW m \in Int, m >= 1 PROVE d * m >= d
    BY <1>3
  <1>4. ASSUME k - q >= 1 PROVE FALSE
    BY <1>1, <1>2, <1>3, <1>4
  <1>5. ASSUME k - q <= -1 PROVE FALSE
    <2>1. d * (q - k) >= d
      BY <1>1, <1>3, <1>5
    <2>2. d * (q - k) = s - r
      BY <1>1, <1>2
    <2> QED BY <1>1, <2>1, <2>2
  <1>6. k = q
    BY <1>1, <1>4, <1>5
  <1>7. s = r
    BY <1>1, <1>6
  <1> QED BY <1>7 DEF s

\* Rounds do not count.
LEMMA SameRemainder ==
  ASSUME NEW a \in Int, NEW b \in Int, NEW d \in Nat \ {0}, NEW q \in Int, a = b + d * q
  PROVE  a % d = b % d
  <1> DEFINE k == b \div d
             s == b % d
  <1>1. k \in Int /\ s \in Int /\ 0 <= s /\ s < d /\ b = d * k + s
    BY Division
  <1> HIDE DEF k, s
  <1>2. a = d * (k + q) + s /\ k + q \in Int
    BY <1>1
  <1>3. a % d = s
    BY <1>1, <1>2, Remainder
  <1> QED BY <1>3 DEF s

-----------------------------------------------------------------------------
(* RTP times                                                               *)

\* What is assumed of the times.
LEMMA Constants ==
  /\ Frame \in Nat \ {0} /\ Drift \in Nat \ {0} /\ RtpWrap \in Nat \ {0} /\ RtpWrap > 2 * Drift
  BY ClockAssumption

\* Two times that differ by no more than Drift are that near.
LEMMA Near ==
  ASSUME NEW a \in RtpTime, NEW b \in RtpTime, -Drift <= a - b, a - b <= Drift
  PROVE  Apart(a, b) <= Drift
  <1>1. a \in Int /\ b \in Int /\ 0 <= a /\ a < RtpWrap /\ 0 <= b /\ b < RtpWrap
    BY Constants DEF RtpTime
  <1> DEFINE x == (a - b) % RtpWrap
             y == (b - a) % RtpWrap
  <1>2. x \in Int /\ y \in Int /\ Apart(a, b) = IF x <= y THEN x ELSE y
    BY <1>1, Constants, Division DEF Apart
  <1>3. CASE a >= b
    <2>1. x = a - b
      <3>1. a - b = RtpWrap * 0 + (a - b) /\ 0 <= a - b /\ a - b < RtpWrap
        BY <1>1, <1>3, Constants
      <3> QED BY <1>1, <3>1, Constants, Remainder
    <2> HIDE DEF x, y
    <2> QED BY <1>1, <1>2, <2>1, Constants
  <1>4. CASE b >= a
    <2>1. y = b - a
      <3>1. b - a = RtpWrap * 0 + (b - a) /\ 0 <= b - a /\ b - a < RtpWrap
        BY <1>1, <1>4, Constants
      <3> QED BY <1>1, <3>1, Constants, Remainder
    <2> HIDE DEF x, y
    <2> QED BY <1>1, <1>2, <2>1, Constants
  <1> QED BY <1>1, <1>3, <1>4

\* A packet recorded at r and taken at t, by a clock that says c: the wide
\* comparison finds the clock off only near the end of a round.
LEMMA OffNearWrap ==
  ASSUME NEW t \in Nat, NEW r \in Int, NEW c \in RtpTime, 0 <= t - r, t - r <= Drift,
         (c - r) % RtpWrap <= Drift, Off((t % RtpWrap) - c)
  PROVE  NearWrap(t)
  <1> DEFINE n == t % RtpWrap
             k == t \div RtpWrap
             e == (c - r) % RtpWrap
             m == (c - r) \div RtpWrap
  <1>1. n \in Int /\ k \in Int /\ 0 <= n /\ n < RtpWrap /\ t = RtpWrap * k + n
    BY Constants, Division
  <1>2. c \in Int /\ 0 <= c /\ c < RtpWrap
    BY Constants DEF RtpTime
  <1>3. e \in Int /\ m \in Int /\ 0 <= e /\ e <= Drift /\ c - r = RtpWrap * m + e
    BY <1>2, Constants, Division
  <1> HIDE DEF n, k, e, m
  <1> DEFINE delta == (t - r) - e
             j == -(m + k)
  <1>4. delta \in Int /\ -Drift <= delta /\ delta <= Drift
    BY <1>3, Constants
  <1>5. j \in Int /\ n - c = delta + RtpWrap * j
    BY <1>1, <1>2, <1>3, Constants
  <1>6. n - c > Drift \/ n - c < -Drift
    BY DEF Off, n
  <1> HIDE DEF delta, j
  <1>7. n <= Drift \/ n >= RtpWrap - Drift
    <2>1. CASE j = 0
      BY <1>1, <1>2, <1>4, <1>5, <1>6, <2>1, Constants
    <2>2. CASE j >= 1
      <3>1. RtpWrap * j >= RtpWrap
        BY <1>5, <2>2, Constants
      <3> QED BY <1>1, <1>2, <1>4, <1>5, <3>1, Constants
    <2>3. CASE j <= -1
      <3>1. RtpWrap * j <= -RtpWrap
        <4>1. RtpWrap * (-j) >= RtpWrap
          BY <1>5, <2>3, Constants
        <4> QED BY <1>5, <4>1, Constants
      <3> QED BY <1>1, <1>2, <1>4, <1>5, <3>1, Constants
    <2> QED BY <1>5, <2>1, <2>2, <2>3
  <1>8. (n - 0) % RtpWrap = n
    <2>1. n - 0 = RtpWrap * 0 + n
      BY <1>1, Constants
    <2> QED BY <1>1, <2>1, Constants, Remainder
  <1>9. (0 - n) % RtpWrap = IF n = 0 THEN 0 ELSE RtpWrap - n
    <2>1. CASE n = 0
      <3>1. 0 - n = RtpWrap * 0 + 0 /\ 0 < RtpWrap
        BY <2>1, Constants
      <3> QED BY <1>1, <2>1, <3>1, Constants, Remainder
    <2>2. CASE n # 0
      <3>1. 0 - n = RtpWrap * (-1) + (RtpWrap - n) /\ 0 <= RtpWrap - n /\ RtpWrap - n < RtpWrap
        BY <1>1, <2>2, Constants
      <3> QED BY <1>1, <2>2, <3>1, Constants, Remainder
    <2> QED BY <2>1, <2>2
  <1>10. Apart(n, 0) <= Drift
    BY <1>1, <1>7, <1>8, <1>9, Constants DEF Apart
  <1> QED BY <1>10 DEF NearWrap, n

-----------------------------------------------------------------------------
(* The sound, one lemma per action that is not obvious                     *)

\* When the next packet was recorded is a time of the device's clock.
LEMMA RecordedTyped ==
  ASSUME AudioTypeOK
  PROVE  /\ InLine \in Nat /\ Recorded \in Int /\ Stamped \in Int /\ realLocalRTP \in RtpTime
         /\ InLine >= 1 => 0 <= now - Recorded
  <1>1. now \in Nat /\ incoming \in Nat /\ audioChan \in Nat
    BY DEF AudioTypeOK
  <1>2. InLine \in Nat
    BY <1>1 DEF InLine
  <1>3. now % Frame \in Int /\ 0 <= now % Frame /\ now % RtpWrap \in RtpTime
    BY <1>1, Constants, Division DEF RtpTime
  <1>4. Frame * (InLine - 1) \in Int /\ (InLine >= 1 => Frame * (InLine - 1) >= 0)
    BY <1>2, Constants
  <1>5. Recorded \in Int
    BY <1>1, <1>3, <1>4 DEF Recorded
  <1>6. Stamped \in Int
    BY <1>5, Constants DEF Stamped
  <1>7. InLine >= 1 => 0 <= now - Recorded
    BY <1>1, <1>3, <1>4 DEF Recorded
  <1> QED BY <1>2, <1>3, <1>5, <1>6, <1>7 DEF realLocalRTP

\* Steps that keep the number of packets in line, and the agent out of it.
LEMMA AudioSame ==
  ASSUME AudioInv, AudioTypeOK', UNCHANGED <<clock, sample, audioServing, late>>,
         Recorded' = Recorded
  PROVE  AudioInv'
  <1>1. ClockFollows'
    BY DEF AudioInv, ClockFollows, Stamped
  <1>2. AudioRegular'
    BY DEF AudioInv, AudioRegular
  <1> QED BY <1>1, <1>2 DEF AudioInv

\* A new packet was recorded now, and all before it stay where they were.
LEMMA TickKeeps ==
  ASSUME AudioInv, Tick
  PROVE  AudioInv'
  <1>1. /\ AudioTypeOK /\ now \in Nat /\ incoming \in Nat /\ audioChan \in Nat /\ InLine \in Nat
        /\ now' = now + 1 /\ incoming' = (IF (now + 1) % Frame = 0 THEN incoming + 1 ELSE incoming)
        /\ UNCHANGED <<apc, audioChan, clock, sample, audioServing, late>>
    BY RecordedTyped DEF AudioInv, AudioTypeOK, Tick
  <1> DEFINE q == now \div Frame
             r == now % Frame
  <1>2. q \in Int /\ r \in Int /\ 0 <= r /\ r < Frame /\ now = Frame * q + r
    BY <1>1, Constants, Division
  <1>3. Recorded = now - r - Frame * (InLine - 1) /\ Recorded' = (now + 1) - ((now + 1) % Frame) - Frame * (InLine' - 1)
    BY <1>1 DEF Recorded
  <1>4. InLine' = IF (now + 1) % Frame = 0 THEN InLine + 1 ELSE InLine
    BY <1>1 DEF InLine
  <1> HIDE DEF q, r
  <1>5. ASSUME r + 1 = Frame PROVE Recorded' = Recorded
    <2>1. now + 1 = Frame * (q + 1) + 0
      BY <1>1, <1>2, <1>5, Constants
    <2>2. (now + 1) % Frame = 0
      BY <1>1, <1>2, <2>1, Constants, Remainder
    <2>3. Frame * ((InLine + 1) - 1) = Frame * (InLine - 1) + Frame /\ Frame * (InLine - 1) \in Int
      BY <1>1, Constants
    <2> QED BY <1>1, <1>2, <1>3, <1>4, <1>5, <2>2, <2>3, Constants
  <1>6. ASSUME r + 1 < Frame PROVE Recorded' = Recorded
    <2>1. now + 1 = Frame * q + (r + 1)
      BY <1>1, <1>2, Constants
    <2>2. (now + 1) % Frame = r + 1
      BY <1>1, <1>2, <1>6, <2>1, Constants, Remainder
    <2>3. (now + 1) % Frame # 0 /\ Frame * (InLine - 1) \in Int
      BY <1>1, <1>2, <2>2, Constants
    <2> QED BY <1>1, <1>2, <1>3, <1>4, <2>2, <2>3
  <1>7. Recorded' = Recorded
    BY <1>2, <1>5, <1>6, Constants
  <1>8. AudioTypeOK'
    <2>1. now' \in Nat /\ incoming' \in Nat /\ audioChan' \in Nat /\ late' \in BOOLEAN
      BY <1>1 DEF AudioTypeOK
    <2>2. sample' = {} \/ \E s \in [rtp : RtpTime, at : 0 .. now', jump : BOOLEAN] : sample' = {s}
      <3>1. [rtp : RtpTime, at : 0 .. now, jump : BOOLEAN] \subseteq [rtp : RtpTime, at : 0 .. now', jump : BOOLEAN]
        BY <1>1
      <3> QED BY <1>1, <3>1 DEF AudioTypeOK
    <2> QED BY <1>1, <2>1, <2>2 DEF AudioTypeOK
  <1> QED BY <1>1, <1>7, <1>8, AudioSame

\* A packet goes to the agent: the clock is the real time's or near it.
LEMMA TakeKeeps ==
  ASSUME AudioInv, TakeAudio
  PROVE  AudioInv'
  <1>1. /\ AudioTypeOK /\ ClockFollows /\ audioServing /\ sample = {} /\ audioChan > 0
        /\ audioChan' = audioChan - 1 /\ clock' = Stamps
        /\ sample' = {[rtp |-> s, at |-> now, jump |-> clock \notin {{}, {s}}] : s \in Stamps}
        /\ late' = (late \/ now - Recorded > Drift)
        /\ UNCHANGED <<now, incoming, apc, audioServing>>
    BY DEF AudioInv, TakeAudio
  <1>2. /\ now \in Nat /\ incoming \in Nat /\ audioChan \in Nat /\ InLine \in Nat /\ Recorded \in Int
        /\ realLocalRTP \in RtpTime /\ late \in BOOLEAN /\ (clock = {} \/ \E c \in RtpTime : clock = {c})
    BY <1>1, RecordedTyped DEF AudioTypeOK
  <1>3. InLine >= 1 /\ InLine' = InLine - 1
    BY <1>1, <1>2 DEF InLine
  <1>4. 0 <= now - Recorded
    BY <1>1, <1>3, RecordedTyped
  <1>5. Recorded' = Recorded + Frame
    <2>1. Frame * ((InLine - 1) - 1) = Frame * (InLine - 1) - Frame /\ Frame * (InLine - 1) \in Int
      BY <1>2, Constants
    <2>2. now % Frame \in Int
      BY <1>2, Constants, Division
    <2> QED BY <1>1, <1>2, <1>3, <2>1, <2>2, Constants DEF Recorded
  <1>6. PICK s \in RtpTime :
          /\ Stamps = {s}
          /\ \/ s = realLocalRTP
             \/ clock = {s} /\ ~Off(realLocalRTP - s)
          /\ clock \notin {{}, {s}} => \E c \in RtpTime : clock = {c} /\ Off(realLocalRTP - c)
    <2>1. CASE clock = {}
      BY <1>2, <2>1 DEF Stamps
    <2>2. ASSUME NEW c \in RtpTime, clock = {c}
          PROVE  Stamps = {IF Off(realLocalRTP - c) THEN realLocalRTP ELSE c}
      BY <2>2 DEF Stamps
    <2> QED BY <1>2, <2>1, <2>2
  <1>7. sample' = {[rtp |-> s, at |-> now, jump |-> clock \notin {{}, {s}}]} /\ clock' = {s}
    BY <1>1, <1>6
  <1>8. s \in Int /\ realLocalRTP \in Int
    BY <1>2, <1>6, Constants DEF RtpTime
  <1>9. -Drift <= s - realLocalRTP /\ s - realLocalRTP <= Drift
    BY <1>6, <1>8, Constants DEF Off
  <1>10. AudioTypeOK'
    <2>1. [rtp |-> s, at |-> now, jump |-> clock \notin {{}, {s}}] \in [rtp : RtpTime, at : 0 .. now, jump : BOOLEAN]
      BY <1>2
    <2>2. now' \in Nat /\ incoming' \in Nat /\ audioChan' \in Nat
      BY <1>1, <1>2
    <2>3. late' \in BOOLEAN /\ apc' \in {"off", "header", "send", "ended"}
      BY <1>1 DEF AudioTypeOK
    <2> QED BY <1>1, <1>7, <2>1, <2>2, <2>3 DEF AudioTypeOK
  <1>11. AudioRegular'
    <2>1. realLocalRTP = now % RtpWrap
      BY DEF realLocalRTP
    <2>2. Apart(s, now % RtpWrap) <= Drift
      BY <1>2, <1>9, <2>1, Near
    <2>3. ASSUME clock \notin {{}, {s}}, ~late' PROVE NearWrap(now)
      <3>1. PICK c \in RtpTime : clock = {c} /\ Off(realLocalRTP - c)
        BY <1>6, <2>3
      <3>2. ~late /\ ~(now - Recorded > Drift)
        BY <1>1, <2>3, Zenon
      <3>3. (c - Stamped) % RtpWrap <= Drift /\ Stamped = Recorded
        BY <1>1, <1>2, <3>1, <3>2 DEF ClockFollows, Stamped
      <3>4. now - Recorded <= Drift
        BY <1>2, <3>2, Constants
      <3>5. Off((now % RtpWrap) - c)
        BY <2>1, <3>1
      <3> QED BY <1>2, <1>4, <3>3, <3>4, <3>5, OffNearWrap
    <2>4. \A x \in sample' : x = [rtp |-> s, at |-> now, jump |-> clock \notin {{}, {s}}]
      BY <1>7
    <2>5. ASSUME NEW x \in sample'
          PROVE  Apart(x.rtp, x.at % RtpWrap) <= Drift /\ (x.jump => late' \/ NearWrap(x.at))
      <3>1. x.rtp = s /\ x.at = now /\ x.jump = (clock \notin {{}, {s}})
        BY <2>4
      <3> QED BY <2>2, <2>3, <3>1
    <2> QED BY <2>5 DEF AudioRegular
  <1>12. ClockFollows'
    <2> SUFFICES ASSUME ~late' PROVE (s - Stamped') % RtpWrap <= Drift
      BY <1>7 DEF ClockFollows
    <2>1. ~late /\ ~(now - Recorded > Drift)
      BY <1>1, Zenon
    <2>2. Stamped' = Recorded
      <3>1. sample' # {} /\ Stamped' = Recorded' - (IF sample' = {} THEN 0 ELSE Frame)
        BY <1>7 DEF Stamped
      <3> QED BY <1>2, <1>5, <3>1, Constants
    <2>3. CASE s = realLocalRTP
      <3> DEFINE k == now \div RtpWrap
      <3>1. k \in Int /\ now = RtpWrap * k + s
        BY <1>2, <2>3, Constants, Division DEF realLocalRTP
      <3> HIDE DEF k
      <3>2. s - Recorded = RtpWrap * (-k) + (now - Recorded) /\ -k \in Int
        BY <1>2, <1>8, <3>1, Constants
      <3>3. now - Recorded \in Int /\ 0 <= now - Recorded /\ now - Recorded <= Drift /\ now - Recorded < RtpWrap
        BY <1>2, <1>4, <2>1, Constants
      <3>4. (s - Recorded) % RtpWrap = now - Recorded
        <4>1. s - Recorded \in Int
          BY <1>2, <1>8
        <4> QED BY <3>2, <3>3, <4>1, Constants, Remainder
      <3> QED BY <2>2, <3>3, <3>4
    <2>4. CASE clock = {s}
      <3>1. (s - Stamped) % RtpWrap <= Drift /\ Stamped = Recorded
        BY <1>1, <1>2, <2>1, <2>4 DEF ClockFollows, Stamped
      <3> QED BY <2>2, <3>1
    <2> QED BY <1>6, <2>3, <2>4
  <1> QED BY <1>10, <1>11, <1>12 DEF AudioInv

\* The clock goes on by a packet, which is what the next packet was recorded later.
LEMMA WriteKeeps ==
  ASSUME AudioInv, WriteAudio
  PROVE  AudioInv'
  <1>1. /\ AudioTypeOK /\ ClockFollows /\ sample # {} /\ sample' = {}
        /\ clock' = {(c + Frame) % RtpWrap : c \in clock}
        /\ UNCHANGED <<now, incoming, apc, audioChan, audioServing, late>>
    BY DEF AudioInv, WriteAudio
  <1>2. Recorded' = Recorded /\ Recorded \in Int
    BY <1>1, RecordedTyped DEF Recorded, InLine
  <1>3. Stamped = Recorded - Frame /\ Stamped' = Recorded
    BY <1>1, <1>2, Constants DEF Stamped
  <1>4. ASSUME NEW c \in RtpTime
        PROVE  /\ (c + Frame) % RtpWrap \in RtpTime
               /\ (((c + Frame) % RtpWrap) - Recorded) % RtpWrap = (c - (Recorded - Frame)) % RtpWrap
    <2>1. c \in Int /\ c + Frame \in Int
      BY Constants DEF RtpTime
    <2> DEFINE n == (c + Frame) % RtpWrap
               k == (c + Frame) \div RtpWrap
    <2>2. n \in Int /\ k \in Int /\ 0 <= n /\ n < RtpWrap /\ c + Frame = RtpWrap * k + n
      BY <2>1, Constants, Division
    <2> HIDE DEF n, k
    <2>3. n - Recorded = (c - (Recorded - Frame)) + RtpWrap * (-k) /\ -k \in Int
      BY <1>2, <2>1, <2>2, Constants
    <2>4. (n - Recorded) % RtpWrap = (c - (Recorded - Frame)) % RtpWrap
      <3>1. n - Recorded \in Int /\ c - (Recorded - Frame) \in Int
        BY <1>2, <2>1, <2>2, Constants
      <3> QED BY <2>3, <3>1, Constants, SameRemainder
    <2>5. n \in RtpTime
      BY <2>2, Constants DEF RtpTime
    <2> QED BY <2>4, <2>5 DEF n
  <1>5. AudioTypeOK'
    <2>1. clock = {} \/ \E c \in RtpTime : clock = {c}
      BY <1>1 DEF AudioTypeOK
    <2>2. ASSUME NEW c \in RtpTime, clock = {c} PROVE clock' = {(c + Frame) % RtpWrap}
      BY <1>1, <2>2
    <2>3. clock = {} => clock' = {}
      BY <1>1
    <2>4. clock' = {} \/ \E c \in RtpTime : clock' = {c}
      BY <1>4, <2>1, <2>2, <2>3
    <2> QED BY <1>1, <2>4 DEF AudioTypeOK
  <1>6. ClockFollows'
    <2> SUFFICES ASSUME audioServing, ~late, NEW n \in clock' PROVE (n - Recorded) % RtpWrap <= Drift
      BY <1>1, <1>3 DEF ClockFollows
    <2>1. PICK c \in clock : n = (c + Frame) % RtpWrap
      BY <1>1
    <2>2. c \in RtpTime
      BY <1>1 DEF AudioTypeOK
    <2>3. (c - Stamped) % RtpWrap <= Drift
      BY <1>1 DEF ClockFollows
    <2> QED BY <1>3, <1>4, <2>1, <2>2, <2>3
  <1>7. AudioRegular'
    BY <1>1 DEF AudioRegular
  <1> QED BY <1>5, <1>6, <1>7 DEF AudioInv

\* All the steps of the sound.
LEMMA AudioStep ==
  ASSUME AudioInv, NEW isOpen, AudioNext(isOpen) \/ UNCHANGED audio
  PROVE  AudioInv'
  <1>1. ASSUME AudioTypeOK', UNCHANGED <<now, clock, sample, audioServing, late>>, InLine' = InLine
        PROVE  AudioInv'
    BY <1>1, AudioSame DEF Recorded
  <1>2. AudioTypeOK /\ now \in Nat /\ incoming \in Nat /\ audioChan \in Nat
    BY DEF AudioInv, AudioTypeOK
  <1>3. CASE Tick
    BY <1>3, TickKeeps
  <1>4. CASE ReadAudio
    <2>1. AudioTypeOK' /\ InLine' = InLine
      BY <1>2, <1>4 DEF ReadAudio, AudioTypeOK, InLine
    <2> QED BY <1>1, <1>4, <2>1 DEF ReadAudio
  <1>5. CASE AudioHeaderFails(isOpen)
    <2>1. AudioTypeOK' /\ InLine' = InLine
      BY <1>2, <1>5 DEF AudioHeaderFails, AudioTypeOK, InLine
    <2> QED BY <1>1, <1>5, <2>1 DEF AudioHeaderFails
  <1>6. CASE SendAudio
    <2>1. AudioTypeOK' /\ InLine' = InLine
      BY <1>2, <1>6 DEF SendAudio, AudioTypeOK, InLine
    <2> QED BY <1>1, <1>6, <2>1 DEF SendAudio
  <1>7. CASE TakeAudio
    BY <1>7, TakeKeeps
  <1>8. CASE WriteAudio
    BY <1>8, WriteKeeps
  <1>9. CASE WriteAudioFails
    <2>1. sample' = {} /\ audioServing' = FALSE /\ UNCHANGED <<now, incoming, apc, audioChan, clock, late>>
      BY <1>9 DEF WriteAudioFails
    <2>2. AudioTypeOK' /\ ClockFollows' /\ AudioRegular'
      BY <1>2, <2>1 DEF AudioTypeOK, ClockFollows, AudioRegular
    <2> QED BY <2>2 DEF AudioInv
  <1>10. CASE UNCHANGED audio
    <2>1. AudioTypeOK' /\ InLine' = InLine /\ UNCHANGED <<now, clock, sample, audioServing, late>>
      BY <1>2, <1>10 DEF audio, AudioTypeOK, InLine
    <2> QED BY <1>1, <2>1
  <1> QED BY <1>3, <1>4, <1>5, <1>6, <1>7, <1>8, <1>9, <1>10 DEF AudioNext

\* A session whose sound has just been started, or that has none.
LEMMA AudioStarts ==
  ASSUME NEW sounds, AudioInit(sounds)
  PROVE  AudioInv
  <1>1. /\ now = 0 /\ audioChan = 0 /\ clock = {} /\ sample = {} /\ late = FALSE
        /\ apc \in {"off", "header"} /\ incoming \in 0 .. 1
    BY DEF AudioInit
  <1>2. AudioTypeOK
    <2>1. now \in Nat /\ incoming \in Nat /\ audioChan \in Nat
      BY <1>1
    <2>3. late \in BOOLEAN
      BY <1>1, Zenon
    <2>2. apc \in {"off", "header", "send", "ended"}
      BY <1>1
    <2> QED BY <1>1, <2>1, <2>2, <2>3 DEF AudioTypeOK
  <1>3. ClockFollows /\ AudioRegular
    BY <1>1 DEF ClockFollows, AudioRegular
  <1> QED BY <1>2, <1>3 DEF AudioInv

-----------------------------------------------------------------------------
(* The theorems                                                            *)

\* The clock of the sound: it is the agent's only state that outlives a packet, and
\* stays within Drift of the packets as long as none is late.
THEOREM SoundInvariant == Spec => []AudioInv
  <1>1. Init => AudioInv
    BY AudioStarts DEF Init
  <1>2. AudioInv /\ [Next]_<<frames, controls, audio>> => AudioInv'
    BY AudioStep DEF Next, Video, Control, Sound
  <1> QED BY <1>1, <1>2, PTL DEF Spec

\* Sound is stamped within Drift of the real time, and regularly while nothing is
\* late and the RTP time does not start again (ServeAudioStream).
THEOREM SoundRegular == Spec => []AudioRegular
  <1>1. AudioInv => AudioRegular
    BY DEF AudioInv
  <1> QED BY <1>1, SoundInvariant, PTL

-----------------------------------------------------------------------------
(* Units and start codes                                                   *)

\* A unit as it is on the pipe.
LEMMA BytesOf ==
  ASSUME NEW u \in Unit
  PROVE  /\ Bytes(u) \in Seq(Nat) /\ u.zeros \in {2, 3} /\ u.data \in Seq(Nat) /\ Len(u.data) > 0
         /\ Len(u.data) \in Nat /\ Len(Bytes(u)) \in Nat /\ Len(Bytes(u)) >= u.zeros + 2
         /\ Len(Bytes(u)) = u.zeros + 1 + Len(u.data)
         /\ \A k \in 1 .. u.zeros : Bytes(u)[k] = 0
         /\ Bytes(u)[u.zeros + 1] = 1
         /\ \A k \in 1 .. Len(u.data) : Bytes(u)[u.zeros + 1 + k] = u.data[k]
  <1> DEFINE z == u.zeros
             d == u.data
             a == Zeros(z) \o <<1>>
  <1>1. z \in {2, 3} /\ z \in Nat /\ d \in Seq(Nat) /\ Len(d) > 0 /\ Len(d) \in Nat
    BY LenProperties, EmptySeq DEF Unit
  <1> HIDE DEF z, d
  <1>2. Zeros(z) \in Seq(Nat) /\ Len(Zeros(z)) = z /\ \A k \in 1 .. z : Zeros(z)[k] = 0
    <2>1. Zeros(z) \in [1 .. z -> Nat]
      BY <1>1 DEF Zeros
    <2>2. Zeros(z) \in Seq(Nat)
      BY <1>1, <2>1, SeqDef
    <2> QED BY <1>1, <2>1, <2>2, LenProperties DEF Zeros
  <1>3. <<1>> \in Seq(Nat) /\ Len(<<1>>) = 1 /\ <<1>>[1] = 1
    OBVIOUS
  <1>4. a \in Seq(Nat) /\ Len(a) = z + 1 /\ (\A k \in 1 .. z : a[k] = 0) /\ a[z + 1] = 1
    <2>1. /\ a \in Seq(Nat) /\ Len(a) = z + 1
          /\ \A i \in 1 .. z + 1 : a[i] = IF i <= z THEN Zeros(z)[i] ELSE <<1>>[i - z]
      BY <1>2, <1>3, ConcatProperties
    <2> QED BY <1>1, <1>2, <1>3, <2>1
  <1> HIDE DEF a
  <1>5. /\ a \o d \in Seq(Nat) /\ Len(a \o d) = z + 1 + Len(d)
        /\ \A i \in 1 .. z + 1 + Len(d) : (a \o d)[i] = IF i <= z + 1 THEN a[i] ELSE d[i - (z + 1)]
    <2>1. /\ a \in Seq(Nat) /\ d \in Seq(Nat)
          /\ a \o d \in Seq(Nat) /\ Len(a \o d) = Len(a) + Len(d)
          /\ \A i \in 1 .. Len(a) + Len(d) : (a \o d)[i] = IF i <= Len(a) THEN a[i] ELSE d[i - Len(a)]
      BY <1>1, <1>4, ConcatProperties
    <2> QED BY <1>4, <2>1
  <1>6. Bytes(u) = a \o d
    BY DEF Bytes, a, z, d
  <1>7. \A k \in 1 .. Len(d) : (a \o d)[z + 1 + k] = d[k]
    <2> TAKE k \in 1 .. Len(d)
    <2>1. z + 1 + k \in 1 .. z + 1 + Len(d) /\ ~(z + 1 + k <= z + 1) /\ (z + 1 + k) - (z + 1) = k
      BY <1>1
    <2> QED BY <1>5, <2>1
  <1>8. (\A k \in 1 .. z : (a \o d)[k] = 0) /\ (a \o d)[z + 1] = 1
    <2>1. \A k \in 1 .. z + 1 : (a \o d)[k] = a[k]
      BY <1>1, <1>5
    <2> QED BY <1>1, <1>4, <2>1
  <1>9. z + 1 + Len(d) \in Nat /\ z + 1 + Len(d) >= z + 2
    BY <1>1
  <1> QED BY <1>1, <1>5, <1>6, <1>7, <1>8, <1>9 DEF z, d

\* Its length.
LEMMA BytesLen ==
  ASSUME NEW u \in Unit
  PROVE  /\ Bytes(u) \in Seq(Nat) /\ u.zeros \in {2, 3} /\ u.zeros \in Nat
         /\ Len(Bytes(u)) \in Nat /\ Len(Bytes(u)) >= u.zeros + 2
  <1>1. u.zeros \in {2, 3}
    BY DEF Unit
  <1>2. Bytes(u) \in Seq(Nat) /\ Len(Bytes(u)) \in Nat /\ Len(Bytes(u)) >= u.zeros + 2
    BY BytesOf
  <1> QED BY <1>1, <1>2

\* A sequence of three elements is written out.
LEMMA ThreeOf ==
  ASSUME NEW s \in Seq(Nat), Len(s) = 3
  PROVE  s = <<s[1], s[2], s[3]>>
  <1>1. \A k \in 1 .. 3 : s[k] \in Nat
    BY ElementOfSeq
  <1>2. ASSUME NEW a \in Nat, NEW b \in Nat, NEW c \in Nat
        PROVE  <<a, b, c>> \in Seq(Nat)
    OBVIOUS
  <1> DEFINE t == <<s[1], s[2], s[3]>>
  <1>3. t \in Seq(Nat)
    <2>1. s[1] \in Nat /\ s[2] \in Nat /\ s[3] \in Nat
      BY <1>1
    <2> QED BY <1>2, <2>1
  <1>4. Len(t) = 3 /\ \A k \in 1 .. 3 : s[k] = t[k]
    OBVIOUS
  <1> HIDE DEF t
  <1> QED BY <1>3, <1>4, SeqEqual DEF t

\* A start code, byte by byte.
LEMMA CodeAt ==
  ASSUME NEW data \in Seq(Nat), NEW i
  PROVE  i \in StartCodes(data) <=>
           /\ i \in 1 .. Len(data) - 2
           /\ data[i] = 0 /\ data[i + 1] = 0 /\ data[i + 2] = 1
  <1>1. Len(data) \in Nat
    BY LenProperties
  <1> SUFFICES ASSUME i \in 1 .. Len(data) - 2
               PROVE  SubSeq(data, i, i + 2) = <<0, 0, 1>> <=>
                        data[i] = 0 /\ data[i + 1] = 0 /\ data[i + 2] = 1
    BY DEF StartCodes
  <1>2. i \in Int /\ i + 2 \in Int /\ \A k \in i .. i + 2 : data[k] \in Nat
    BY <1>1, ElementOfSeq
  <1> DEFINE s == SubSeq(data, i, i + 2)
  <1>3. s \in Seq(Nat) /\ Len(s) = 3 /\ \A k \in 1 .. 3 : s[k] = data[i + k - 1]
    <2>1. (i + 2) - i + 1 = 3 /\ i <= i + 2
      BY <1>2
    <2> QED BY <1>2, <2>1, SubSeqProperties
  <1> HIDE DEF s
  <1>4. s[1] = data[i] /\ s[2] = data[i + 1] /\ s[3] = data[i + 2]
    BY <1>2, <1>3
  <1>5. s = <<s[1], s[2], s[3]>>
    BY <1>3, ThreeOf
  <1> QED BY <1>4, <1>5 DEF s

\* The first start code of bytes that begin like a unit is the unit's, and the
\* next one comes behind it.
LEMMA FirstCode ==
  ASSUME NEW u \in Unit, NEW data \in Seq(Nat), NEW n \in Nat, n <= Len(data), n <= Len(Bytes(u)),
         \A k \in 1 .. n : data[k] = Bytes(u)[k],
         n = Len(data) \/ n = Len(Bytes(u))
  PROVE  /\ \A i \in StartCodes(data) : i >= u.zeros - 1
         /\ \A i \in StartCodes(data) : i > u.zeros - 1 => i > n /\ n = Len(Bytes(u))
         /\ u.zeros - 1 \in StartCodes(data) <=> n >= u.zeros + 1
  <1> DEFINE z == u.zeros
             d == u.data
             b == Bytes(u)
  <1>1. /\ b \in Seq(Nat) /\ z \in {2, 3} /\ d \in Seq(Nat) /\ Len(d) \in Nat \ {0}
        /\ Len(b) = z + 1 + Len(d)
        /\ \A k \in 1 .. z : b[k] = 0
        /\ b[z + 1] = 1
        /\ \A k \in 1 .. Len(d) : b[z + 1 + k] = d[k]
    <2>1. Len(u.data) \in Nat /\ Len(u.data) > 0
      BY BytesOf
    <2>2. Len(u.data) \in Nat \ {0}
      BY <2>1
    <2> QED BY <2>2, BytesOf
  <1>2. d[Len(d)] # 0 /\ StartCodes(d) = {}
    BY DEF Unit, Last
  <1>3. Len(data) \in Nat
    BY LenProperties
  <1>4. \A k \in 1 .. n : data[k] = b[k]
    OBVIOUS
  <1> HIDE DEF z, d, b
  <1>5. z \in {2, 3} /\ Len(d) \in Nat \ {0} /\ Len(b) = z + 1 + Len(d)
    BY <1>1
  <1>6. \A k \in 1 .. Len(d) : b[z + 1 + k] = d[k]
    BY <1>1
  <1>7. ASSUME NEW i \in StartCodes(data)
        PROVE  i >= z - 1 /\ (i > z - 1 => i > n /\ n = Len(b))
    <2>1. i \in 1 .. Len(data) - 2 /\ data[i] = 0 /\ data[i + 1] = 0 /\ data[i + 2] = 1
      BY <1>7, CodeAt
    <2>2. CASE i >= z + 2 /\ i + 2 <= n
      <3>1. i - (z + 1) \in 1 .. Len(d) - 2
        BY <1>1, <2>1, <2>2 DEF b
      <3>2. /\ b[z + 1 + (i - (z + 1))] = d[i - (z + 1)]
            /\ b[z + 1 + (i - (z + 1) + 1)] = d[i - (z + 1) + 1]
            /\ b[z + 1 + (i - (z + 1) + 2)] = d[i - (z + 1) + 2]
        <4>1. {i - (z + 1), i - (z + 1) + 1, i - (z + 1) + 2} \subseteq 1 .. Len(d)
          BY <1>5, <2>1, <3>1
        <4> QED BY <1>6, <4>1
      <3>3. /\ b[i] = d[i - (z + 1)] /\ b[i + 1] = d[i - (z + 1) + 1]
            /\ b[i + 2] = d[i - (z + 1) + 2]
        <4>1. /\ z + 1 + (i - (z + 1)) = i /\ z + 1 + (i - (z + 1) + 1) = i + 1
              /\ z + 1 + (i - (z + 1) + 2) = i + 2
          BY <1>1, <2>1
        <4> QED BY <3>2, <4>1
      <3>4. data[i] = b[i] /\ data[i + 1] = b[i + 1] /\ data[i + 2] = b[i + 2]
        <4>1. {i, i + 1, i + 2} \subseteq 1 .. n
          BY <2>1, <2>2
        <4> QED BY <1>4, <4>1
      <3>5. i - (z + 1) \in StartCodes(d)
        <4>1. d \in Seq(Nat)
          BY <1>1
        <4>2. /\ d[i - (z + 1)] = 0 /\ d[i - (z + 1) + 1] = 0
              /\ d[i - (z + 1) + 2] = 1
          BY <2>1, <3>3, <3>4
        <4> QED BY <3>1, <4>1, <4>2, CodeAt
      <3> QED BY <1>2, <3>5
    <2>3. CASE i <= n /\ i + 2 > n
      <3>1. n = Len(b)
        BY <1>3, <2>1, <2>3 DEF b
      <3>2. n \in 1 .. n /\ data[n] = d[Len(d)]
        <4>1. n = z + 1 + Len(d) /\ n \in 1 .. n /\ Len(d) \in 1 .. Len(d)
          BY <1>5, <3>1
        <4>2. b[n] = d[Len(d)]
          BY <1>6, <4>1
        <4> QED BY <1>4, <4>1, <4>2
      <3>3. n = i \/ n = i + 1
        BY <2>1, <2>3
      <3> QED BY <1>2, <2>1, <3>2, <3>3
    <2>4. CASE i < z + 2 /\ i + 2 <= n
      <3>1. data[i] = b[i] /\ data[i + 1] = b[i + 1] /\ data[i + 2] = b[i + 2]
        <4>1. {i, i + 1, i + 2} \subseteq 1 .. n
          BY <2>1, <2>4
        <4> QED BY <1>4, <4>1
      <3>2. i # z + 1
        <4>1. ASSUME i = z + 1 PROVE FALSE
          <5>1. b[i] = 1
            BY <1>1, <4>1
          <5> QED BY <2>1, <3>1, <5>1
        <4> QED BY <4>1
      <3>3. i # z
        <4>1. ASSUME i = z PROVE FALSE
          <5>1. b[i + 1] = 1
            BY <1>1, <4>1
          <5> QED BY <2>1, <3>1, <5>1
        <4> QED BY <4>1
      <3>4. ~(i < z - 1)
        <4>1. ASSUME i < z - 1 PROVE FALSE
          <5>1. i + 2 \in 1 .. z
            BY <1>1, <2>1, <4>1
          <5>2. b[i + 2] = 0
            BY <1>1, <5>1
          <5> QED BY <2>1, <3>1, <5>2
        <4> QED BY <4>1
      <3> QED BY <1>1, <2>1, <2>4, <3>2, <3>3, <3>4
    <2>5. CASE i > n
      <3>1. n = Len(b)
        BY <1>3, <2>1, <2>5 DEF b
      <3> QED BY <1>5, <2>1, <2>5, <3>1
    <2> QED BY <1>1, <2>1, <2>2, <2>3, <2>4, <2>5
  <1>8. z - 1 \in StartCodes(data) <=> n >= z + 1
    <2>1. ASSUME n >= z + 1 PROVE z - 1 \in StartCodes(data)
      <3>1. z - 1 \in 1 .. Len(data) - 2
        BY <1>3, <1>5, <2>1
      <3>2. {z - 1, z - 1 + 1, z - 1 + 2} \subseteq 1 .. n /\ z - 1 + 1 = z /\ z - 1 + 2 = z + 1
        BY <1>5, <2>1
      <3>3. data[z - 1] = b[z - 1] /\ data[z - 1 + 1] = b[z] /\ data[z - 1 + 2] = b[z + 1]
        BY <1>4, <3>2
      <3>4. b[z - 1] = 0 /\ b[z] = 0 /\ b[z + 1] = 1
        <4>1. z - 1 \in 1 .. z /\ z \in 1 .. z
          BY <1>5
        <4> QED BY <1>1, <4>1
      <3> QED BY <3>1, <3>3, <3>4, CodeAt
    <2>2. ASSUME z - 1 \in StartCodes(data) PROVE n >= z + 1
      <3>1. z - 1 \in 1 .. Len(data) - 2
        BY <2>2, CodeAt
      <3>2. z - 1 + 2 = z + 1 /\ z + 1 <= Len(data) /\ z + 1 <= Len(b)
        BY <1>3, <1>5, <3>1
      <3> QED BY <3>2 DEF b
    <2> QED BY <2>1, <2>2
  <1> QED BY <1>7, <1>8 DEF z, b

-----------------------------------------------------------------------------
(* SplitNALU                                                               *)

\* The least element, given one.
LEMMA MinIs ==
  ASSUME NEW S, S \subseteq Int, NEW m \in S, \A x \in S : m <= x
  PROVE  Min(S) = m
  <1> DEFINE n == CHOOSE x \in S : \A y \in S : x =< y
  <1>1. n \in S /\ \A y \in S : n =< y
    OBVIOUS
  <1>2. n \in Int /\ m \in Int /\ n <= m /\ m <= n
    BY <1>1
  <1> HIDE DEF n
  <1>3. n = m
    BY <1>2
  <1> QED BY <1>3 DEF Min, n

\* What SplitNALU returns of bytes that begin with a start code.
LEMMA SplitIs ==
  ASSUME NEW data, NEW atEOF, WholeStart(data, Min(StartCodes(data))) = 1
  PROVE  LET codes == StartCodes(data)
             later == {i \in codes : i >= 1 + 3}
         IN  SplitNALU(data, atEOF) =
           CASE codes = {} -> [advance |-> IF atEOF THEN Len(data) ELSE 0, token |-> << >>]
             [] codes # {} /\ later # {} ->
                  [advance |-> WholeStart(data, Min(later)) - 1,
                   token |-> SubSeq(data, 1, WholeStart(data, Min(later)) - 1)]
             [] codes # {} /\ later = {} /\ atEOF ->
                  [advance |-> Len(data), token |-> SubSeq(data, 1, Len(data))]
             [] OTHER -> [advance |-> 1 - 1, token |-> << >>]
  <1> DEFINE start == WholeStart(data, Min(StartCodes(data)))
  <1>1. {i \in StartCodes(data) : i >= start + 3} = {i \in StartCodes(data) : i >= 1 + 3}
    OBVIOUS
  <1>2. start = 1
    OBVIOUS
  <1> QED BY <1>1, <1>2 DEF SplitNALU

\* Nothing but the beginning of a unit, or all of it: the scanner waits for more,
\* and takes it as it is at the end.
LEMMA SplitPart ==
  ASSUME NEW u \in Unit, NEW data \in Seq(Nat), NEW atEOF \in BOOLEAN, Len(data) <= Len(Bytes(u)),
         \A k \in 1 .. Len(data) : data[k] = Bytes(u)[k]
  PROVE  SplitNALU(data, atEOF) =
           IF ~atEOF THEN [advance |-> 0, token |-> << >>]
           ELSE [advance |-> Len(data), token |-> IF Len(data) >= u.zeros + 1 THEN data ELSE << >>]
  <1> DEFINE z == u.zeros
             codes == StartCodes(data)
  <1>1. z \in {2, 3} /\ Len(data) \in Nat
    BY BytesOf, LenProperties
  <1>2. codes \subseteq Int
    BY DEF StartCodes
  <1>3. /\ \A i \in codes : i = z - 1
        /\ z - 1 \in codes <=> Len(data) >= z + 1
    <2>1. /\ \A i \in codes : i >= z - 1
          /\ \A i \in codes : i > z - 1 => i > Len(data)
          /\ z - 1 \in codes <=> Len(data) >= z + 1
      BY <1>1, FirstCode
    <2>2. \A i \in codes : i \in 1 .. Len(data) - 2
      BY DEF StartCodes
    <2>3. ASSUME NEW i \in codes PROVE i = z - 1
      <3> HIDE DEF codes, z
      <3>1. i \in 1 .. Len(data) - 2 /\ i >= z - 1 /\ (i > z - 1 => i > Len(data))
        BY <2>1, <2>2
      <3> QED BY <1>1, <3>1
    <2> QED BY <2>1, <2>3
  <1>4. CASE Len(data) >= z + 1
    <2>1. codes = {z - 1}
      BY <1>3, <1>4
    <2>2. Min(codes) = z - 1
      <3>1. z - 1 \in Int
        BY <1>1
      <3> HIDE DEF codes, z
      <3>2. codes \subseteq Int /\ z - 1 \in codes /\ \A x \in codes : z - 1 <= x
        BY <2>1, <3>1
      <3> QED BY <3>2, MinIs
    <2>3. WholeStart(data, z - 1) = 1
      <3>1. CASE z = 2
        BY <3>1 DEF WholeStart
      <3>2. CASE z = 3
        <4>1. data[1] = 0
          <5>1. 1 \in 1 .. Len(data) /\ 1 \in 1 .. u.zeros
            BY <1>1, <1>4, <3>2
          <5> QED BY <5>1, BytesOf
        <4> QED BY <3>2, <4>1 DEF WholeStart
      <3> QED BY <1>1, <3>1, <3>2
    <2>4. {i \in codes : i >= 1 + 3} = {}
      BY <1>1, <2>1
    <2>5. SubSeq(data, 1, Len(data)) = data
      BY SubSeqFull
    <2> DEFINE later == {i \in codes : i >= 1 + 3}
    <2> HIDE DEF z, codes, later
    <2>6. SplitNALU(data, atEOF) =
            CASE codes = {} -> [advance |-> IF atEOF THEN Len(data) ELSE 0, token |-> << >>]
              [] codes # {} /\ later # {} ->
                   [advance |-> WholeStart(data, Min(later)) - 1,
                    token |-> SubSeq(data, 1, WholeStart(data, Min(later)) - 1)]
              [] codes # {} /\ later = {} /\ atEOF ->
                   [advance |-> Len(data), token |-> SubSeq(data, 1, Len(data))]
              [] OTHER -> [advance |-> 1 - 1, token |-> << >>]
      <3>1. WholeStart(data, Min(StartCodes(data))) = 1
        BY <2>2, <2>3 DEF codes
      <3> QED BY <3>1, SplitIs DEF codes, later
    <2>7. codes # {} /\ later = {} /\ 1 - 1 = 0
      BY <2>1, <2>4 DEF later
    <2>8. SplitNALU(data, atEOF) = IF atEOF THEN [advance |-> Len(data), token |-> data]
                                   ELSE [advance |-> 0, token |-> << >>]
      BY <2>5, <2>6, <2>7
    <2> QED BY <1>4, <2>8 DEF z
  <1>5. CASE ~(Len(data) >= z + 1)
    <2>1. codes = {}
      BY <1>3, <1>5
    <2> QED BY <1>5, <2>1 DEF SplitNALU
  <1> QED BY <1>4, <1>5

\* The data begin with unit u, and go on with unit v, as far as they go.
IsFirst(u, data) ==
  Len(Bytes(u)) <= Len(data) /\ \A k \in 1 .. Len(Bytes(u)) : data[k] = Bytes(u)[k]
IsNext(v, n, data) ==
  \A k \in 1 .. Len(Bytes(v)) : n + k <= Len(data) => data[n + k] = Bytes(v)[k]

\* A unit and what comes after it: the unit, once the start code of the next one
\* is there.
LEMMA SplitWhole ==
  ASSUME NEW u \in Unit, NEW v \in Unit, NEW data \in Seq(Nat), NEW atEOF \in BOOLEAN,
         IsFirst(u, data), IsNext(v, Len(Bytes(u)), data)
  PROVE  SplitNALU(data, atEOF) =
           IF Len(data) >= Len(Bytes(u)) + v.zeros + 1
           THEN [advance |-> Len(Bytes(u)), token |-> SubSeq(data, 1, Len(Bytes(u)))]
           ELSE IF atEOF THEN [advance |-> Len(data), token |-> data]
           ELSE [advance |-> 0, token |-> << >>]
  <1> DEFINE n == Len(Bytes(u))
  <1>A. /\ n \in Nat /\ n = Len(Bytes(u)) /\ n <= Len(data)
        /\ \A k \in 1 .. n : data[k] = Bytes(u)[k]
        /\ \A k \in 1 .. Len(Bytes(v)) : n + k <= Len(data) => data[n + k] = Bytes(v)[k]
    BY BytesLen DEF IsFirst, IsNext
  <1> HIDE DEF n
  <1>B. n \in Nat /\ n <= Len(data)
    BY <1>A
  <1> USE <1>B
  <1> SUFFICES SplitNALU(data, atEOF) =
           IF Len(data) >= n + v.zeros + 1 THEN [advance |-> n, token |-> SubSeq(data, 1, n)]
           ELSE IF atEOF THEN [advance |-> Len(data), token |-> data]
           ELSE [advance |-> 0, token |-> << >>]
    BY <1>A
  <1> DEFINE z == u.zeros
             y == v.zeros
             codes == StartCodes(data)
             m == Len(data) - n
             l == Len(Bytes(v))
             rest == SubSeq(data, n + 1, Len(data))
             later == {i \in codes : i >= 1 + 3}
  <1>1. z \in {2, 3} /\ y \in {2, 3} /\ Len(data) \in Nat /\ m \in Nat /\ l \in Nat /\ n >= z + 2 /\ l >= y + 2
    <2>1. Len(data) \in Nat
      BY LenProperties
    <2>2. z \in {2, 3} /\ y \in {2, 3} /\ l \in Nat /\ n >= z + 2 /\ l >= y + 2
      BY <1>A, BytesOf
    <2>3. m \in Nat
      BY <2>1
    <2> QED BY <2>1, <2>2, <2>3
  <1>2. codes \subseteq Int /\ \A i \in codes : i \in 1 .. Len(data) - 2
    BY DEF StartCodes
  <1>3. /\ \A i \in codes : i >= z - 1
        /\ \A i \in codes : i > z - 1 => i > n
        /\ z - 1 \in codes
    <2>1. n >= u.zeros + 1
      BY <1>1
    <2> QED BY <1>A, <2>1, FirstCode
  <1>4. rest \in Seq(Nat) /\ Len(rest) = m /\ \A k \in 1 .. m : rest[k] = data[n + k]
    <2>1. n + 1 \in Int /\ Len(data) \in Int /\ \A k \in n + 1 .. Len(data) : data[k] \in Nat
      BY <1>1, ElementOfSeq
    <2>2. /\ rest \in Seq(Nat) /\ Len(rest) = IF n + 1 <= Len(data) THEN Len(data) - (n + 1) + 1 ELSE 0
          /\ \A k \in 1 .. Len(data) - (n + 1) + 1 : rest[k] = data[n + 1 + k - 1]
      BY <2>1, SubSeqProperties
    <2> HIDE DEF rest
    <2>3. Len(rest) = m
      BY <1>1, <2>2
    <2>4. ASSUME NEW k \in 1 .. m PROVE rest[k] = data[n + k]
      <3>1. k \in 1 .. Len(data) - (n + 1) + 1 /\ n + 1 + k - 1 = n + k
        BY <1>1
      <3> QED BY <2>2, <3>1
    <2> QED BY <2>2, <2>3, <2>4
  <1> DEFINE p == IF m <= l THEN m ELSE l
  <1>5. p \in Nat /\ p <= m /\ p <= l /\ (p = m \/ p = l) /\ \A k \in 1 .. p : rest[k] = Bytes(v)[k]
    <2> HIDE DEF rest
    <2>1. p \in Nat /\ p <= m /\ p <= l /\ (p = m \/ p = l)
      BY <1>1
    <2>2. ASSUME NEW k \in 1 .. p PROVE rest[k] = Bytes(v)[k]
      <3>1. k \in 1 .. l /\ n + k <= Len(data) /\ k \in 1 .. m
        BY <1>1, <2>1
      <3> QED BY <1>A, <1>4, <3>1
    <2> QED BY <2>1, <2>2
  <1>6. /\ \A i \in StartCodes(rest) : i >= y - 1
        /\ y - 1 \in StartCodes(rest) <=> p >= y + 1
    <2> HIDE DEF rest, p
    <2> QED BY <1>4, <1>5, FirstCode
  <1>7. \A i \in codes : i > n => i - n \in StartCodes(rest)
    <2> HIDE DEF rest
    <2> SUFFICES ASSUME NEW i \in codes, i > n PROVE i - n \in StartCodes(rest)
      OBVIOUS
    <2>1. i \in 1 .. Len(data) - 2 /\ data[i] = 0 /\ data[i + 1] = 0 /\ data[i + 2] = 1
      BY CodeAt
    <2>2. i - n \in 1 .. m - 2 /\ {i - n, i - n + 1, i - n + 2} \subseteq 1 .. m
      BY <1>1, <2>1
    <2>3. /\ rest[i - n] = data[n + (i - n)] /\ rest[i - n + 1] = data[n + (i - n + 1)]
          /\ rest[i - n + 2] = data[n + (i - n + 2)]
      BY <1>4, <2>2
    <2>4. n + (i - n) = i /\ n + (i - n + 1) = i + 1 /\ n + (i - n + 2) = i + 2
      BY <2>1
    <2>5. i - n \in 1 .. Len(rest) - 2
      BY <1>4, <2>2
    <2>6. rest[i - n] = 0 /\ rest[i - n + 1] = 0 /\ rest[i - n + 2] = 1
      BY <2>1, <2>3, <2>4
    <2> QED BY <1>4, <2>5, <2>6, CodeAt
  <1>8. y - 1 \in StartCodes(rest) => n + y - 1 \in codes
    <2> HIDE DEF rest
    <2> SUFFICES ASSUME y - 1 \in StartCodes(rest) PROVE n + y - 1 \in codes
      OBVIOUS
    <2>A. y - 1 \in 1 .. Len(rest) - 2 /\ rest[y - 1] = 0 /\ rest[y - 1 + 1] = 0 /\ rest[y - 1 + 2] = 1
      <3> HIDE DEF y
      <3> QED BY <1>4, CodeAt
    <2>1. y - 1 \in 1 .. m - 2 /\ rest[y - 1] = 0 /\ rest[y - 1 + 1] = 0 /\ rest[y - 1 + 2] = 1
      BY <1>4, <2>A
    <2>2. {y - 1, y - 1 + 1, y - 1 + 2} \subseteq 1 .. m /\ n + y - 1 \in 1 .. Len(data) - 2
      <3> HIDE DEF y
      <3>1. m \in Nat /\ n \in Nat /\ y \in {2, 3} /\ m = Len(data) - n /\ Len(data) \in Nat
        BY <1>1
      <3>2. y - 1 <= m - 2
        BY <2>1
      <3> HIDE DEF m
      <3> QED BY <3>1, <3>2
    <2>3. /\ rest[y - 1] = data[n + (y - 1)] /\ rest[y - 1 + 1] = data[n + (y - 1 + 1)]
          /\ rest[y - 1 + 2] = data[n + (y - 1 + 2)]
      BY <1>4, <2>2
    <2>4. n + (y - 1) = n + y - 1 /\ n + (y - 1 + 1) = n + y - 1 + 1 /\ n + (y - 1 + 2) = n + y - 1 + 2
      BY <1>1
    <2> QED BY <2>1, <2>2, <2>3, <2>4, CodeAt
  <1>9. later = {i \in codes : i > n} /\ \A i \in later : i >= n + y - 1
    <2>1. ASSUME NEW i \in codes PROVE i >= 1 + 3 <=> i > n
      <3>1. i \in Int /\ i >= z - 1 /\ (i > z - 1 => i > n)
        BY <1>2, <1>3, <2>1
      <3>2. z \in {2, 3} /\ n >= z + 2
        BY <1>1
      <3> HIDE DEF z, n
      <3> QED BY <3>1, <3>2
    <2>2. ASSUME NEW i \in codes, i > n PROVE i >= n + y - 1
      <3>1. i - n >= y - 1
        BY <1>6, <1>7, <2>2
      <3>2. i \in Int /\ n \in Nat /\ y \in {2, 3}
        BY <1>1, <1>2
      <3> HIDE DEF y
      <3> QED BY <3>1, <3>2
    <2> QED BY <2>1, <2>2
  <1>10. Min(codes) = z - 1
    BY <1>1, <1>2, <1>3, MinIs
  <1>11. WholeStart(data, z - 1) = 1
    <2>1. CASE z = 2
      BY <2>1 DEF WholeStart
    <2>2. CASE z = 3
      <3>1. data[1] = 0
        <4>1. 1 \in 1 .. n /\ 1 \in 1 .. u.zeros
          BY <1>1, <2>2
        <4> QED BY <1>A, <4>1, BytesOf
      <3> QED BY <2>2, <3>1 DEF WholeStart
    <2> QED BY <1>1, <2>1, <2>2
  <1>12. SplitNALU(data, atEOF) =
           CASE codes = {} -> [advance |-> IF atEOF THEN Len(data) ELSE 0, token |-> << >>]
             [] codes # {} /\ later # {} ->
                  [advance |-> WholeStart(data, Min(later)) - 1,
                   token |-> SubSeq(data, 1, WholeStart(data, Min(later)) - 1)]
             [] codes # {} /\ later = {} /\ atEOF ->
                  [advance |-> Len(data), token |-> SubSeq(data, 1, Len(data))]
             [] OTHER -> [advance |-> 1 - 1, token |-> << >>]
    <2> HIDE DEF codes, later
    <2>1. WholeStart(data, Min(StartCodes(data))) = 1
      BY <1>10, <1>11 DEF codes
    <2> QED BY <2>1, SplitIs DEF codes, later
  <1>13. CASE Len(data) >= n + y + 1
    <2>1. n + y - 1 \in later
      <3>1. p >= y + 1
        <4>1. l >= y + 2 /\ l \in Nat /\ y \in {2, 3} /\ m >= y + 1
          BY <1>1, <1>13
        <4> HIDE DEF y, l, m
        <4> QED BY <4>1
      <3>2. n + y - 1 \in codes /\ n + y - 1 > n
        BY <1>1, <1>6, <1>8, <3>1
      <3> QED BY <1>9, <3>2
    <2>2. Min(later) = n + y - 1
      BY <1>2, <1>9, <2>1, MinIs
    <2>3. WholeStart(data, n + y - 1) = n + 1
      <3>1. CASE y = 2
        <4>1. data[n] # 0
          <5>1. n \in 1 .. n /\ Len(u.data) \in 1 .. Len(u.data) /\ u.zeros + 1 + Len(u.data) = n
            <6>1. Len(u.data) \in Nat /\ Len(u.data) > 0 /\ n = u.zeros + 1 + Len(u.data)
              BY <1>A, BytesOf
            <6>2. n \in 1 .. n
              BY <1>1
            <6> QED BY <6>1, <6>2
          <5>2. data[n] = u.data[Len(u.data)]
            <6>1. Bytes(u)[u.zeros + 1 + Len(u.data)] = u.data[Len(u.data)]
              BY <5>1, BytesOf
            <6>2. data[n] = Bytes(u)[n]
              BY <1>A, <5>1
            <6> QED BY <5>1, <6>1, <6>2
          <5> QED BY <5>2 DEF Unit, Last
        <4>2. n + y - 1 = n + 1 /\ n + 1 - 1 = n
          BY <3>1
        <4> QED BY <4>1, <4>2 DEF WholeStart
      <3>2. CASE y = 3
        <4>1. data[n + 1] = 0
          <5>1. 1 \in 1 .. v.zeros /\ 1 \in 1 .. l /\ n + 1 <= Len(data)
            BY <1>1, <1>13, <3>2
          <5> QED BY <1>A, <5>1, BytesOf
        <4>2. n + y - 1 = n + 2 /\ n + 2 - 1 = n + 1 /\ n + 2 > 1
          BY <3>2
        <4> QED BY <4>1, <4>2 DEF WholeStart
      <3> QED BY <1>1, <3>1, <3>2
    <2>4. codes # {} /\ later # {} /\ n + 1 - 1 = n
      BY <1>3, <2>1
    <2> HIDE DEF codes, later
    <2>5. SplitNALU(data, atEOF) = [advance |-> n, token |-> SubSeq(data, 1, n)]
      <3>1. WholeStart(data, Min(later)) - 1 = n
        BY <2>2, <2>3, <2>4
      <3> QED BY <1>12, <2>4, <3>1
    <2> QED BY <1>13, <2>5
  <1>14. CASE ~(Len(data) >= n + y + 1)
    <2>1. later = {}
      <3>1. ASSUME NEW i \in later PROVE FALSE
        <4>1. i \in 1 .. Len(data) - 2 /\ i >= n + y - 1
          BY <1>2, <1>9, <3>1
        <4>2. i <= Len(data) - 2 /\ i \in Int /\ Len(data) \in Nat /\ n \in Nat /\ y \in {2, 3}
          BY <1>1, <4>1
        <4> HIDE DEF y
        <4> QED BY <1>14, <4>1, <4>2
      <3> QED BY <3>1
    <2>2. codes # {} /\ SubSeq(data, 1, Len(data)) = data /\ 1 - 1 = 0
      BY <1>3, SubSeqFull
    <2> HIDE DEF codes, later
    <2>3. SplitNALU(data, atEOF) = IF atEOF THEN [advance |-> Len(data), token |-> data]
                                    ELSE [advance |-> 0, token |-> << >>]
      BY <1>12, <2>1, <2>2
    <2> QED BY <1>14, <2>3
  <1> QED BY <1>13, <1>14

\* Nothing to split.
LEMMA SplitEmpty ==
  ASSUME NEW atEOF \in BOOLEAN
  PROVE  SplitNALU(<< >>, atEOF) = [advance |-> 0, token |-> << >>]
  <1>1. StartCodes(<< >>) = {}
    BY DEF StartCodes
  <1>2. Len(<< >>) = 0
    OBVIOUS
  <1> QED BY <1>1, <1>2 DEF SplitNALU

\* A prefix, byte by byte.
LEMMA PrefixIs ==
  ASSUME NEW s \in Seq(Nat), NEW t \in Seq(Nat)
  PROVE  IsPrefix(s, t) <=> Len(s) <= Len(t) /\ \A k \in 1 .. Len(s) : t[k] = s[k]
  <1>1. Len(s) \in Nat /\ Len(t) \in Nat /\ SubSeq(s, 1, Len(s)) = s
    BY LenProperties, SubSeqFull
  <1> SUFFICES ASSUME Len(s) <= Len(t)
               PROVE  s = SubSeq(t, 1, Len(s)) <=> \A k \in 1 .. Len(s) : t[k] = s[k]
    BY <1>1 DEF IsPrefix
  <1> DEFINE p == SubSeq(t, 1, Len(s))
  <1>2. p \in Seq(Nat) /\ Len(p) = Len(s) /\ \A k \in 1 .. Len(s) : p[k] = t[k]
    <2>1. 1 \in Int /\ Len(s) \in Int /\ \A k \in 1 .. Len(s) : t[k] \in Nat
      BY <1>1, ElementOfSeq
    <2>2. /\ p \in Seq(Nat) /\ Len(p) = IF 1 <= Len(s) THEN Len(s) - 1 + 1 ELSE 0
          /\ \A k \in 1 .. Len(s) - 1 + 1 : p[k] = t[1 + k - 1]
      BY <2>1, SubSeqProperties
    <2> HIDE DEF p
    <2> QED BY <1>1, <2>2
  <1> HIDE DEF p
  <1>3. s = p <=> \A k \in 1 .. Len(s) : t[k] = s[k]
    BY <1>1, <1>2, SeqEqual
  <1> QED BY <1>3 DEF p

\* UnitsLeft, for units n to c of us, of which those up to kept are coded in full.
Placed(at, n, c, kept, left, us) ==
  /\ at \in [n .. c + 1 -> Nat]
  /\ at[n] = 0 /\ at[c + 1] = Len(left)
  /\ \A i, j \in n .. c + 1 : i < j => at[i] < at[j]
  /\ \A j \in n .. c :
       LET bytes == Bytes(us[j]) IN
       /\ IF j <= kept THEN at[j + 1] = at[j] + Len(bytes) ELSE at[j + 1] < at[j] + Len(bytes)
       /\ \A k \in 1 .. at[j + 1] - at[j] : left[at[j] + k] = bytes[k]

\* What the scanner may find in its buffer b: nothing, the next unit, or all that
\* an encoder has left that was killed.
SplitsInto(s, n, c, kept, b, e, us) ==
  \/ s.token = << >> /\ (~e => s.advance = 0) /\ (e => n > kept)
  \/ /\ n <= kept /\ n <= c /\ s.token = Bytes(us[n]) /\ s.advance = Len(Bytes(us[n]))
     /\ s.advance <= Len(b)
  \/ /\ e /\ s.token = b /\ s.advance = Len(b) /\ kept = c - 1 /\ n = kept
     /\ IsPrefix(Bytes(us[n]), b)
  \/ e /\ s.token = b /\ s.advance = Len(b) /\ kept = c - 1 /\ n = c

\* What the scanner makes of its buffer b, with p still in the pipe: nothing until
\* a unit is complete and after the last one, or the next unit, or else the end
\* of the bytes of an encoder that was killed.
LEMMA SplitPlaced ==
  ASSUME NEW us \in Seq(Unit), NEW n \in Nat, NEW c \in Nat, n >= 1, n <= c + 1, c <= Len(us),
         NEW kept \in {c, c - 1}, NEW b \in Seq(Nat), NEW p \in Seq(Nat), NEW e \in BOOLEAN,
         e => p = << >>, NEW at, Placed(at, n, c, kept, b \o p, us)
  PROVE  SplitsInto(SplitNALU(b, e), n, c, kept, b, e, us)
  <1> SUFFICES LET s == SplitNALU(b, e) IN
               \/ s.token = << >> /\ (~e => s.advance = 0) /\ (e => n > kept)
               \/ /\ n <= kept /\ n <= c /\ s.token = Bytes(us[n]) /\ s.advance = Len(Bytes(us[n]))
                  /\ s.advance <= Len(b)
               \/ /\ e /\ s.token = b /\ s.advance = Len(b) /\ kept = c - 1 /\ n = kept
                  /\ IsPrefix(Bytes(us[n]), b)
               \/ e /\ s.token = b /\ s.advance = Len(b) /\ kept = c - 1 /\ n = c
    BY DEF SplitsInto
  <1> DEFINE left == b \o p
             s == SplitNALU(b, e)
             u == us[n]
             m == at[n + 1]
  <1>1. Len(b) \in Nat /\ Len(p) \in Nat /\ Len(us) \in Nat /\ (e => Len(p) = 0)
    BY LenProperties
  <1>2. left \in Seq(Nat) /\ Len(left) = Len(b) + Len(p) /\ \A k \in 1 .. Len(b) : left[k] = b[k]
    <2>1. /\ left \in Seq(Nat) /\ Len(left) = Len(b) + Len(p)
          /\ \A i \in 1 .. Len(b) + Len(p) : left[i] = IF i <= Len(b) THEN b[i] ELSE p[i - Len(b)]
      BY ConcatProperties
    <2> HIDE DEF left
    <2>2. \A k \in 1 .. Len(b) : k \in 1 .. Len(b) + Len(p) /\ k <= Len(b)
      BY <1>1
    <2> QED BY <2>1, <2>2
  <1>3. /\ at \in [n .. c + 1 -> Nat] /\ at[n] = 0 /\ at[c + 1] = Len(left)
        /\ \A i, j \in n .. c + 1 : i < j => at[i] < at[j]
        /\ \A j \in n .. c :
             /\ j <= kept => at[j + 1] = at[j] + Len(Bytes(us[j]))
             /\ j > kept => at[j + 1] < at[j] + Len(Bytes(us[j]))
             /\ \A k \in 1 .. at[j + 1] - at[j] : left[at[j] + k] = Bytes(us[j])[k]
    <2> HIDE DEF left
    <2>1. Placed(at, n, c, kept, left, us)
      BY DEF left
    <2>2. c \in Int /\ kept \in Int
      OBVIOUS
    <2> QED BY <2>1, <2>2 DEF Placed
  <1> HIDE DEF left, s, u, m
  <1>4. CASE n = c + 1
    <2>1. Len(b) = 0
      BY <1>1, <1>2, <1>3, <1>4
    <2>2. b = << >>
      BY <2>1, EmptySeq
    <2>3. s.advance = 0 /\ s.token = << >>
      BY <2>2, SplitEmpty DEF s
    <2> QED BY <1>4, <2>3 DEF s
  <1>5. ASSUME n <= c
        PROVE  /\ u \in Unit /\ m \in Nat /\ n \in n .. c /\ n + 1 \in n .. c + 1 /\ Len(Bytes(u)) \in Nat
               /\ n <= kept => m = Len(Bytes(u))
               /\ n > kept => m < Len(Bytes(u))
               /\ \A k \in 1 .. m : left[k] = Bytes(u)[k]
               /\ m <= Len(left) /\ (m = Len(left) => n = c)
    <2>1. n \in n .. c /\ n + 1 \in n .. c + 1 /\ c + 1 \in n .. c + 1 /\ n \in 1 .. Len(us)
      BY <1>1, <1>5
    <2>2. u \in Unit /\ m \in Nat /\ Len(Bytes(u)) \in Nat
      <3>1. u \in Unit
        BY <2>1, ElementOfSeq DEF u
      <3> QED BY <1>3, <2>1, <3>1, BytesOf DEF m
    <2>3. (n <= kept => m = 0 + Len(Bytes(u))) /\ (n > kept => m < 0 + Len(Bytes(u)))
      BY <1>3, <2>1 DEF m, u
    <2>4. \A k \in 1 .. m - 0 : left[0 + k] = Bytes(u)[k]
      BY <1>3, <2>1 DEF m, u
    <2>5. n + 1 < c + 1 => m < Len(left)
      BY <1>3, <2>1 DEF m
    <2>6. n + 1 = c + 1 => m = Len(left)
      BY <1>3 DEF m
    <2>7. m <= Len(left) /\ (m = Len(left) => n = c)
      <3>1. n + 1 < c + 1 \/ n = c
        BY <1>5
      <3>2. Len(left) \in Nat
        BY <1>1, <1>2
      <3>3. CASE n + 1 < c + 1
        BY <2>2, <2>5, <3>2, <3>3
      <3>4. CASE n = c
        BY <2>2, <2>6, <3>4
      <3> QED BY <3>1, <3>3, <3>4
    <2>8. \A k \in 1 .. m : left[k] = Bytes(u)[k]
      BY <2>2, <2>4
    <2> QED BY <2>1, <2>2, <2>3, <2>7, <2>8
  <1>6. CASE n <= c /\ Len(b) <= m
    <2>1. Len(b) <= Len(Bytes(u)) /\ \A k \in 1 .. Len(b) : b[k] = Bytes(u)[k]
      <3>1. Len(b) <= Len(Bytes(u))
        BY <1>1, <1>5, <1>6
      <3>2. \A k \in 1 .. Len(b) : k \in 1 .. m
        BY <1>1, <1>5, <1>6
      <3> QED BY <1>2, <1>5, <1>6, <3>1, <3>2
    <2>2. s = IF ~e THEN [advance |-> 0, token |-> << >>]
              ELSE [advance |-> Len(b), token |-> IF Len(b) >= u.zeros + 1 THEN b ELSE << >>]
      BY <1>5, <1>6, <2>1, SplitPart DEF s
    <2>3. CASE ~e
      BY <2>2, <2>3 DEF s
    <2>4. CASE e
      <3>1. Len(b) = m /\ n = c
        BY <1>1, <1>2, <1>5, <1>6, <2>4
      <3>2. CASE n <= kept
        <4>1. Len(b) = Len(Bytes(u)) /\ Len(b) >= u.zeros + 1 /\ Bytes(u) \in Seq(Nat)
          <5>1. Len(Bytes(u)) >= u.zeros + 2 /\ u.zeros \in Nat /\ Bytes(u) \in Seq(Nat)
            <6>1. u \in Unit
              BY <1>5, <1>6
            <6> QED BY <6>1, BytesLen
          <5> QED BY <1>1, <1>5, <1>6, <3>1, <3>2, <5>1
        <4>2. b = Bytes(u)
          BY <2>1, <4>1, SeqEqual
        <4>3. s.token = b /\ s.advance = Len(b)
          BY <2>2, <2>4, <4>1
        <4> QED BY <1>1, <3>1, <3>2, <4>2, <4>3 DEF s, u
      <3>3. CASE n > kept
        <4>1. kept = c - 1
          BY <3>1, <3>3
        <4>2. s.advance = Len(b) /\ (s.token = b \/ s.token = << >>)
          BY <2>2, <2>4
        <4> QED BY <2>4, <3>1, <3>3, <4>1, <4>2 DEF s
      <3>4. n \in Int /\ kept \in Int
        OBVIOUS
      <3> QED BY <3>2, <3>3, <3>4
    <2> QED BY <2>3, <2>4
  <1>7. CASE n <= c /\ ~(Len(b) <= m)
    <2> DEFINE v == us[n + 1]
    <2>1. n < c /\ n <= kept /\ m = Len(Bytes(u)) /\ n + 1 \in n .. c /\ n + 2 \in n .. c + 1
      <3>1. n # c
        <4>1. ASSUME n = c PROVE FALSE
          <5>1. m = Len(left)
            BY <1>3, <4>1 DEF m
          <5> QED BY <1>1, <1>2, <1>7, <5>1
        <4> QED BY <4>1
      <3>2. n < c /\ n <= kept
        BY <1>7, <3>1
      <3>3. n + 1 \in n .. c /\ n + 2 \in n .. c + 1
        BY <3>2
      <3>4. m = Len(Bytes(u))
        BY <1>5, <3>2
      <3> QED BY <3>2, <3>3, <3>4
    <2>2. v \in Unit
      <3>1. n + 1 \in 1 .. Len(us)
        BY <1>1, <2>1
      <3> QED BY <3>1, ElementOfSeq
    <2> HIDE DEF v
    <2>3. /\ Len(Bytes(v)) \in Nat /\ Len(Bytes(v)) >= v.zeros + 2 /\ v.zeros \in Nat
          /\ Len(Bytes(u)) >= u.zeros + 2 /\ u.zeros \in Nat /\ Bytes(u) \in Seq(Nat)
      <3>1. u \in Unit
        BY <1>5, <1>7
      <3>2. Len(Bytes(u)) >= u.zeros + 2 /\ u.zeros \in Nat /\ Bytes(u) \in Seq(Nat)
        BY <3>1, BytesLen
      <3>3. Len(Bytes(v)) \in Nat /\ Len(Bytes(v)) >= v.zeros + 2 /\ v.zeros \in Nat
        BY <2>2, BytesLen
      <3> QED BY <3>2, <3>3
    <2>4. /\ n + 1 <= kept => at[n + 2] = m + Len(Bytes(v))
          /\ at[n + 2] \in Nat
          /\ \A k \in 1 .. at[n + 2] - m : left[m + k] = Bytes(v)[k]
      <3>1. n + 1 + 1 = n + 2
        OBVIOUS
      <3>2. n + 1 <= kept => at[n + 1 + 1] = at[n + 1] + Len(Bytes(us[n + 1]))
        BY <1>3, <2>1
      <3>3. \A k \in 1 .. at[n + 1 + 1] - at[n + 1] : left[at[n + 1] + k] = Bytes(us[n + 1])[k]
        BY <1>3, <2>1
      <3>4. at[n + 2] \in Nat
        BY <1>3, <2>1
      <3> QED BY <3>1, <3>2, <3>3, <3>4 DEF m, v
    <2>5. n + 1 > kept => n + 1 = c /\ kept = c - 1 /\ at[n + 2] = Len(left)
      <3>1. ASSUME n + 1 > kept PROVE n + 1 = c /\ kept = c - 1
        BY <2>1, <3>1
      <3>2. n + 1 = c => at[n + 2] = Len(left)
        <4>1. ASSUME n + 1 = c PROVE n + 2 = c + 1
          BY <4>1
        <4> QED BY <1>3, <4>1
      <3> QED BY <3>1, <3>2
    <2>6. ASSUME NEW k \in 1 .. Len(Bytes(v)), m + k <= Len(b) PROVE b[m + k] = Bytes(v)[k]
      <3>1. k \in 1 .. at[n + 2] - m
        <4>1. k \in Nat /\ k >= 1 /\ k <= Len(Bytes(v))
          BY <2>3
        <4>2. CASE n + 1 <= kept
          BY <1>5, <1>7, <2>3, <2>4, <4>1, <4>2
        <4>3. CASE n + 1 > kept
          <5>1. m \in Nat
            BY <1>5, <1>7
          <5>2. at[n + 2] = Len(b) + Len(p)
            BY <1>2, <2>5, <4>3
          <5>3. k <= Len(b) - m
            BY <1>1, <2>6, <4>1, <5>1
          <5> QED BY <1>1, <4>1, <5>1, <5>2, <5>3
        <4>4. n + 1 \in Int /\ kept \in Int
          OBVIOUS
        <4> QED BY <4>2, <4>3, <4>4
      <3>2. m + k \in 1 .. Len(b)
        <4>1. m \in Nat /\ k \in Nat /\ k >= 1
          BY <1>5, <1>7, <2>3
        <4> QED BY <1>1, <2>6, <4>1
      <3> QED BY <1>2, <2>4, <3>1, <3>2
    <2>7. m <= Len(b) /\ \A k \in 1 .. m : b[k] = Bytes(u)[k]
      <3>1. m <= Len(b) /\ \A k \in 1 .. m : k \in 1 .. Len(b)
        BY <1>1, <1>5, <1>7
      <3> QED BY <1>2, <1>5, <1>7, <3>1
    <2>8. s = IF Len(b) >= m + v.zeros + 1 THEN [advance |-> m, token |-> SubSeq(b, 1, m)]
              ELSE IF e THEN [advance |-> Len(b), token |-> b]
              ELSE [advance |-> 0, token |-> << >>]
      <3>1. u \in Unit /\ m \in Nat
        BY <1>5, <1>7
      <3>2. \A k \in 1 .. Len(Bytes(v)) : m + k <= Len(b) => b[m + k] = Bytes(v)[k]
        BY <2>6
      <3>3. m = Len(Bytes(u)) /\ m <= Len(b) /\ \A k \in 1 .. m : b[k] = Bytes(u)[k]
        BY <2>1, <2>7
      <3>4. IsFirst(u, b) /\ IsNext(v, Len(Bytes(u)), b)
        BY <3>2, <3>3 DEF IsFirst, IsNext
      <3>5. SplitNALU(b, e) =
              IF Len(b) >= m + v.zeros + 1 THEN [advance |-> m, token |-> SubSeq(b, 1, m)]
              ELSE IF e THEN [advance |-> Len(b), token |-> b]
              ELSE [advance |-> 0, token |-> << >>]
        BY <2>2, <3>1, <3>3, <3>4, SplitWhole
      <3> QED BY <3>5 DEF s
    <2>9. CASE Len(b) >= m + v.zeros + 1
      <3>1. SubSeq(b, 1, m) \in Seq(Nat) /\ Len(SubSeq(b, 1, m)) = m
            /\ \A k \in 1 .. m : SubSeq(b, 1, m)[k] = b[k]
        <4>1. 1 \in Int /\ m \in Int /\ \A k \in 1 .. m : b[k] \in Nat
          BY <1>1, <1>5, <1>7, <2>7, ElementOfSeq
        <4>2. /\ SubSeq(b, 1, m) \in Seq(Nat) /\ Len(SubSeq(b, 1, m)) = IF 1 <= m THEN m - 1 + 1 ELSE 0
              /\ \A k \in 1 .. m - 1 + 1 : SubSeq(b, 1, m)[k] = b[1 + k - 1]
          BY <4>1, SubSeqProperties
        <4>3. m - 1 + 1 = m /\ (IF 1 <= m THEN m - 1 + 1 ELSE 0) = m /\ \A k \in 1 .. m : 1 + k - 1 = k
          BY <1>5, <1>7
        <4> QED BY <4>2, <4>3
      <3>2. SubSeq(b, 1, m) = Bytes(u)
        BY <2>1, <2>3, <2>7, <3>1, SeqEqual
      <3>3. s.advance = m /\ s.token = Bytes(u)
        BY <2>8, <2>9, <3>2
      <3> QED BY <1>7, <2>1, <2>7, <3>3 DEF s, u
    <2>10. CASE ~(Len(b) >= m + v.zeros + 1) /\ e
      <3>1. ~(n + 1 <= kept)
        <4>1. ASSUME n + 1 <= kept PROVE FALSE
          <5>1. at[n + 2] <= Len(left)
            <6>1. CASE n + 2 < c + 1
              <7>1. c + 1 \in n .. c + 1
                BY <1>7
              <7>2. at[n + 2] < at[c + 1]
                BY <1>3, <2>1, <6>1, <7>1
              <7> QED BY <1>1, <1>2, <1>3, <2>4, <7>2
            <6>2. CASE n + 2 = c + 1
              BY <1>1, <1>2, <1>3, <6>2
            <6> QED BY <2>1, <6>1, <6>2
          <5>2. Len(left) = Len(b)
            BY <1>1, <1>2, <2>10
          <5>3. m \in Nat
            BY <1>5, <1>7
          <5>4. m + Len(Bytes(v)) <= Len(b)
            BY <2>4, <4>1, <5>1, <5>2
          <5>5. /\ Len(b) \in Nat /\ Len(Bytes(v)) \in Nat /\ v.zeros \in Nat
                /\ Len(Bytes(v)) >= v.zeros + 2
            BY <1>1, <2>3
          <5> QED BY <2>10, <5>3, <5>4, <5>5
        <4> QED BY <4>1
      <3>2. n + 1 = c /\ kept = c - 1
        BY <2>1, <2>5, <3>1
      <3>3. IsPrefix(Bytes(u), b)
        BY <2>1, <2>3, <2>7, PrefixIs
      <3>4. s.advance = Len(b) /\ s.token = b
        BY <2>8, <2>10
      <3>5. n = kept
        BY <3>2
      <3> QED BY <2>10, <3>2, <3>3, <3>4, <3>5 DEF s, u
    <2>11. CASE ~(Len(b) >= m + v.zeros + 1) /\ ~e
      <3>1. s.advance = 0 /\ s.token = << >>
        BY <2>8, <2>11
      <3> QED BY <2>11, <3>1 DEF s
    <2> QED BY <2>9, <2>10, <2>11
  <1>8. n = c + 1 \/ n <= c
    OBVIOUS
  <1> QED BY <1>4, <1>6, <1>7, <1>8

\* One sequence behind another.
LEMMA ConcatAt ==
  ASSUME NEW a \in Seq(Nat), NEW b \in Seq(Nat)
  PROVE  /\ a \o b \in Seq(Nat) /\ Len(a \o b) = Len(a) + Len(b)
         /\ \A k \in 1 .. Len(a) : (a \o b)[k] = a[k]
         /\ \A k \in 1 .. Len(b) : (a \o b)[Len(a) + k] = b[k]
  <1> DEFINE c == a \o b
  <1>1. Len(a) \in Nat /\ Len(b) \in Nat
    BY LenProperties
  <1>2. /\ c \in Seq(Nat) /\ Len(c) = Len(a) + Len(b)
        /\ \A i \in 1 .. Len(a) + Len(b) : c[i] = IF i <= Len(a) THEN a[i] ELSE b[i - Len(a)]
    BY ConcatProperties
  <1> HIDE DEF c
  <1>3. ASSUME NEW k \in 1 .. Len(b) PROVE c[Len(a) + k] = b[k]
    <2>1. /\ Len(a) + k \in 1 .. Len(a) + Len(b) /\ ~(Len(a) + k <= Len(a))
          /\ (Len(a) + k) - Len(a) = k
      BY <1>1
    <2> QED BY <1>2, <2>1
  <1>4. \A k \in 1 .. Len(a) : c[k] = a[k]
    BY <1>1, <1>2
  <1> QED BY <1>2, <1>3, <1>4 DEF c

\* The encoder writes a unit, or the first bytes of one.
LEMMA PlacedMore ==
  ASSUME NEW us \in Seq(Unit), NEW n \in Nat, NEW c \in Nat, n >= 1, n <= c + 1, c + 1 <= Len(us),
         NEW left \in Seq(Nat), NEW more \in Seq(Nat), NEW at, Placed(at, n, c, c, left, us),
         NEW kept \in {c, c + 1}, Len(more) > 0,
         kept = c + 1 => Len(more) = Len(Bytes(us[c + 1])),
         kept = c => Len(more) < Len(Bytes(us[c + 1])),
         \A k \in 1 .. Len(more) : more[k] = Bytes(us[c + 1])[k]
  PROVE  \E new : Placed(new, n, c + 1, kept, left \o more, us)
  <1> DEFINE all == left \o more
             new == [j \in n .. c + 2 |-> IF j = c + 2 THEN Len(left) + Len(more) ELSE at[j]]
  <1>1. Len(left) \in Nat /\ Len(more) \in Nat
    BY LenProperties
  <1>2. /\ all \in Seq(Nat) /\ Len(all) = Len(left) + Len(more)
        /\ \A k \in 1 .. Len(left) : all[k] = left[k]
        /\ \A k \in 1 .. Len(more) : all[Len(left) + k] = more[k]
    <2>1. /\ all \in Seq(Nat) /\ Len(all) = Len(left) + Len(more)
          /\ \A i \in 1 .. Len(left) + Len(more) :
               all[i] = IF i <= Len(left) THEN left[i] ELSE more[i - Len(left)]
      BY ConcatProperties
    <2> HIDE DEF all
    <2>2. ASSUME NEW k \in 1 .. Len(more) PROVE all[Len(left) + k] = more[k]
      <3>1. /\ Len(left) + k \in 1 .. Len(left) + Len(more) /\ ~(Len(left) + k <= Len(left))
            /\ (Len(left) + k) - Len(left) = k
        BY <1>1
      <3> QED BY <2>1, <3>1
    <2>3. \A k \in 1 .. Len(left) : k \in 1 .. Len(left) + Len(more) /\ k <= Len(left)
      BY <1>1
    <2> QED BY <2>1, <2>2, <2>3
  <1> HIDE DEF all
  <1>3. /\ at \in [n .. c + 1 -> Nat] /\ at[n] = 0 /\ at[c + 1] = Len(left)
        /\ \A i, j \in n .. c + 1 : i < j => at[i] < at[j]
        /\ \A j \in n .. c :
             /\ at[j + 1] = at[j] + Len(Bytes(us[j]))
             /\ \A k \in 1 .. at[j + 1] - at[j] : left[at[j] + k] = Bytes(us[j])[k]
    BY DEF Placed
  <1>4. \A j \in n .. c + 1 : at[j] \in Nat /\ at[j] <= Len(left)
    <2> TAKE j \in n .. c + 1
    <2>1. c + 1 \in n .. c + 1 /\ at[j] \in Nat
      BY <1>3
    <2>2. j < c + 1 => at[j] < Len(left)
      BY <1>3, <2>1
    <2>3. j < c + 1 \/ j = c + 1
      OBVIOUS
    <2> QED BY <1>1, <1>3, <2>1, <2>2, <2>3
  <1>5. /\ \A j \in n .. c + 1 : new[j] = at[j]
        /\ new[c + 2] = Len(left) + Len(more)
        /\ new \in [n .. c + 2 -> Nat]
    BY <1>1, <1>4
  <1> HIDE DEF new
  <1>6. ASSUME NEW i \in n .. c + 2, NEW j \in n .. c + 2, i < j PROVE new[i] < new[j]
    <2>1. i \in n .. c + 1
      BY <1>6
    <2>2. CASE j = c + 2
      <3>1. new[i] = at[i] /\ at[i] \in Nat /\ at[i] <= Len(left)
        BY <1>4, <1>5, <2>1
      <3>2. new[j] = Len(left) + Len(more)
        BY <1>5, <2>2
      <3>3. Len(more) > 0
        OBVIOUS
      <3> QED BY <1>1, <3>1, <3>2, <3>3
    <2>3. CASE j # c + 2
      <3>1. j \in n .. c + 1
        BY <2>3
      <3> QED BY <1>3, <1>5, <1>6, <2>1, <3>1
    <2> QED BY <2>2, <2>3
  <1>7. ASSUME NEW j \in n .. c + 1
        PROVE  /\ IF j <= kept THEN new[j + 1] = new[j] + Len(Bytes(us[j]))
                  ELSE new[j + 1] < new[j] + Len(Bytes(us[j]))
               /\ \A k \in 1 .. new[j + 1] - new[j] : all[new[j] + k] = Bytes(us[j])[k]
    <2>1. CASE j = c + 1
      <3>1. j + 1 = c + 2 /\ new[j] = Len(left) /\ new[j + 1] = Len(left) + Len(more)
        BY <1>3, <1>5, <2>1
      <3>2. Len(Bytes(us[j])) \in Nat
        <4>1. j \in 1 .. Len(us)
          BY <2>1, LenProperties
        <4>2. us[j] \in Unit
          BY <4>1, ElementOfSeq
        <4> QED BY <4>2, BytesLen
      <3>3. IF j <= kept THEN new[j + 1] = new[j] + Len(Bytes(us[j]))
            ELSE new[j + 1] < new[j] + Len(Bytes(us[j]))
        <4>1. CASE kept = c + 1
          <5>1. Len(more) = Len(Bytes(us[j])) /\ j <= kept
            BY <2>1, <4>1
          <5> QED BY <3>1, <5>1
        <4>2. CASE kept = c
          <5>1. Len(more) < Len(Bytes(us[j])) /\ ~(j <= kept)
            BY <2>1, <4>2
          <5> QED BY <1>1, <3>1, <3>2, <5>1
        <4> QED BY <4>1, <4>2
      <3>4. new[j + 1] - new[j] = Len(more)
        BY <1>1, <3>1
      <3> QED BY <1>2, <2>1, <3>1, <3>3, <3>4
    <2>2. CASE j # c + 1
      <3>1. j \in n .. c /\ j + 1 \in n .. c + 1 /\ j <= kept
        BY <2>2
      <3>2. new[j] = at[j] /\ new[j + 1] = at[j + 1] /\ at[j] \in Nat /\ at[j + 1] \in Nat /\ at[j + 1] <= Len(left)
        BY <1>4, <1>5, <3>1
      <3>3. ASSUME NEW k \in 1 .. at[j + 1] - at[j] PROVE all[at[j] + k] = Bytes(us[j])[k]
        <4>1. at[j] + k \in 1 .. Len(left)
          <5>1. k \in Nat /\ k >= 1 /\ k <= at[j + 1] - at[j]
            BY <3>2
          <5> DEFINE a == at[j]
                     b == at[j + 1]
                     l == Len(left)
          <5>2. a \in Nat /\ b \in Nat /\ l \in Nat /\ b <= l /\ k <= b - a
            BY <1>1, <3>2, <5>1
          <5> HIDE DEF a, b, l
          <5>3. a + k \in 1 .. l
            BY <5>1, <5>2
          <5> QED BY <5>3 DEF a, l
        <4> QED BY <1>2, <1>3, <3>1, <4>1
      <3> QED BY <1>3, <3>1, <3>2, <3>3
    <2> QED BY <2>1, <2>2
  <1>8. Placed(new, n, c + 1, kept, all, us)
    <2>1. c + 1 + 1 = c + 2 /\ n \in n .. c + 1
      OBVIOUS
    <2> QED BY <1>2, <1>3, <1>5, <1>6, <1>7, <2>1 DEF Placed
  <1> QED BY <1>8 DEF all

\* What is left but for the first m.
IsRest(rest, m, left) ==
  Len(rest) = Len(left) - m /\ \A k \in 1 .. Len(rest) : rest[k] = left[m + k]

\* A place between a and b, counted from m on.
LEMMA PlaceMoved ==
  ASSUME NEW m \in Nat, NEW a \in Nat, NEW b \in Nat, NEW l \in Nat, m <= a, b <= l,
         NEW k \in 1 .. (b - m) - (a - m)
  PROVE  /\ k \in 1 .. b - a /\ (a - m) + k \in 1 .. l - m
         /\ m + ((a - m) + k) = a + k
  <1>1. k \in Nat /\ k >= 1 /\ k <= b - a
    OBVIOUS
  <1> QED BY <1>1

\* The first of them is taken.
LEMMA PlacedNext ==
  ASSUME NEW us \in Seq(Unit), NEW n \in Nat, NEW c \in Nat, n >= 1, n <= c, c <= Len(us),
         NEW kept \in {c, c - 1}, NEW left \in Seq(Nat), NEW at, Placed(at, n, c, kept, left, us),
         NEW rest \in Seq(Nat), IsRest(rest, at[n + 1], left)
  PROVE  \E new : Placed(new, n + 1, c, kept, rest, us)
  <1> Len(rest) = Len(left) - at[n + 1] /\ \A k \in 1 .. Len(rest) : rest[k] = left[at[n + 1] + k]
    BY DEF IsRest
  <1> DEFINE m == at[n + 1]
             new == [j \in n + 1 .. c + 1 |-> at[j] - m]
  <1>1. /\ at \in [n .. c + 1 -> Nat] /\ at[c + 1] = Len(left)
        /\ \A i, j \in n .. c + 1 : i < j => at[i] < at[j]
        /\ \A j \in n .. c :
             /\ j <= kept => at[j + 1] = at[j] + Len(Bytes(us[j]))
             /\ ~(j <= kept) => at[j + 1] < at[j] + Len(Bytes(us[j]))
             /\ \A k \in 1 .. at[j + 1] - at[j] : left[at[j] + k] = Bytes(us[j])[k]
    BY DEF Placed
  <1>2. n + 1 \in n .. c + 1 /\ m \in Nat /\ Len(left) \in Nat /\ Len(rest) \in Nat
    BY <1>1, LenProperties
  <1> HIDE DEF m
  <1>3. \A j \in n + 1 .. c + 1 : j \in n .. c + 1 /\ at[j] \in Nat /\ at[j] >= m /\ at[j] <= Len(left)
    <2> TAKE j \in n + 1 .. c + 1
    <2>0. j \in n .. c + 1 /\ c + 1 \in n .. c + 1
      OBVIOUS
    <2>1. j \in n .. c + 1 /\ c + 1 \in n .. c + 1 /\ at[j] \in Nat
      BY <1>1, <2>0
    <2>2. (n + 1 < j => m < at[j]) /\ (j < c + 1 => at[j] < Len(left))
      BY <1>1, <1>2, <2>1 DEF m
    <2>3. (n + 1 < j \/ n + 1 = j) /\ (j < c + 1 \/ j = c + 1)
      OBVIOUS
    <2>4. (n + 1 = j => m = at[j]) /\ (j = c + 1 => at[j] = Len(left))
      BY <1>1 DEF m
    <2> QED BY <1>2, <2>1, <2>2, <2>3, <2>4
  <1>4. new \in [n + 1 .. c + 1 -> Nat] /\ \A j \in n + 1 .. c + 1 : new[j] = at[j] - m
    BY <1>2, <1>3
  <1> HIDE DEF new
  <1>5. new[n + 1] = 0 /\ new[c + 1] = Len(rest)
    <2>1. n + 1 \in n + 1 .. c + 1 /\ c + 1 \in n + 1 .. c + 1
      OBVIOUS
    <2> QED BY <1>1, <1>2, <1>4, <2>1 DEF m
  <1>6. ASSUME NEW i \in n + 1 .. c + 1, NEW j \in n + 1 .. c + 1, i < j PROVE new[i] < new[j]
    <2>1. at[i] < at[j] /\ at[i] \in Nat /\ at[j] \in Nat
      BY <1>1, <1>3, <1>6
    <2>2. new[i] = at[i] - m /\ new[j] = at[j] - m
      BY <1>4
    <2> QED BY <1>2, <2>1, <2>2
  <1>7. ASSUME NEW j \in n + 1 .. c
        PROVE  /\ IF j <= kept THEN new[j + 1] = new[j] + Len(Bytes(us[j]))
                  ELSE new[j + 1] < new[j] + Len(Bytes(us[j]))
               /\ \A k \in 1 .. new[j + 1] - new[j] : rest[new[j] + k] = Bytes(us[j])[k]
    <2>1. j \in n + 1 .. c + 1 /\ j + 1 \in n + 1 .. c + 1 /\ j \in n .. c /\ j \in Int /\ kept \in Int
      OBVIOUS
    <2>2. /\ new[j] = at[j] - m /\ new[j + 1] = at[j + 1] - m
          /\ at[j] \in Nat /\ at[j + 1] \in Nat /\ at[j] >= m /\ at[j + 1] <= Len(left)
      BY <1>3, <1>4, <2>1
    <2>3. Len(Bytes(us[j])) \in Nat
      <3>1. j \in 1 .. Len(us)
        BY LenProperties
      <3>2. us[j] \in Unit
        BY <3>1, ElementOfSeq
      <3> QED BY <3>2, BytesLen
    <2>4. /\ j <= kept => new[j + 1] = new[j] + Len(Bytes(us[j]))
          /\ ~(j <= kept) => new[j + 1] < new[j] + Len(Bytes(us[j]))
      <3>1. j <= kept => at[j + 1] = at[j] + Len(Bytes(us[j]))
        BY <1>1, <2>1
      <3>2. ~(j <= kept) => at[j + 1] < at[j] + Len(Bytes(us[j]))
        BY <1>1, <2>1
      <3> DEFINE x == at[j]
                 y == at[j + 1]
                 l == Len(Bytes(us[j]))
      <3>3. /\ x \in Nat /\ y \in Nat /\ l \in Nat /\ m \in Nat
            /\ new[j] = x - m /\ new[j + 1] = y - m
        BY <1>2, <2>2, <2>3
      <3>4. (j <= kept => y = x + l) /\ (~(j <= kept) => y < x + l)
        BY <3>1, <3>2
      <3> HIDE DEF x, y, l
      <3>5. (y = x + l => y - m = x - m + l) /\ (y < x + l => y - m < x - m + l)
        BY <3>3
      <3> QED BY <3>3, <3>4, <3>5 DEF l
    <2>5. ASSUME NEW k \in 1 .. new[j + 1] - new[j] PROVE rest[new[j] + k] = Bytes(us[j])[k]
      <3>1. k \in 1 .. at[j + 1] - at[j] /\ new[j] + k \in 1 .. Len(left) - m /\ m + (new[j] + k) = at[j] + k
        <4>1. /\ at[j] \in Nat /\ at[j + 1] \in Nat /\ m \in Nat /\ Len(left) \in Nat
              /\ m <= at[j] /\ at[j + 1] <= Len(left)
              /\ new[j] = at[j] - m /\ new[j + 1] = at[j + 1] - m
          BY <1>2, <2>2
        <4>2. k \in 1 .. (at[j + 1] - m) - (at[j] - m)
          BY <4>1
        <4>3. /\ k \in 1 .. at[j + 1] - at[j] /\ (at[j] - m) + k \in 1 .. Len(left) - m
              /\ m + ((at[j] - m) + k) = at[j] + k
          <5> DEFINE x == at[j]
                     y == at[j + 1]
                     l == Len(left)
          <5>1. /\ x \in Nat /\ y \in Nat /\ m \in Nat /\ l \in Nat /\ m <= x /\ y <= l
                /\ k \in 1 .. (y - m) - (x - m)
            BY <4>1, <4>2
          <5> HIDE DEF x, y, l
          <5>2. k \in 1 .. y - x /\ (x - m) + k \in 1 .. l - m /\ m + ((x - m) + k) = x + k
            BY <5>1, PlaceMoved
          <5> QED BY <5>2 DEF x, y, l
        <4> QED BY <4>1, <4>3
      <3>2. rest[new[j] + k] = left[m + (new[j] + k)]
        BY <3>1 DEF m
      <3>3. left[at[j] + k] = Bytes(us[j])[k]
        BY <1>1, <2>1, <3>1
      <3> QED BY <3>1, <3>2, <3>3
    <2> QED BY <2>4, <2>5
  <1>8. Placed(new, n + 1, c, kept, rest, us)
    BY <1>4, <1>5, <1>6, <1>7 DEF Placed
  <1> QED BY <1>8

\* None is left.
LEMMA PlacedNone ==
  ASSUME NEW us, NEW n \in Nat, NEW c \in Nat, n = c + 1, NEW kept
  PROVE  \E new : Placed(new, n, c, kept, << >>, us)
  <1> DEFINE new == [j \in {n} |-> 0]
  <1>1. n .. c + 1 = {n} /\ n .. c = {} /\ Len(<< >>) = 0
    OBVIOUS
  <1>2. new \in [n .. c + 1 -> Nat] /\ new[n] = 0
    BY <1>1
  <1> HIDE DEF new
  <1>3. \A i, j \in {n} : ~(i < j)
    OBVIOUS
  <1>4. Placed(new, n, c, kept, << >>, us)
    BY <1>1, <1>2, <1>3 DEF Placed
  <1> QED BY <1>4

-----------------------------------------------------------------------------
(* The encoder and the recorder                                            *)

\* The numbers of the units coded, kept and sent.
LEMMA Counts ==
  ASSUME FramesTypeOK
  PROVE  /\ units \in Seq(Unit) /\ Len(units) \in Nat /\ coded \in Nat /\ coded <= Len(units)
         /\ encoder = "cut" => Kept = coded - 1 /\ Whole = coded - 2 /\ coded >= 1
         /\ encoder # "cut" => Kept = coded /\ Whole = coded
         /\ Kept \in {coded, coded - 1} /\ Kept \in Nat /\ Whole \in Int /\ Whole <= Kept
         /\ received \in Nat /\ Len(wire) \in Nat /\ Sent \in Nat /\ Sent = received + Len(wire)
         /\ Left \in Seq(Nat) /\ Len(Left) = Len(buf) + Len(pipe) /\ Len(buf) \in Nat /\ Len(pipe) \in Nat
  <1>1. /\ units \in Seq(Unit) /\ Len(units) \in Nat /\ coded \in Nat /\ coded <= Len(units)
        /\ received \in Nat /\ Len(wire) \in Nat /\ Len(buf) \in Nat /\ Len(pipe) \in Nat
    BY LenProperties DEF FramesTypeOK
  <1>2. encoder = "cut" => Kept = coded - 1 /\ Whole = coded - 2 /\ coded >= 1
    BY <1>1 DEF FramesTypeOK, Kept, Whole
  <1>3. encoder # "cut" => Kept = coded /\ Whole = coded
    BY DEF Kept, Whole
  <1>4. Left \in Seq(Nat) /\ Len(Left) = Len(buf) + Len(pipe)
    BY ConcatProperties DEF FramesTypeOK, Left
  <1>5. Sent \in Nat /\ Sent = received + Len(wire)
    BY <1>1 DEF Sent
  <1>6. Kept \in {coded, coded - 1} /\ Kept \in Nat /\ Whole \in Int /\ Whole <= Kept
    BY <1>1, <1>2, <1>3
  <1> QED BY <1>1, <1>2, <1>3, <1>4, <1>5, <1>6

\* Of these, the numbers alone.
LEMMA Numbers ==
  ASSUME FramesTypeOK
  PROVE  /\ Len(units) \in Nat /\ coded \in Nat /\ coded <= Len(units)
         /\ encoder = "cut" => Kept = coded - 1 /\ Whole = coded - 2 /\ coded >= 1
         /\ encoder # "cut" => Kept = coded /\ Whole = coded
         /\ Kept \in {coded, coded - 1} /\ Kept \in Nat /\ Whole \in Int /\ Whole <= Kept
         /\ received \in Nat /\ Len(wire) \in Nat /\ Sent \in Nat /\ Sent = received + Len(wire)
  BY Counts

\* UnitsLeft, by that name.
LEMMA LeftPlaced ==
  UnitsLeft <=> \E at : Placed(at, Sent + 1, coded, Kept, Left, units)
  BY DEF UnitsLeft, Placed

\* The same of the next state.
LEMMA LeftPlacedNext ==
  UnitsLeft' <=> \E at : Placed(at, Sent' + 1, coded', Kept', Left', units')
  BY DEF UnitsLeft, Placed

\* What the scanner finds in the buffer.
LEMMA Splits ==
  ASSUME FramesTypeOK, UnitsInOrder
  PROVE  \/ Split.token = << >> /\ (~eof => Split.advance = 0) /\ (eof => Sent >= Kept)
         \/ /\ Sent < Kept /\ Split.token = Bytes(units[Sent + 1])
            /\ Split.advance = Len(Bytes(units[Sent + 1])) /\ Split.advance <= Len(buf)
            /\ UnitsLeft
         \/ /\ eof /\ Split.token = buf /\ Split.advance = Len(buf)
            /\ encoder = "cut" /\ Sent = coded - 2 /\ IsPrefix(Bytes(units[Sent + 1]), buf)
         \/ /\ eof /\ Split.token = buf /\ Split.advance = Len(buf)
            /\ encoder = "cut" /\ Sent = coded - 1
  <1>1. CASE encoder = "cut" /\ Sent = coded - 1 /\ Left = << >>
    <2>1. Len(buf) = 0
      BY <1>1, Counts
    <2>2. buf = << >> /\ eof \in BOOLEAN
      BY <2>1, EmptySeq DEF FramesTypeOK
    <2>3. Split.token = << >> /\ Split.advance = 0
      BY <2>2, SplitEmpty DEF Split
    <2>4. Sent >= Kept
      BY <1>1, Counts
    <2> QED BY <2>3, <2>4
  <1>2. CASE UnitsLeft
    <2> DEFINE n == Sent + 1
    <2>1. PICK at : Placed(at, n, coded, Kept, buf \o pipe, units)
      BY <1>2, LeftPlaced DEF Left
    <2>2. /\ units \in Seq(Unit) /\ n \in Nat /\ n >= 1 /\ coded \in Nat /\ n <= coded + 1
          /\ coded <= Len(units) /\ Kept \in {coded, coded - 1} /\ Kept \in Nat
          /\ buf \in Seq(Nat) /\ pipe \in Seq(Nat) /\ eof \in BOOLEAN /\ (eof => pipe = << >>)
      <3>1. Sent \in Nat /\ Sent <= coded /\ coded \in Nat
        BY Counts DEF UnitsInOrder
      <3>2. n \in Nat /\ n >= 1 /\ n <= coded + 1
        BY <3>1
      <3> QED BY <3>1, <3>2, Counts DEF FramesTypeOK
    <2> HIDE DEF n
    <2>3. \/ Split.token = << >> /\ (~eof => Split.advance = 0) /\ (eof => n > Kept)
          \/ /\ n <= Kept /\ n <= coded /\ Split.token = Bytes(units[n])
             /\ Split.advance = Len(Bytes(units[n])) /\ Split.advance <= Len(buf)
          \/ /\ eof /\ Split.token = buf /\ Split.advance = Len(buf) /\ Kept = coded - 1 /\ n = Kept
             /\ IsPrefix(Bytes(units[n]), buf)
          \/ eof /\ Split.token = buf /\ Split.advance = Len(buf) /\ Kept = coded - 1 /\ n = coded
      <3> DEFINE us == units
                 c == coded
                 kept == Kept
      <3>1. /\ us \in Seq(Unit) /\ n \in Nat /\ n >= 1 /\ c \in Nat /\ n <= c + 1 /\ c <= Len(us)
            /\ kept \in {c, c - 1} /\ buf \in Seq(Nat) /\ pipe \in Seq(Nat)
            /\ eof \in BOOLEAN /\ (eof => pipe = << >>)
        BY <2>2
      <3>2. Placed(at, n, c, kept, buf \o pipe, us)
        BY <2>1
      <3> HIDE DEF us, c, kept
      <3>3. SplitsInto(SplitNALU(buf, eof), n, c, kept, buf, eof, us)
        BY <3>1, <3>2, SplitPlaced
      <3> QED BY <3>3 DEF SplitsInto, Split, us, c, kept
    <2>4. /\ n <= Kept <=> Sent < Kept
          /\ n > Kept <=> Sent >= Kept
          /\ Kept = coded - 1 => encoder = "cut"
          /\ Kept = coded - 1 /\ n = Kept => Sent = coded - 2
          /\ n = coded => Sent = coded - 1
      BY Numbers DEF n
    <2>5. CASE Split.token = << >> /\ (~eof => Split.advance = 0) /\ (eof => n > Kept)
      BY <2>4, <2>5
    <2>6. CASE /\ n <= Kept /\ n <= coded /\ Split.token = Bytes(units[n])
               /\ Split.advance = Len(Bytes(units[n])) /\ Split.advance <= Len(buf)
      BY <1>2, <2>4, <2>6 DEF n
    <2>7. CASE /\ eof /\ Split.token = buf /\ Split.advance = Len(buf) /\ Kept = coded - 1 /\ n = Kept
               /\ IsPrefix(Bytes(units[n]), buf)
      BY <2>4, <2>7 DEF n
    <2>8. CASE eof /\ Split.token = buf /\ Split.advance = Len(buf) /\ Kept = coded - 1 /\ n = coded
      BY <2>4, <2>8
    <2> QED BY <2>3, <2>5, <2>6, <2>7, <2>8
  <1> QED BY <1>1, <1>2 DEF UnitsInOrder

\* A unit is sent.
LEMMA PushFrameStep ==
  ASSUME FramesTypeOK, UnitsInOrder, NalsAreWhole, PushFrame
  PROVE  /\ buf' \in Seq(Nat) /\ wire' \in Seq(Seq(Nat))
         /\ UnitsInOrder' /\ NalsAreWhole'
  <1> DEFINE token == Split.token
             a == Split.advance
  <1>1. /\ pushing /\ token # << >> /\ wire' = Append(wire, token) /\ buf' = SubSeq(buf, a + 1, Len(buf))
        /\ UNCHANGED <<stream, coded, pipe, encoder, eof, pushing, received>>
    BY DEF PushFrame, Rest, source, reader
  <1>2. units' = units /\ Kept' = Kept /\ Whole' = Whole
    BY <1>1 DEF Kept, Whole, units
  <1>3. buf \in Seq(Nat) /\ pipe \in Seq(Nat) /\ wire \in Seq(Seq(Nat)) /\ (eof => pipe = << >>)
    BY DEF FramesTypeOK
  <1>4. \/ /\ Sent < Kept /\ token = Bytes(units[Sent + 1]) /\ a = Len(token) /\ a <= Len(buf) /\ UnitsLeft
        \/ /\ eof /\ token = buf /\ a = Len(buf) /\ encoder = "cut" /\ Sent = coded - 2
           /\ IsPrefix(Bytes(units[Sent + 1]), buf)
        \/ eof /\ token = buf /\ a = Len(buf) /\ encoder = "cut" /\ Sent = coded - 1
    BY <1>1, Splits
  <1> HIDE DEF token, a
  <1>5. Sent < coded /\ Sent + 1 \in 1 .. Len(units) /\ units[Sent + 1] \in Unit
    <2>1. Sent < Kept \/ Sent = coded - 2 \/ Sent = coded - 1
      BY <1>4
    <2>2. Sent < coded /\ Sent + 1 \in 1 .. Len(units)
      BY <2>1, Numbers
    <2> QED BY <2>2, Counts, ElementOfSeq
  <1>6. token \in Seq(Nat) /\ a \in 0 .. Len(buf)
    <2>1. Bytes(units[Sent + 1]) \in Seq(Nat) /\ Len(Bytes(units[Sent + 1])) \in Nat
      BY <1>5, BytesLen
    <2>2. Len(buf) \in Nat
      BY Counts
    <2> QED BY <1>3, <1>4, <2>1, <2>2
  <1>7. /\ buf' \in Seq(Nat) /\ Len(buf') = Len(buf) - a
        /\ \A k \in 1 .. Len(buf) - a : buf'[k] = buf[a + k]
    <2>1. Len(buf) \in Nat
      BY Counts
    <2>2. a + 1 \in Int /\ Len(buf) \in Int /\ \A i \in a + 1 .. Len(buf) : buf[i] \in Nat
      BY <1>3, <1>6, <2>1, ElementOfSeq
    <2>3. /\ buf' \in Seq(Nat) /\ Len(buf') = IF a + 1 <= Len(buf) THEN Len(buf) - (a + 1) + 1 ELSE 0
          /\ \A i \in 1 .. Len(buf) - (a + 1) + 1 : buf'[i] = buf[a + 1 + i - 1]
      BY <1>1, <2>2, SubSeqProperties
    <2>4. Len(buf) - (a + 1) + 1 = Len(buf) - a /\ Len(buf') = Len(buf) - a
      BY <1>6, <2>1, <2>3
    <2>5. \A k \in 1 .. Len(buf) - a : a + 1 + k - 1 = a + k
      BY <1>6
    <2> QED BY <2>3, <2>4, <2>5
  <1>8. /\ wire' \in Seq(Seq(Nat)) /\ Len(wire') = Len(wire) + 1
        /\ \A i \in 1 .. Len(wire) : wire'[i] = wire[i]
        /\ wire'[Len(wire) + 1] = token
    BY <1>1, <1>3, <1>6, AppendProperties
  <1>9. Sent' = Sent + 1 /\ DOMAIN wire' = 1 .. Len(wire) + 1 /\ DOMAIN wire = 1 .. Len(wire)
    <2>1. Sent' = received + (Len(wire) + 1)
      BY <1>1, <1>8 DEF Sent
    <2> QED BY <1>3, <1>8, <2>1, Counts, LenProperties
  <1>10. UnitsLeft' \/ (encoder' = "cut" /\ Sent' = coded' - 1 /\ Left' = << >>)
    <2>1. CASE /\ Sent < Kept /\ token = Bytes(units[Sent + 1]) /\ a = Len(token) /\ a <= Len(buf)
               /\ UnitsLeft
      <3> DEFINE n == Sent + 1
                 rest == buf' \o pipe
      <3>1. PICK at : Placed(at, n, coded, Kept, Left, units)
        BY <2>1, LeftPlaced
      <3>2. /\ units \in Seq(Unit) /\ n \in Nat /\ n >= 1 /\ coded \in Nat /\ n <= coded
            /\ coded <= Len(units) /\ Kept \in {coded, coded - 1} /\ n <= Kept
            /\ Left \in Seq(Nat) /\ Len(Left) = Len(buf) + Len(pipe) /\ Len(buf) \in Nat /\ Len(pipe) \in Nat
        <4>1. n >= 1 /\ n <= coded /\ n <= Kept /\ n \in Nat
          BY <2>1, Numbers
        <4> QED BY <4>1, Counts
      <3> HIDE DEF n
      <3>3. at[n + 1] = a
        <4>1. n \in n .. coded /\ at[n] = 0 /\ at[n + 1] = at[n] + Len(Bytes(units[n]))
          <5>1. n \in n .. coded
            BY <3>2
          <5> QED BY <3>1, <3>2, <5>1 DEF Placed
        <4>2. a = Len(Bytes(units[n])) /\ a \in Nat
          BY <1>6, <2>1 DEF n
        <4>3. at[n + 1] = 0 + a
          BY <4>1, <4>2
        <4> QED BY <4>2, <4>3
      <3>4. /\ \A k \in 1 .. Len(buf) : Left[k] = buf[k]
            /\ \A k \in 1 .. Len(pipe) : Left[Len(buf) + k] = pipe[k]
        BY <1>3, ConcatAt DEF Left
      <3>5. /\ rest \in Seq(Nat) /\ Len(rest) = Len(Left) - a
            /\ \A k \in 1 .. Len(rest) : rest[k] = Left[a + k]
        <4>1. /\ rest \in Seq(Nat) /\ Len(rest) = Len(buf') + Len(pipe)
              /\ \A i \in 1 .. Len(buf') + Len(pipe) :
                   rest[i] = IF i <= Len(buf') THEN buf'[i] ELSE pipe[i - Len(buf')]
          BY <1>3, <1>7, ConcatProperties
        <4> HIDE DEF rest
        <4>2. Len(rest) = Len(Left) - a
          BY <1>6, <1>7, <3>2, <4>1
        <4>3. ASSUME NEW k \in 1 .. Len(rest) PROVE rest[k] = Left[a + k]
          <5>1. CASE k <= Len(buf) - a
            <6>1. k \in 1 .. Len(buf) - a /\ a + k \in 1 .. Len(buf)
              BY <1>6, <3>2, <5>1
            <6>2. rest[k] = buf'[k]
              BY <1>7, <4>1, <5>1
            <6> QED BY <1>7, <3>4, <6>1, <6>2
          <5>2. CASE ~(k <= Len(buf) - a)
            <6>1. /\ k - (Len(buf) - a) \in 1 .. Len(pipe)
                  /\ Len(buf) + (k - (Len(buf) - a)) = a + k
              BY <1>6, <3>2, <4>2, <5>2
            <6>2. rest[k] = pipe[k - (Len(buf) - a)]
              BY <1>7, <4>1, <5>2
            <6> QED BY <3>4, <6>1, <6>2
          <5> QED BY <5>1, <5>2
        <4> QED BY <4>1, <4>2, <4>3
      <3> HIDE DEF rest
      <3>6. \E new : Placed(new, n + 1, coded, Kept, rest, units)
        <4>1. IsRest(rest, at[n + 1], Left)
          BY <3>3, <3>5 DEF IsRest
        <4> DEFINE us == units
                   c == coded
                   kept == Kept
                   left == Left
        <4>2. /\ us \in Seq(Unit) /\ n \in Nat /\ n >= 1 /\ c \in Nat /\ n <= c /\ c <= Len(us)
              /\ kept \in {c, c - 1} /\ left \in Seq(Nat) /\ Placed(at, n, c, kept, left, us)
              /\ rest \in Seq(Nat) /\ IsRest(rest, at[n + 1], left)
          BY <3>1, <3>2, <3>5, <4>1
        <4> HIDE DEF us, c, kept, left
        <4>3. \E new : Placed(new, n + 1, c, kept, rest, us)
          BY <4>2, PlacedNext
        <4> QED BY <4>3 DEF us, c, kept
      <3>7. Sent' + 1 = n + 1 /\ Left' = rest
        BY <1>1, <1>9 DEF n, Left, rest
      <3> QED BY <1>1, <1>2, <3>6, <3>7, LeftPlacedNext
    <2>2. CASE /\ eof /\ token = buf /\ a = Len(buf) /\ encoder = "cut"
               /\ Sent = coded - 2 \/ Sent = coded - 1
      <3>1. Len(buf') = 0
        <4>1. Len(buf) \in Nat
          BY Counts
        <4> QED BY <1>7, <2>2, <4>1
      <3>2. buf' = << >> /\ pipe' = << >>
        BY <1>1, <1>3, <1>7, <2>2, <3>1, EmptySeq
      <3>3. Left' = << >>
        BY <3>2, <3>1, ConcatEmptySeq, <1>7 DEF Left
      <3>4. CASE Sent = coded - 2
        <4>1. Sent' = coded - 1
          BY <1>9, <3>4, Numbers
        <4> QED BY <1>1, <2>2, <3>3, <4>1
      <3>5. CASE Sent = coded - 1
        <4>1. Sent' + 1 = coded + 1 /\ Sent' + 1 \in Nat /\ coded \in Nat
          BY <1>9, <3>5, Numbers
        <4>2. \E new : Placed(new, Sent' + 1, coded, Kept, << >>, units)
          BY <4>1, PlacedNone
        <4> QED BY <1>1, <1>2, <3>3, <4>2, LeftPlacedNext
      <3>6. Sent = coded - 2 \/ Sent = coded - 1
        BY <2>2
      <3> QED BY <3>4, <3>5, <3>6
    <2> QED BY <1>4, <2>1, <2>2
  <1>11. ASSUME NEW i \in DOMAIN wire', received' + i <= Kept'
         PROVE  IsPrefix(Bytes(units'[received' + i]), wire'[i])
    <2>1. CASE i <= Len(wire)
      <3>1. i \in DOMAIN wire /\ received + i <= Kept
        BY <1>1, <1>2, <1>9, <1>11, <2>1
      <3> QED BY <1>1, <1>2, <1>8, <1>9, <3>1 DEF UnitsInOrder
    <2>2. CASE ~(i <= Len(wire))
      <3>1. i = Len(wire) + 1 /\ received' + i = Sent + 1 /\ wire'[i] = token
        <4>1. i = Len(wire) + 1
          BY <1>9, <2>2, Numbers
        <4> QED BY <1>1, <1>8, <4>1, Counts
      <3>2. Sent + 1 <= Kept
        BY <1>2, <1>11, <3>1
      <3>3. Sent # coded - 1 \/ encoder # "cut"
        BY <3>2, Counts
      <3>4. IsPrefix(Bytes(units[Sent + 1]), Bytes(units[Sent + 1]))
        <4>1. Bytes(units[Sent + 1]) \in Seq(Nat) /\ Len(Bytes(units[Sent + 1])) \in Nat
          BY <1>5, BytesLen
        <4> QED BY <4>1, PrefixIs
      <3>5. IsPrefix(Bytes(units[Sent + 1]), token)
        BY <1>4, <3>3, <3>4
      <3> QED BY <1>2, <3>1, <3>5
    <2> QED BY <2>1, <2>2
  <1>12. ASSUME NEW i \in DOMAIN wire', received' + i <= Whole'
         PROVE  wire'[i] = Bytes(units'[received' + i])
    <2>1. CASE i <= Len(wire)
      <3>1. i \in DOMAIN wire /\ received + i <= Whole
        BY <1>1, <1>2, <1>9, <1>12, <2>1
      <3> QED BY <1>1, <1>2, <1>8, <1>9, <3>1 DEF NalsAreWhole
    <2>2. CASE ~(i <= Len(wire))
      <3>1. i = Len(wire) + 1 /\ received' + i = Sent + 1 /\ wire'[i] = token
        <4>1. i = Len(wire) + 1
          BY <1>9, <2>2, Numbers
        <4> QED BY <1>1, <1>8, <4>1, Counts
      <3>2. Sent + 1 <= Whole
        BY <1>2, <1>12, <3>1
      <3>3. ~(encoder = "cut" /\ Sent = coded - 1) /\ ~(encoder = "cut" /\ Sent = coded - 2)
        BY <3>2, Counts
      <3> QED BY <1>2, <1>4, <3>1, <3>3
    <2> QED BY <2>1, <2>2
  <1>13. Sent' <= coded'
    BY <1>1, <1>5, <1>9, Counts
  <1> QED BY <1>1, <1>7, <1>8, <1>10, <1>11, <1>12, <1>13 DEF UnitsInOrder, NalsAreWhole

\* Three sequences one behind the other.
LEMMA ConcatThree ==
  ASSUME NEW a \in Seq(Nat), NEW b \in Seq(Nat), NEW c \in Seq(Nat)
  PROVE  (a \o b) \o c = a \o (b \o c)
  <1>1. \A S : \A s, t, u \in Seq(S) : (s \o t) \o u = s \o (t \o u)
    BY ConcatAssociative
  <1> QED BY <1>1

\* The bytes of a sequence up to one place, and those behind it.
LEMMA Cut ==
  ASSUME NEW s \in Seq(Nat), NEW k \in 0 .. Len(s)
  PROVE  /\ SubSeq(s, 1, k) \in Seq(Nat) /\ Len(SubSeq(s, 1, k)) = k
         /\ \A i \in 1 .. k : SubSeq(s, 1, k)[i] = s[i]
         /\ SubSeq(s, k + 1, Len(s)) \in Seq(Nat)
         /\ SubSeq(s, 1, k) \o SubSeq(s, k + 1, Len(s)) = s
  <1>1. Len(s) \in Nat /\ k \in Nat /\ k <= Len(s)
    BY LenProperties
  <1>2. /\ SubSeq(s, 1, k) \in Seq(Nat) /\ Len(SubSeq(s, 1, k)) = IF 1 <= k THEN k - 1 + 1 ELSE 0
        /\ \A i \in 1 .. k - 1 + 1 : SubSeq(s, 1, k)[i] = s[1 + i - 1]
    <2>1. 1 \in Int /\ k \in Int /\ \A i \in 1 .. k : s[i] \in Nat
      BY <1>1, ElementOfSeq
    <2> QED BY <2>1, SubSeqProperties
  <1>3. k - 1 + 1 = k /\ (IF 1 <= k THEN k - 1 + 1 ELSE 0) = k /\ \A i \in 1 .. k : 1 + i - 1 = i
    BY <1>1
  <1>4. SubSeq(s, k + 1, Len(s)) \in Seq(Nat)
    <2>1. k + 1 \in Int /\ Len(s) \in Int /\ \A i \in k + 1 .. Len(s) : s[i] \in Nat
      BY <1>1, ElementOfSeq
    <2> QED BY <2>1, SubSeqProperties
  <1>5. SubSeq(s, 1, k) \o SubSeq(s, k + 1, Len(s)) = SubSeq(s, 1, Len(s))
    <2>1. 1 \in 1 .. Len(s) + 1 /\ k \in 1 - 1 .. Len(s) /\ Len(s) \in k .. Len(s)
      BY <1>1
    <2> QED BY <2>1, ConcatAdjacentSubSeq
  <1>6. SubSeq(s, 1, Len(s)) = s
    BY SubSeqFull
  <1> QED BY <1>2, <1>3, <1>4, <1>5, <1>6

\* What the recorder has and sends is the same when only others act, the
\* connection may be closed.
LEMMA RecorderSame ==
  ASSUME UnitsInOrder, NalsAreWhole,
         UNCHANGED <<stream, coded, encoder, wire, received, eof>>, Left' = Left,
         pushing' = pushing \/ (~pushing' /\ (eof => Sent >= Whole)) \/ ~open, open' => open
  PROVE  UnitsInOrder' /\ NalsAreWhole'
  <1>1. /\ units' = units /\ Kept' = Kept /\ Whole' = Whole /\ Sent' = Sent
    BY DEF Kept, Whole, Sent, units
  <1>2. UnitsLeft' <=> UnitsLeft
    BY <1>1, LeftPlaced, LeftPlacedNext
  <1>3. UnitsInOrder'
    BY <1>1, <1>2 DEF UnitsInOrder
  <1>4. \A i \in DOMAIN wire' : received' + i <= Whole' => wire'[i] = Bytes(units'[received' + i])
    BY <1>1 DEF NalsAreWhole
  <1>5. eof' /\ ~pushing' /\ open' => received' + Len(wire)' >= Whole'
    BY <1>1 DEF NalsAreWhole, Sent
  <1> QED BY <1>3, <1>4, <1>5 DEF NalsAreWhole

\* The scanner reads on.
LEMMA ScanMoreStep ==
  ASSUME FramesTypeOK, UnitsInOrder, NalsAreWhole, ScanMore
  PROVE  FramesTypeOK' /\ UnitsInOrder' /\ NalsAreWhole'
  <1>1. /\ pushing /\ ~eof /\ Split.token = << >>
        /\ UNCHANGED <<stream, coded, encoder, pushing, wire, open, received, last, waiting, hand, reading, chan, agent, shown>>
    BY DEF ScanMore, reader, viewer
  <1>2. Rest = buf /\ buf \in Seq(Nat) /\ pipe \in Seq(Nat) /\ Len(pipe) \in Nat
    <2>1. Split.advance = 0
      <3>1. Sent + 1 \in 1 .. Len(units) => Bytes(units[Sent + 1]) # << >>
        <4>1. ASSUME Sent + 1 \in 1 .. Len(units) PROVE Len(Bytes(units[Sent + 1])) # 0
          <5>1. units[Sent + 1] \in Unit
            BY <4>1, Counts, ElementOfSeq
          <5> QED BY <5>1, BytesLen
        <4>2. Len(<< >>) = 0
          OBVIOUS
        <4> QED BY <4>1, <4>2
      <3>2. Sent < Kept => Sent + 1 \in 1 .. Len(units)
        BY Counts
      <3> QED BY <1>1, <3>1, <3>2, Splits
    <2>2. buf \in Seq(Nat) /\ pipe \in Seq(Nat)
      BY DEF FramesTypeOK
    <2>3. SubSeq(buf, 1, Len(buf)) = buf
      BY <2>2, SubSeqFull
    <2>4. 0 + 1 = 1
      OBVIOUS
    <2> QED BY <2>1, <2>2, <2>3, <2>4, LenProperties DEF Rest
  <1>3. /\ buf' \in Seq(Nat) /\ pipe' \in Seq(Nat) /\ Left' = Left
        /\ eof' \in BOOLEAN /\ (eof' => pipe' = << >> /\ encoder # "alive")
    <2>1. ASSUME NEW k \in 1 .. Len(pipe), buf' = Rest \o SubSeq(pipe, 1, k),
                 pipe' = SubSeq(pipe, k + 1, Len(pipe)), UNCHANGED eof
          PROVE  buf' \in Seq(Nat) /\ pipe' \in Seq(Nat) /\ Left' = Left
      <3> DEFINE p == SubSeq(pipe, 1, k)
                 q == SubSeq(pipe, k + 1, Len(pipe))
      <3>1. k \in 0 .. Len(pipe)
        BY <1>2
      <3>2. p \in Seq(Nat) /\ q \in Seq(Nat) /\ p \o q = pipe
        BY <1>2, <3>1, Cut
      <3>3. buf' = buf \o p /\ pipe' = q
        BY <1>2, <2>1
      <3> HIDE DEF p, q
      <3>4. (buf \o p) \o q = buf \o pipe
        BY <1>2, <3>2, ConcatThree
      <3>5. buf \o p \in Seq(Nat)
        BY <1>2, <3>2, ConcatProperties
      <3> QED BY <3>2, <3>3, <3>4, <3>5 DEF Left
    <2>2. CASE pipe = << >> /\ encoder # "alive" /\ buf' = Rest /\ eof' = TRUE /\ UNCHANGED pipe
      BY <1>2, <2>2 DEF Left
    <2>3. \/ \E k \in 1 .. Len(pipe) :
               buf' = Rest \o SubSeq(pipe, 1, k) /\ pipe' = SubSeq(pipe, k + 1, Len(pipe)) /\ UNCHANGED eof
          \/ pipe = << >> /\ encoder # "alive" /\ buf' = Rest /\ eof' = TRUE /\ UNCHANGED pipe
      BY DEF ScanMore
    <2>4. CASE \E k \in 1 .. Len(pipe) :
               buf' = Rest \o SubSeq(pipe, 1, k) /\ pipe' = SubSeq(pipe, k + 1, Len(pipe)) /\ UNCHANGED eof
      <3>1. buf' \in Seq(Nat) /\ pipe' \in Seq(Nat) /\ Left' = Left
        BY <2>1, <2>4
      <3>2. eof' \in BOOLEAN /\ ~eof'
        BY <1>1, <2>4 DEF FramesTypeOK
      <3> QED BY <3>1, <3>2
    <2> QED BY <2>2, <2>3, <2>4
  <1>4. FramesTypeOK'
    BY <1>1, <1>3 DEF FramesTypeOK, units
  <1>5. units' = units /\ Kept' = Kept /\ Whole' = Whole /\ Sent' = Sent
    BY <1>1 DEF Kept, Whole, Sent, units
  <1>6. UnitsLeft' <=> UnitsLeft
    BY <1>1, <1>3, <1>5, LeftPlaced, LeftPlacedNext
  <1>7. UnitsInOrder'
    BY <1>1, <1>3, <1>5, <1>6 DEF UnitsInOrder
  <1>8. NalsAreWhole'
    BY <1>1, <1>5 DEF NalsAreWhole
  <1> QED BY <1>4, <1>7, <1>8

\* The recorder is done: nothing is left that could be sent, or nobody reads.
LEMMA PushEndsStep ==
  ASSUME FramesTypeOK, UnitsInOrder, NalsAreWhole, PushEnds
  PROVE  FramesTypeOK' /\ UnitsInOrder' /\ NalsAreWhole'
  <1>1. /\ pushing' = FALSE
        /\ UNCHANGED <<stream, coded, pipe, encoder, buf, eof, wire, open, received, last, waiting, hand, reading, chan, agent, shown>>
        /\ (eof /\ Split.token = << >>) \/ ~open
    BY DEF PushEnds, source, reader, viewer
  <1>2. FramesTypeOK'
    BY <1>1 DEF FramesTypeOK, units
  <1>3. eof => Sent >= Whole \/ ~open
    <2>1. ASSUME eof, Split.token = << >> PROVE Sent >= Whole
      <3>1. CASE Split.token = << >> /\ Sent >= Kept
        BY <3>1, Counts
      <3>2. CASE Sent < Kept /\ Split.token = Bytes(units[Sent + 1])
        <4>1. units[Sent + 1] \in Unit
          <5>1. Sent + 1 \in 1 .. Len(units)
            BY <3>2, Numbers
          <5> QED BY <5>1, Counts, ElementOfSeq
        <4>2. Len(Bytes(units[Sent + 1])) # 0 /\ Len(<< >>) = 0
          BY <4>1, BytesLen
        <4> QED BY <2>1, <3>2, <4>2
      <3>3. CASE encoder = "cut" /\ (Sent = coded - 2 \/ Sent = coded - 1)
        BY <3>3, Counts
      <3> QED BY <2>1, <3>1, <3>2, <3>3, Splits
    <2> QED BY <1>1, <2>1
  <1>4. Left' = Left
    BY <1>1 DEF Left
  <1>5. UnitsInOrder' /\ NalsAreWhole'
    BY <1>1, <1>3, <1>4, RecorderSame
  <1> QED BY <1>2, <1>5

\* The encoder writes more bytes.
LEMMA MoreCoded ==
  ASSUME FramesTypeOK, UnitsInOrder, NalsAreWhole, encoder = "alive", coded < Len(units),
         coded' = coded + 1, NEW more \in Seq(Nat), Len(more) > 0, pipe' = pipe \o more,
         \A k \in 1 .. Len(more) : more[k] = Bytes(units[coded + 1])[k],
         \/ encoder' = "alive" /\ Len(more) = Len(Bytes(units[coded + 1]))
         \/ encoder' = "cut" /\ Len(more) < Len(Bytes(units[coded + 1])),
         UNCHANGED <<stream, buf, eof, pushing, wire, open, received, last, waiting, hand, reading, chan, agent, shown>>
  PROVE  FramesTypeOK' /\ UnitsInOrder' /\ NalsAreWhole'
  <1>1. ~eof /\ buf \in Seq(Nat) /\ pipe \in Seq(Nat)
    BY DEF FramesTypeOK
  <1>2. pipe' \in Seq(Nat) /\ Left' = Left \o more
    <2>1. pipe \o more \in Seq(Nat)
      BY <1>1, ConcatProperties
    <2>2. buf \o (pipe \o more) = (buf \o pipe) \o more
      BY <1>1, ConcatThree
    <2> QED BY <2>1, <2>2 DEF Left
  <1>3. FramesTypeOK'
    <2>1. coded' \in 0 .. Len(units) /\ coded' > 0
      BY Counts
    <2>2. encoder' \in {"alive", "ended", "cut"}
      OBVIOUS
    <2> QED BY <1>1, <1>2, <2>1, <2>2 DEF FramesTypeOK, units
  <1>4. Kept = coded /\ Whole = coded /\ UnitsLeft /\ Sent <= coded
    BY Counts DEF UnitsInOrder
  <1>5. units' = units /\ Sent' = Sent /\ (encoder' = "alive" => Kept' = coded + 1) /\ (encoder' = "cut" => Kept' = coded)
    <2>1. encoder' = "cut" => Kept' = (coded + 1) - 1
      BY DEF Kept
    <2>2. (coded + 1) - 1 = coded
      BY Counts
    <2> QED BY <2>1, <2>2 DEF Kept, Sent, units
  <1>6. UnitsLeft'
    <2> DEFINE n == Sent + 1
               c == coded
               us == units
               left == Left
               kept == Kept'
    <2>1. PICK at : Placed(at, n, c, c, left, us)
      BY <1>4, LeftPlaced
    <2>2. /\ us \in Seq(Unit) /\ n \in Nat /\ c \in Nat /\ n >= 1 /\ n <= c + 1 /\ c + 1 <= Len(us)
          /\ left \in Seq(Nat)
      <3>1. Sent \in Nat /\ coded \in Nat /\ Sent <= coded /\ Len(units) \in Nat
        BY <1>4, Counts
      <3>2. Sent + 1 \in Nat /\ Sent + 1 >= 1 /\ Sent + 1 <= coded + 1 /\ coded + 1 <= Len(units)
        BY <3>1
      <3> QED BY <3>1, <3>2, Counts
    <2>3. /\ kept \in {c, c + 1} /\ (kept = c + 1 => Len(more) = Len(Bytes(us[c + 1])))
          /\ (kept = c => Len(more) < Len(Bytes(us[c + 1])))
      <3>1. coded # coded + 1
        BY Counts
      <3> QED BY <1>5, <3>1
    <2>4. \A k \in 1 .. Len(more) : more[k] = Bytes(us[c + 1])[k]
      OBVIOUS
    <2>5. Sent' + 1 = n /\ coded' = c + 1 /\ Kept' = kept /\ Left' = left \o more /\ units' = us
      BY <1>2, <1>5
    <2> HIDE DEF n, c, us, left, kept
    <2>6. \E new : Placed(new, n, c + 1, kept, left \o more, us)
      BY <2>1, <2>2, <2>3, <2>4, PlacedMore
    <2> QED BY <2>5, <2>6, LeftPlacedNext
  <1>7. \A i \in DOMAIN wire : received + i <= Kept /\ received + i <= Whole
    <2>1. DOMAIN wire = 1 .. Len(wire)
      BY LenProperties DEF FramesTypeOK
    <2> QED BY <1>4, <2>1, Counts
  <1>8. UnitsInOrder'
    <2>1. Sent' <= coded'
      BY <1>4, <1>5, Counts
    <2> QED BY <1>5, <1>6, <1>7, <2>1 DEF UnitsInOrder
  <1>9. NalsAreWhole'
    BY <1>1, <1>5, <1>7 DEF NalsAreWhole
  <1> QED BY <1>3, <1>8, <1>9

\* The encoder writes a unit.
LEMMA EncodeStep ==
  ASSUME FramesTypeOK, UnitsInOrder, NalsAreWhole, Encode
  PROVE  FramesTypeOK' /\ UnitsInOrder' /\ NalsAreWhole'
  <1>1. /\ encoder = "alive" /\ coded < Len(units) /\ coded' = coded + 1 /\ encoder' = "alive"
        /\ pipe' = pipe \o Bytes(units[coded + 1])
        /\ UNCHANGED <<stream, buf, eof, pushing, wire, open, received, last, waiting, hand, reading, chan, agent, shown>>
    BY DEF Encode, pusher, reader, viewer
  <1>2. units[coded + 1] \in Unit
    <2>1. coded + 1 \in 1 .. Len(units)
      BY <1>1, Counts
    <2> QED BY <2>1, Counts, ElementOfSeq
  <1> DEFINE more == Bytes(units[coded + 1])
  <1>3. more \in Seq(Nat) /\ Len(more) > 0
    BY <1>2, BytesLen
  <1> QED BY <1>1, <1>3, MoreCoded

\* The encoder stops, or is killed.
LEMMA EncoderEndsStep ==
  ASSUME FramesTypeOK, UnitsInOrder, NalsAreWhole, EncoderEnds
  PROVE  FramesTypeOK' /\ UnitsInOrder' /\ NalsAreWhole'
  <1>1. /\ encoder = "alive"
        /\ UNCHANGED <<stream, buf, eof, pushing, wire, open, received, last, waiting, hand, reading, chan, agent, shown>>
    BY DEF EncoderEnds, pusher, reader, viewer
  <1>2. CASE encoder' = "ended" /\ UNCHANGED <<coded, pipe>>
    <2>1. FramesTypeOK'
      BY <1>1, <1>2 DEF FramesTypeOK, units
    <2>2. units' = units /\ Kept' = Kept /\ Whole' = Whole /\ Sent' = Sent /\ Left' = Left
      BY <1>1, <1>2 DEF Kept, Whole, Sent, units, Left
    <2>3. UnitsLeft' <=> UnitsLeft
      BY <1>2, <2>2, LeftPlaced, LeftPlacedNext
    <2>4. UnitsInOrder'
      BY <1>1, <1>2, <2>2, <2>3 DEF UnitsInOrder
    <2>5. NalsAreWhole'
      BY <1>1, <2>2 DEF NalsAreWhole
    <2> QED BY <2>1, <2>4, <2>5
  <1>3. ASSUME coded < Len(units), encoder' = "cut", coded' = coded + 1,
               NEW k \in 1 .. Len(Bytes(units[coded + 1])) - 1,
               pipe' = pipe \o SubSeq(Bytes(units[coded + 1]), 1, k)
        PROVE  FramesTypeOK' /\ UnitsInOrder' /\ NalsAreWhole'
    <2> DEFINE bytes == Bytes(units[coded + 1])
               more == SubSeq(bytes, 1, k)
    <2>1. units[coded + 1] \in Unit
      <3>1. coded + 1 \in 1 .. Len(units)
        BY <1>3, Numbers
      <3> QED BY <3>1, Counts, ElementOfSeq
    <2>2. bytes \in Seq(Nat) /\ Len(bytes) \in Nat
      BY <2>1, BytesLen
    <2>3. k \in 0 .. Len(bytes) /\ k < Len(bytes) /\ k > 0
      BY <1>3, <2>2
    <2>4. more \in Seq(Nat) /\ Len(more) = k /\ \A i \in 1 .. k : more[i] = bytes[i]
      BY <2>2, <2>3, Cut
    <2> HIDE DEF more
    <2>5. Len(more) > 0 /\ Len(more) < Len(bytes) /\ \A i \in 1 .. Len(more) : more[i] = bytes[i]
      BY <2>3, <2>4
    <2>6. pipe' = pipe \o more
      BY <1>3 DEF more
    <2> QED BY <1>1, <1>3, <2>4, <2>5, <2>6, MoreCoded
  <1> QED BY <1>2, <1>3 DEF EncoderEnds

-----------------------------------------------------------------------------
(* What the driver reads                                                   *)

\* A bounded set of numbers has a greatest element.
LEMMA GreatestOf ==
  ASSUME NEW B, NEW N \in Nat, B \subseteq 0 .. N, B # {}
  PROVE  /\ Max(B) \in B
         /\ \A n \in B : n <= Max(B)
  <1> DEFINE Above(n) == {k \in 0 .. N : k > n}
             T == {Above(n) : n \in B}
  <1>1. ASSUME NEW n \in B PROVE Above(n) \in FiniteSubsetsOf(Nat)
    <2>1. IsFiniteSet(0 .. N)
      BY FS_Interval
    <2>2. IsFiniteSet(Above(n))
      <3>1. Above(n) \subseteq 0 .. N
        OBVIOUS
      <3> HIDE DEF Above
      <3> QED BY <2>1, <3>1, FS_Subset
    <2>3. Above(n) \subseteq Nat
      OBVIOUS
    <2> QED BY <2>2, <2>3 DEF FiniteSubsetsOf
  <1>2. T \subseteq FiniteSubsetsOf(Nat) /\ T # {}
    BY <1>1
  <1>3. PICK t \in T : \A u \in T : <<u, t>> \notin StrictSubsetOrdering(Nat)
    <2> HIDE DEF T
    <2> QED BY <1>2, WFMin, FS_StrictSubsetOrderingWellFounded
  <1>4. PICK m \in B : t = Above(m)
    BY <1>3
  <1>5. ASSUME NEW n \in B, n > m PROVE FALSE
    <2>1. Above(n) \subseteq Nat /\ Above(m) \subseteq Nat /\ Above(n) \subseteq Above(m)
      BY <1>5
    <2>2. n \in Above(m) /\ n \notin Above(n)
      BY <1>5
    <2>3. Above(n) \in T
      OBVIOUS
    <2>4. <<Above(n), Above(m)>> \in StrictSubsetOrdering(Nat)
      <3> HIDE DEF Above, T
      <3> QED BY <2>1, <2>2 DEF StrictSubsetOrdering
    <2> QED BY <1>3, <1>4, <2>3, <2>4
  <1>6. m \in B /\ \A n \in B : m >= n
    BY <1>5
  <1> HIDE DEF Above, T
  <1> DEFINE x == CHOOSE x \in B : \A y \in B : x >= y
  <1>7. x \in B /\ \A y \in B : x >= y
    BY <1>6
  <1>8. Max(B) = x
    BY DEF Max
  <1> HIDE DEF x
  <1> QED BY <1>7, <1>8

\* What a unit is does not depend on anything but the stream.
LEMMA StreamSame ==
  ASSUME UNCHANGED stream
  PROVE  /\ units' = units
         /\ \A i : Picture(i)' <=> Picture(i)
         /\ \A i : IsKey(TypeOf(i))' <=> IsKey(TypeOf(i))
         /\ \A i : KeySeen(i)' <=> KeySeen(i)
         /\ \A i, s : Latest(i, s)' = Latest(i, s)
         /\ \A i : Decodable(i)' = Decodable(i)
         /\ MaxQuiet' = MaxQuiet
  <1>1. units' = units /\ Hevc' = Hevc
    BY DEF units, Hevc
  <1>2. ASSUME NEW t PROVE SetOf(t)' = SetOf(t) /\ (Ignored(t)' <=> Ignored(t)) /\ (IsKey(t)' <=> IsKey(t))
    BY <1>1 DEF SetOf, Ignored, IsKey
  <1>3. ASSUME NEW i PROVE TypeOf(i)' = TypeOf(i)
    BY <1>1 DEF TypeOf, NalType
  <1> QED BY <1>1, <1>2, <1>3 DEF Picture, KeySeen, Latest, Decodable, MaxQuiet, Before

\* A parameter set, a unit that is ignored and a key frame are three things.
LEMMA Kinds ==
  ASSUME NEW t \in Nat
  PROVE  /\ SetOf(t) \subseteq Sets /\ \A s, o \in SetOf(t) : s = o
         /\ SetOf(t) # {} => ~Ignored(t) /\ ~IsKey(t)
         /\ Ignored(t) => ~IsKey(t)
  <1>1. CASE Hevc
    BY <1>1 DEF SetOf, Ignored, IsKey, Sets
  <1>2. CASE ~Hevc
    BY <1>2 DEF SetOf, Ignored, IsKey, Sets
  <1> QED BY <1>1, <1>2

\* The type of a unit is a number.
LEMMA TypeIsNat ==
  ASSUME NEW data \in Seq(Nat), Len(data) > 0
  PROVE  NalType(data) \in Nat
  <1>1. data[1] \in Nat
    BY LenProperties, ElementOfSeq
  <1> DEFINE b == data[1]
  <1>2. b \in Nat
    BY <1>1
  <1> HIDE DEF b
  <1>3. b \div 2 \in Nat /\ b % 32 \in 0 .. 31
    BY <1>2
  <1>4. (b \div 2) % 64 \in 0 .. 63
    <2> DEFINE h == b \div 2
    <2>1. h \in Nat
      BY <1>3
    <2> HIDE DEF h
    <2>2. h % 64 \in 0 .. 63
      BY <2>1
    <2> QED BY <2>2 DEF h
  <1> QED BY <1>3, <1>4 DEF NalType, b

\* Four or three numbers.
LEMMA FirstFour ==
  ASSUME NEW p \in Seq(Nat), Len(p) >= 4
  PROVE  SubSeq(p, 1, 4) = <<0, 0, 0, 1>> <=> p[1] = 0 /\ p[2] = 0 /\ p[3] = 0 /\ p[4] = 1
  <1>1. 4 \in 0 .. Len(p)
    BY LenProperties
  <1> DEFINE q == SubSeq(p, 1, 4)
  <1>2. q \in Seq(Nat) /\ Len(q) = 4 /\ \A i \in 1 .. 4 : q[i] = p[i]
    BY <1>1, Cut
  <1> HIDE DEF q
  <1>3. q[1] = p[1] /\ q[2] = p[2] /\ q[3] = p[3] /\ q[4] = p[4]
    BY <1>2
  <1>4. q = <<q[1], q[2], q[3], q[4]>>
    <2>1. <<q[1], q[2], q[3], q[4]>> \in Seq(Nat)
      <3>1. \A i \in 1 .. 4 : q[i] \in Nat
        BY <1>2, ElementOfSeq
      <3>2. ASSUME NEW a \in Nat, NEW b \in Nat, NEW c \in Nat, NEW d \in Nat
            PROVE  <<a, b, c, d>> \in Seq(Nat)
        OBVIOUS
      <3>3. q[1] \in Nat /\ q[2] \in Nat /\ q[3] \in Nat /\ q[4] \in Nat
        BY <3>1
      <3> QED BY <3>2, <3>3
    <2> QED BY <1>2, <2>1, SeqEqual
  <1> QED BY <1>3, <1>4 DEF q

\* A short start code is the first three elements, compared one by one.
LEMMA FirstThree ==
  ASSUME NEW p \in Seq(Nat), Len(p) >= 3
  PROVE  SubSeq(p, 1, 3) = <<0, 0, 1>> <=> p[1] = 0 /\ p[2] = 0 /\ p[3] = 1
  <1>1. 3 \in 0 .. Len(p)
    BY LenProperties
  <1> DEFINE q == SubSeq(p, 1, 3)
  <1>2. q \in Seq(Nat) /\ Len(q) = 3 /\ \A i \in 1 .. 3 : q[i] = p[i]
    BY <1>1, Cut
  <1> HIDE DEF q
  <1>3. q[1] = p[1] /\ q[2] = p[2] /\ q[3] = p[3]
    BY <1>2
  <1>4. q = <<q[1], q[2], q[3]>>
    BY <1>2, ThreeOf
  <1> QED BY <1>3, <1>4 DEF q

\* The data behind the start code, whatever was read.
LEMMA DataOf ==
  ASSUME NEW p \in Seq(Nat)
  PROVE  LET e == StartCodeEnd(p)
             d == SubSeq(p, e + 1, Len(p))
         IN  /\ e \in {0, 3, 4} /\ d \in Seq(Nat)
             /\ e > 0 => Len(d) > 0 /\ Len(d) = Len(p) - e /\ \A i \in 1 .. Len(p) - e : d[i] = p[e + i]
  <1> DEFINE e == StartCodeEnd(p)
             d == SubSeq(p, e + 1, Len(p))
  <1>1. e \in {0, 3, 4} /\ (e > 0 => Len(p) > e) /\ Len(p) \in Nat
    BY LenProperties DEF StartCodeEnd
  <1> HIDE DEF e
  <1>2. e + 1 \in Int /\ Len(p) \in Int /\ \A i \in e + 1 .. Len(p) : p[i] \in Nat
    BY <1>1, ElementOfSeq
  <1>3. /\ d \in Seq(Nat) /\ Len(d) = IF e + 1 <= Len(p) THEN Len(p) - (e + 1) + 1 ELSE 0
        /\ \A i \in 1 .. Len(p) - (e + 1) + 1 : d[i] = p[e + 1 + i - 1]
    BY <1>2, SubSeqProperties
  <1> HIDE DEF d
  <1>4. /\ Len(p) - (e + 1) + 1 = Len(p) - e
        /\ e > 0 => e + 1 <= Len(p) /\ Len(p) - e > 0
        /\ \A i \in 1 .. Len(p) - e : e + 1 + i - 1 = e + i
    BY <1>1
  <1> QED BY <1>1, <1>3, <1>4 DEF e, d

\* A unit that begins like one of the encoder's is taken for what that is.
LEMMA UnitRead ==
  ASSUME NEW u \in Unit, NEW p \in Seq(Nat), IsPrefix(Bytes(u), p)
  PROVE  LET e == StartCodeEnd(p)
             d == SubSeq(p, e + 1, Len(p))
         IN  /\ e > 0 /\ Len(d) > 0 /\ d[1] = u.data[1] /\ d \in Seq(Nat)
             /\ p = Bytes(u) => d = u.data
  <1> DEFINE z == u.zeros
             w == Bytes(u)
             l == Len(u.data)
             e == StartCodeEnd(p)
             d == SubSeq(p, e + 1, Len(p))
  <1>1. /\ z \in Nat /\ w \in Seq(Nat) /\ z \in {2, 3} /\ u.data \in Seq(Nat) /\ l > 0 /\ l \in Nat
        /\ Len(w) = z + 1 + l /\ Len(w) \in Nat
        /\ (\A k \in 1 .. z : w[k] = 0) /\ w[z + 1] = 1
        /\ \A k \in 1 .. l : w[z + 1 + k] = u.data[k]
    <2>1. z \in Nat
      BY BytesLen
    <2> QED BY <2>1, BytesOf
  <1> HIDE DEF w, z, l
  <1>2. Len(w) <= Len(p) /\ Len(p) \in Nat /\ \A k \in 1 .. Len(w) : p[k] = w[k]
    BY <1>1, PrefixIs, LenProperties DEF w
  <1>3. (\A k \in 1 .. z : p[k] = 0) /\ p[z + 1] = 1
    <2>1. z \in Nat /\ z + 1 <= Len(w) /\ Len(w) \in Nat
      <3>1. z \in Nat /\ l \in Nat /\ Len(w) = z + 1 + l
        BY <1>1
      <3> QED BY <3>1
    <2>2. z + 1 \in 1 .. Len(w) /\ \A k \in 1 .. z : k \in 1 .. Len(w)
      BY <2>1
    <2> QED BY <1>1, <1>2, <2>2
  <1>4. e = z + 1
    <2>1. CASE z = 3
      <3>1. Len(p) > 4 /\ p[1] = 0 /\ p[2] = 0 /\ p[3] = 0 /\ p[4] = 1
        BY <1>1, <1>2, <1>3, <2>1
      <3>2. SubSeq(p, 1, 4) = <<0, 0, 0, 1>>
        BY <3>1, FirstFour
      <3> QED BY <2>1, <3>1, <3>2 DEF StartCodeEnd
    <2>2. CASE z = 2
      <3>1. Len(p) > 3 /\ Len(p) >= 4 /\ p[1] = 0 /\ p[2] = 0 /\ p[3] = 1
        BY <1>1, <1>2, <1>3, <2>2
      <3>2. SubSeq(p, 1, 3) = <<0, 0, 1>> /\ SubSeq(p, 1, 4) # <<0, 0, 0, 1>>
        BY <3>1, FirstFour, FirstThree
      <3> QED BY <2>2, <3>1, <3>2 DEF StartCodeEnd
    <2> QED BY <1>1, <2>1, <2>2
  <1>5. /\ d \in Seq(Nat)
        /\ e > 0 => Len(d) > 0 /\ Len(d) = Len(p) - e /\ \A i \in 1 .. Len(p) - e : d[i] = p[e + i]
    BY DataOf
  <1> HIDE DEF e, d
  <1>6. e > 0 /\ Len(d) > 0 /\ Len(d) = Len(p) - e /\ \A i \in 1 .. Len(p) - e : d[i] = p[e + i]
    BY <1>1, <1>4, <1>5
  <1>7. \A k \in 1 .. l : d[k] = u.data[k]
    <2> TAKE k \in 1 .. l
    <2>1. z + 1 + k \in 1 .. Len(w) /\ k \in 1 .. Len(p) - e /\ e + k = z + 1 + k
      <3>1. /\ z \in Nat /\ l \in Nat /\ Len(w) = z + 1 + l
            /\ Len(p) \in Nat /\ Len(w) <= Len(p) /\ e = z + 1 /\ k \in Nat /\ k >= 1 /\ k <= l
        <4>1. k \in Nat /\ k >= 1 /\ k <= l
          BY <1>1
        <4> QED BY <1>1, <1>2, <1>4, <4>1
      <3> HIDE DEF e
      <3> QED BY <3>1
    <2> QED BY <1>1, <1>2, <1>6, <2>1
  <1>8. d[1] = u.data[1]
    <2>1. 1 \in 1 .. l
      BY <1>1
    <2> QED BY <1>7, <2>1
  <1>9. ASSUME p = w PROVE d = u.data
    <2>1. Len(d) = l
      BY <1>1, <1>4, <1>6, <1>9
    <2> QED BY <1>1, <1>5, <1>7, <2>1, SeqEqual DEF l
  <1> QED BY <1>5, <1>6, <1>8, <1>9 DEF e, d, w

\* The next unit the driver reads.
LEMMA NextUnit ==
  ASSUME FramesTypeOK, UnitsInOrder, NalsAreWhole, wire # << >>
  PROVE  LET p == Head(wire)
             e == StartCodeEnd(p)
             d == SubSeq(p, e + 1, Len(p))
         IN  /\ p \in Seq(Nat) /\ d \in Seq(Nat) /\ e \in {0, 3, 4}
             /\ e > 0 => NalType(d) \in Nat
             /\ received + 1 <= Sent /\ received + 1 <= coded /\ received <= Kept /\ received + 1 \in 1 .. Len(units)
             /\ received + 1 <= Kept => e > 0 /\ NalType(d) = TypeOf(received + 1)
             /\ received + 1 <= Whole => d = units[received + 1].data
  <1> DEFINE p == Head(wire)
             e == StartCodeEnd(p)
             d == SubSeq(p, e + 1, Len(p))
             r == received + 1
  <1>1. wire \in Seq(Seq(Nat)) /\ 1 \in DOMAIN wire /\ p = wire[1] /\ p \in Seq(Nat) /\ Len(wire) >= 1
    <2>1. wire \in Seq(Seq(Nat))
      BY DEF FramesTypeOK
    <2>2. Len(wire) \in Nat \ {0} /\ DOMAIN wire = 1 .. Len(wire)
      BY <2>1, EmptySeq, LenProperties
    <2>3. 1 \in 1 .. Len(wire)
      BY <2>2
    <2>4. wire[1] \in Seq(Nat)
      BY <2>1, <2>3, ElementOfSeq
    <2> QED BY <2>1, <2>2, <2>3, <2>4
  <1>2. r <= Sent /\ r <= coded /\ received <= Kept /\ r \in 1 .. Len(units)
    <2>1. /\ received \in Nat /\ Len(wire) \in Nat /\ Sent = received + Len(wire) /\ Kept \in {coded, coded - 1}
          /\ coded \in Nat /\ coded <= Len(units) /\ Len(units) \in Nat /\ Sent <= coded /\ Len(wire) >= 1
      BY <1>1, Counts DEF UnitsInOrder
    <2> QED BY <2>1
  <1>3. units[r] \in Unit
    BY <1>2, Counts, ElementOfSeq
  <1> HIDE DEF p
  <1>4. e \in {0, 3, 4} /\ d \in Seq(Nat) /\ (e > 0 => Len(d) > 0)
    BY <1>1, DataOf
  <1>5. e > 0 => NalType(d) \in Nat
    BY <1>4, TypeIsNat
  <1>6. ASSUME r <= Kept PROVE e > 0 /\ NalType(d) = TypeOf(r)
    <2>1. IsPrefix(Bytes(units[r]), p)
      BY <1>1, <1>6 DEF UnitsInOrder
    <2>2. e > 0 /\ d[1] = units[r].data[1]
      BY <1>1, <1>3, <2>1, UnitRead
    <2> HIDE DEF d
    <2> QED BY <2>2 DEF NalType, TypeOf
  <1>7. ASSUME r <= Whole PROVE d = units[r].data
    <2>1. r <= Kept
      BY <1>7, Counts
    <2>2. IsPrefix(Bytes(units[r]), p) /\ p = Bytes(units[r])
      BY <1>1, <1>7, <2>1 DEF UnitsInOrder, NalsAreWhole
    <2> QED BY <1>1, <1>3, <2>2, UnitRead
  <1> QED BY <1>1, <1>2, <1>4, <1>5, <1>6, <1>7 DEF p

-----------------------------------------------------------------------------
(* The boxes                                                               *)

\* A set of one box, or of none, as a sequence.
LEMMA AsSeq ==
  /\ SetToSeq({}) = << >>
  /\ \A b : SetToSeq({b}) = <<b>>
  <1>1. SetToSeq({}) = << >>
    <2>1. Cardinality({}) = 0
      BY FS_EmptySet
    <2>2. [1 .. 0 -> {}] = {<< >>}
      <3>1. ASSUME NEW f \in [1 .. 0 -> {}] PROVE f = << >>
        <4>1. f \in Seq({})
          BY SeqDef
        <4>2. Len(f) = 0
          BY <4>1, LenProperties
        <4> QED BY <4>1, <4>2, EmptySeq
      <3>2. << >> \in [1 .. 0 -> {}]
        <4>1. << >> \in Seq({}) /\ Len(<< >>) = 0
          BY EmptySeq
        <4> QED BY <4>1, LenProperties
      <3> QED BY <3>1, <3>2
    <2>3. IsInjective(<< >>)
      BY DEF IsInjective
    <2> QED BY <2>1, <2>2, <2>3 DEF SetToSeq
  <1>2. ASSUME NEW b PROVE SetToSeq({b}) = <<b>>
    <2>1. Cardinality({b}) = 1
      BY FS_Singleton
    <2>2. <<b>> \in [1 .. 1 -> {b}] /\ IsInjective(<<b>>)
      BY DEF IsInjective
    <2>3. \A f \in [1 .. 1 -> {b}] : f = <<b>>
      OBVIOUS
    <2> QED BY <2>1, <2>2, <2>3 DEF SetToSeq
  <1> QED BY <1>1, <1>2

\* What is on videoChan, as a sequence of what it holds.
LEMMA OfItsOwn ==
  ASSUME NEW S, NEW s \in Seq(S)
  PROVE  s \in Seq(ToSet(s))
  <1>1. s \in Seq(Range(s))
    BY SeqOfRange
  <1>2. Range(s) = ToSet(s)
    BY DEF Range, ToSet
  <1> QED BY <1>1, <1>2

\* One sequence behind another, of any kind, and one element in front or behind.
LEMMA ConcatOf ==
  ASSUME NEW S, NEW a \in Seq(S), NEW b \in Seq(S)
  PROVE  /\ a \o b \in Seq(S) /\ Len(a \o b) = Len(a) + Len(b)
         /\ Len(a) \in Nat /\ Len(b) \in Nat
         /\ a \o << >> = a /\ << >> \o a = a
  BY ConcatProperties, ConcatEmptySeq, LenProperties

\* Three sequences behind each other, whichever two are joined first.
LEMMA ConcatThreeOf ==
  ASSUME NEW S, NEW a \in Seq(S), NEW b \in Seq(S), NEW c \in Seq(S)
  PROVE  (a \o b) \o c = a \o (b \o c)
  BY ConcatAssociative

\* An element in front moves the others up by one place.
LEMMA InFrontOf ==
  ASSUME NEW S, NEW x \in S, NEW s \in Seq(S)
  PROVE  /\ <<x>> \o s \in Seq(S) /\ Len(<<x>> \o s) = Len(s) + 1
         /\ (<<x>> \o s)[1] = x
         /\ \A i \in 1 .. Len(s) : (<<x>> \o s)[i + 1] = s[i]
  <1> DEFINE a == <<x>>
             c == a \o s
  <1>1. a \in Seq(S) /\ Len(a) = 1 /\ a[1] = x /\ Len(s) \in Nat
    BY LenProperties
  <1> HIDE DEF a
  <1>2. /\ c \in Seq(S) /\ Len(c) = Len(a) + Len(s)
        /\ \A i \in 1 .. Len(a) + Len(s) : c[i] = IF i <= Len(a) THEN a[i] ELSE s[i - Len(a)]
    BY <1>1, ConcatProperties
  <1> HIDE DEF c
  <1>3. Len(c) = Len(s) + 1 /\ 1 \in 1 .. Len(a) + Len(s) /\ 1 <= Len(a)
    BY <1>1, <1>2
  <1>4. c[1] = x
    BY <1>1, <1>2, <1>3
  <1>5. ASSUME NEW i \in 1 .. Len(s) PROVE c[i + 1] = s[i]
    <2>1. i + 1 \in 1 .. Len(a) + Len(s) /\ ~(i + 1 <= Len(a)) /\ (i + 1) - Len(a) = i
      BY <1>1
    <2> QED BY <1>2, <2>1
  <1> QED BY <1>2, <1>3, <1>4, <1>5 DEF c, a

\* Every box there is.
AllBoxes == agent \cup ToSet(chan) \cup hand

\* The three parts of them.
LEMMA Parts ==
  ASSUME FramesTypeOK, NEW S, AllBoxes \subseteq S
  PROVE  /\ SetToSeq(agent) \in Seq(S) /\ chan \in Seq(S) /\ SetToSeq(hand) \in Seq(S)
         /\ Len(SetToSeq(agent)) = IF agent = {} THEN 0 ELSE 1
         /\ Len(SetToSeq(hand)) = IF hand = {} THEN 0 ELSE 1
         /\ Len(chan) \in Nat /\ Len(chan) <= ChanCap
  <1>1. /\ chan \in Seq(ToSet(chan)) /\ Len(chan) <= ChanCap
        /\ hand = {} \/ \E b \in hand : hand = {b}
        /\ agent = {} \/ \E b \in agent : agent = {b}
    BY DEF FramesTypeOK
  <1>2. agent \subseteq S /\ hand \subseteq S /\ ToSet(chan) \subseteq S
    BY DEF AllBoxes
  <1>3. chan \in Seq(S) /\ Len(chan) \in Nat
    BY <1>1, <1>2, SeqMonotonic, LenProperties
  <1>4. ASSUME NEW t, t \subseteq S, t = {} \/ \E b \in t : t = {b}
        PROVE  SetToSeq(t) \in Seq(S) /\ Len(SetToSeq(t)) = IF t = {} THEN 0 ELSE 1
    <2>1. CASE t = {}
      BY <2>1, AsSeq, EmptySeq
    <2>2. ASSUME NEW b \in t, t = {b} PROVE SetToSeq(t) \in Seq(S) /\ Len(SetToSeq(t)) = IF t = {} THEN 0 ELSE 1
      <3>1. SetToSeq(t) = <<b>>
        BY <2>2, AsSeq
      <3>2. b \in S
        BY <1>4
      <3>3. <<b>> \in Seq(S) /\ Len(<<b>>) = 1
        BY <3>2
      <3> QED BY <2>2, <3>1, <3>3
    <2> QED BY <1>4, <2>1, <2>2
  <1> QED BY <1>1, <1>2, <1>3, <1>4

\* All of them.
LEMMA BoxesAre ==
  ASSUME FramesTypeOK
  PROVE  /\ Boxes \in Seq(AllBoxes) /\ Len(Boxes) \in Nat /\ DOMAIN Boxes = 1 .. Len(Boxes)
         /\ Len(Boxes) <= ChanCap + 2 /\ (hand = {} => Len(Boxes) <= ChanCap + 1)
         /\ agent # {} \/ hand # {} \/ chan # << >> => Len(Boxes) > 0
         /\ agent # {} /\ hand # {} => Len(Boxes) > 1
  <1> DEFINE a == SetToSeq(agent)
             h == SetToSeq(hand)
             S == AllBoxes
  <1>1. /\ a \in Seq(S) /\ chan \in Seq(S) /\ h \in Seq(S)
        /\ Len(a) = (IF agent = {} THEN 0 ELSE 1) /\ Len(h) = (IF hand = {} THEN 0 ELSE 1)
        /\ Len(chan) \in Nat /\ Len(chan) <= ChanCap
    BY Parts
  <1>2. Boxes = (a \o chan) \o h
    BY DEF Boxes
  <1> HIDE DEF a, h, S
  <1>3. a \o chan \in Seq(S) /\ Len(a \o chan) = Len(a) + Len(chan)
    BY <1>1, ConcatOf
  <1>4. (a \o chan) \o h \in Seq(S) /\ Len((a \o chan) \o h) = Len(a) + Len(chan) + Len(h)
    <2> DEFINE d == a \o chan
    <2>1. d \in Seq(S) /\ Len(d) = Len(a) + Len(chan)
      BY <1>3
    <2> HIDE DEF d
    <2>2. d \o h \in Seq(S) /\ Len(d \o h) = Len(d) + Len(h)
      BY <1>1, <2>1, ConcatOf
    <2>3. d \o h \in Seq(S) /\ Len(d \o h) = Len(a) + Len(chan) + Len(h)
      BY <2>1, <2>2
    <2> QED BY <2>3 DEF d
  <1>5. Boxes \in Seq(S) /\ Len(Boxes) = Len(a) + Len(chan) + Len(h)
    BY <1>2, <1>4
  <1>6. chan # << >> => Len(chan) > 0
    BY <1>1, EmptySeq
  <1>7. DOMAIN Boxes = 1 .. Len(Boxes)
    BY <1>5, LenProperties
  <1>8. /\ Len(Boxes) \in Nat
        /\ Len(Boxes) <= ChanCap + 2 /\ (hand = {} => Len(Boxes) <= ChanCap + 1)
        /\ agent # {} \/ hand # {} \/ Len(chan) > 0 => Len(Boxes) > 0
        /\ agent # {} /\ hand # {} => Len(Boxes) > 1
    <2>1. /\ Len(a) \in {0, 1} /\ Len(h) \in {0, 1} /\ (hand = {} => Len(h) = 0)
          /\ (agent # {} => Len(a) = 1) /\ (hand # {} => Len(h) = 1)
      BY <1>1
    <2>2. Len(a) \in Nat /\ Len(h) \in Nat
      BY <2>1
    <2> DEFINE k == Len(a)
               l == Len(h)
               m == Len(chan)
    <2>3. k \in Nat /\ l \in Nat /\ m \in Nat /\ m <= ChanCap /\ k <= 1 /\ l <= 1 /\ Len(Boxes) = k + m + l
      BY <1>1, <1>5, <2>1, <2>2
    <2> HIDE DEF k, l, m
    <2>4. Len(Boxes) \in Nat /\ Len(Boxes) <= ChanCap + 2 /\ (l = 0 => Len(Boxes) <= ChanCap + 1)
      BY <2>3, ChannelAssumption
    <2>5. (k = 1 \/ l = 1 \/ m > 0 => Len(Boxes) > 0) /\ (k = 1 /\ l = 1 => Len(Boxes) > 1)
      BY <2>3
    <2> QED BY <2>1, <2>4, <2>5 DEF k, l, m
  <1> QED BY <1>5, <1>6, <1>7, <1>8 DEF S

\* The agent takes the first box of the channel: nothing moves.
LEMMA BoxesTake ==
  ASSUME FramesTypeOK, Take
  PROVE  /\ Boxes' = Boxes /\ Len(Boxes) > 0 /\ agent' = {Boxes[1]} /\ shown' = Boxes[1].unit
         /\ chan' \in Seq(ToSet(chan)') /\ Len(chan') <= ChanCap
  <1> DEFINE c == chan
             t == Tail(chan)
             x == Head(chan)
             h == SetToSeq(hand)
             S == AllBoxes
  <1>1. agent = {} /\ c # << >> /\ agent' = {x} /\ shown' = x.unit /\ chan' = t /\ hand' = hand
    BY DEF Take, reader
  <1>2. c \in Seq(S) /\ h \in Seq(S) /\ Len(c) \in Nat /\ Len(c) <= ChanCap
    BY Parts
  <1>3. x \in S /\ t \in Seq(S) /\ Len(t) = Len(c) - 1 /\ x = c[1]
    BY <1>1, <1>2, HeadTailProperties
  <1>4. c = <<x>> \o t
    <2>1. Len(c) \in Nat \ {0}
      BY <1>1, <1>2, EmptySeq
    <2>2. 1 \in 1 .. Len(c) /\ Len(c) \in 1 .. Len(c) /\ 1 + 1 = 2
      BY <2>1
    <2>3. SubSeq(c, 1, Len(c)) = <<c[1]>> \o SubSeq(c, 2, Len(c))
      BY <1>2, <2>2, SubSeqRecursiveFirst
    <2>4. SubSeq(c, 1, Len(c)) = c /\ SubSeq(c, 2, Len(c)) = t
      BY <1>1, <1>2, SubSeqFull, TailIsSubSeq
    <2> QED BY <1>3, <2>3, <2>4
  <1>5. Boxes = (SetToSeq({}) \o c) \o h
    BY <1>1 DEF Boxes
  <1>6. Boxes' = (SetToSeq({x}) \o t) \o h
    BY <1>1 DEF Boxes
  <1> HIDE DEF c, t, x, h, S
  <1>7. << >> \o c = c
    BY <1>2, ConcatOf
  <1>8. Boxes = c \o h /\ Boxes' = c \o h
    BY <1>4, <1>5, <1>6, <1>7, AsSeq
  <1>9. t \o h \in Seq(S) /\ (<<x>> \o t) \o h = <<x>> \o (t \o h)
    <2>1. <<x>> \in Seq(S)
      BY <1>3
    <2> QED BY <1>2, <1>3, <2>1, ConcatOf, ConcatThreeOf
  <1>10. Boxes = <<x>> \o (t \o h)
    BY <1>4, <1>8, <1>9
  <1>11. Boxes[1] = x
    BY <1>3, <1>9, <1>10, InFrontOf
  <1>12. t \in Seq(ToSet(t)) /\ Len(t) <= ChanCap
    BY <1>2, <1>3, OfItsOwn, ChannelAssumption
  <1>13. ToSet(chan)' = ToSet(t)
    BY <1>1
  <1>14. Len(Boxes) > 0
    BY <1>1, BoxesAre DEF c
  <1> QED BY <1>1, <1>8, <1>11, <1>12, <1>13, <1>14

\* The driver puts its box on the channel: nothing moves.
LEMMA BoxesSend ==
  ASSUME FramesTypeOK, SendBox
  PROVE  /\ Boxes' = Boxes /\ hand' = {} /\ agent' = agent
         /\ chan' \in Seq(ToSet(chan)') /\ Len(chan') <= ChanCap
  <1> DEFINE a == SetToSeq(agent)
             c == chan
             S == AllBoxes
  <1>1. hand # {} /\ Len(c) < ChanCap /\ chan' = c \o SetToSeq(hand) /\ hand' = {} /\ agent' = agent
    BY DEF SendBox, HasRoom, viewer
  <1>2. PICK b \in hand : hand = {b}
    BY <1>1 DEF FramesTypeOK
  <1> DEFINE w == <<b>>
  <1>3. SetToSeq(hand) = w
    BY <1>2, AsSeq
  <1>4. a \in Seq(S) /\ c \in Seq(S) /\ w \in Seq(S) /\ Len(c) \in Nat /\ Len(w) = 1
    <2>1. a \in Seq(S) /\ c \in Seq(S) /\ SetToSeq(hand) \in Seq(S) /\ Len(c) \in Nat
      BY Parts
    <2>2. Len(w) = 1
      OBVIOUS
    <2> HIDE DEF a, c, S, w
    <2> QED BY <1>3, <2>1, <2>2
  <1>5. Boxes = (a \o c) \o w
    BY <1>3 DEF Boxes
  <1>6. Boxes' = (a \o (c \o w)) \o SetToSeq({})
    BY <1>1, <1>3 DEF Boxes
  <1> HIDE DEF a, c, S, w
  <1>7. c \o w \in Seq(S) /\ Len(c \o w) = Len(c) + 1
    BY <1>4, ConcatOf
  <1>8. (a \o c) \o w = a \o (c \o w)
    <2>1. a \in Seq(S) /\ c \in Seq(S) /\ w \in Seq(S)
      BY <1>4
    <2> QED BY <2>1, ConcatThreeOf
  <1> DEFINE x == c \o w
             y == a \o x
  <1>9. x \in Seq(S)
    BY <1>7
  <1> HIDE DEF x
  <1>10. y \in Seq(S)
    BY <1>4, <1>9, ConcatOf
  <1> HIDE DEF y
  <1>11. y \o << >> = y
    BY <1>10, ConcatOf
  <1>12. Boxes' = Boxes
    BY <1>5, <1>6, <1>8, <1>11, AsSeq DEF x, y
  <1>13. chan' = x /\ x \in Seq(ToSet(x)) /\ Len(x) <= ChanCap
    <2>1. chan' = x
      BY <1>1, <1>3 DEF x
    <2>2. x \in Seq(ToSet(x))
      BY <1>9, OfItsOwn
    <2>3. Len(x) <= ChanCap
      BY <1>1, <1>4, <1>7, ChannelAssumption DEF x
    <2> QED BY <2>1, <2>2, <2>3
  <1>14. ToSet(chan)' = ToSet(x)
    BY <1>13
  <1> QED BY <1>1, <1>12, <1>13, <1>14

\* The agent is done with the first: the others are one further.
LEMMA BoxesWrite ==
  ASSUME FramesTypeOK, WriteSample
  PROVE  /\ Boxes' \in Seq(AllBoxes)
         /\ Len(Boxes) > 0 /\ Len(Boxes') = Len(Boxes) - 1 /\ DOMAIN Boxes' = 1 .. Len(Boxes) - 1
         /\ \A i \in 1 .. Len(Boxes) - 1 : Boxes'[i] = Boxes[i + 1]
         /\ UNCHANGED <<chan, hand>> /\ agent' = {}
  <1> DEFINE c == chan
             h == SetToSeq(hand)
             S == AllBoxes
  <1>1. agent # {} /\ agent' = {} /\ UNCHANGED <<chan, hand>>
    BY DEF WriteSample, reader
  <1>2. PICK b \in agent : agent = {b}
    BY <1>1 DEF FramesTypeOK
  <1>3. c \in Seq(S) /\ h \in Seq(S) /\ b \in S
    BY Parts DEF AllBoxes
  <1>4. Boxes = (<<b>> \o c) \o h /\ SetToSeq(agent) = <<b>>
    BY <1>2, AsSeq DEF Boxes
  <1>5. Boxes' = (SetToSeq({}) \o c) \o h
    BY <1>1 DEF Boxes
  <1>6. Len(Boxes) > 0
    BY <1>1, BoxesAre
  <1> HIDE DEF c, h, S
  <1>7. << >> \o c = c
    BY <1>3, ConcatOf
  <1> DEFINE x == c \o h
  <1>8. Boxes' = x
    BY <1>5, <1>7, AsSeq
  <1>9. (<<b>> \o c) \o h = <<b>> \o x
    <2>1. <<b>> \in Seq(S)
      BY <1>3
    <2> QED BY <1>3, <2>1, ConcatThreeOf
  <1>10. x \in Seq(S)
    BY <1>3, ConcatOf
  <1> HIDE DEF x
  <1>11. Len(x) \in Nat /\ DOMAIN x = 1 .. Len(x) /\ Boxes = <<b>> \o x
    BY <1>4, <1>9, <1>10, LenProperties
  <1>12. Len(Boxes) = Len(x) + 1 /\ \A i \in 1 .. Len(x) : Boxes[i + 1] = x[i]
    BY <1>3, <1>10, <1>11, InFrontOf
  <1>13. Len(Boxes) - 1 = Len(x)
    BY <1>11, <1>12
  <1> QED BY <1>1, <1>6, <1>8, <1>10, <1>11, <1>12, <1>13 DEF S

\* A new box is the last one.
LEMMA BoxesAdd ==
  ASSUME FramesTypeOK, hand = {}, NEW b, hand' = {b}, UNCHANGED <<chan, agent>>
  PROVE  /\ Len(Boxes') = Len(Boxes) + 1 /\ DOMAIN Boxes' = 1 .. Len(Boxes) + 1
         /\ Boxes'[Len(Boxes) + 1] = b
         /\ \A i \in 1 .. Len(Boxes) : Boxes'[i] = Boxes[i]
  <1> DEFINE a == SetToSeq(agent)
             c == chan
             S == AllBoxes \cup {b}
             w == <<b>>
  <1>1. a \in Seq(S) /\ c \in Seq(S)
    <2>1. AllBoxes \subseteq S
      OBVIOUS
    <2> HIDE DEF S
    <2> QED BY <2>1, Parts
  <1>2. b \in S
    OBVIOUS
  <1>3. Boxes = (a \o c) \o SetToSeq({})
    BY DEF Boxes
  <1>4. Boxes' = (a \o c) \o SetToSeq({b})
    BY DEF Boxes
  <1> HIDE DEF a, c, S
  <1> DEFINE x == a \o c
  <1>5. x \in Seq(S)
    BY <1>1, ConcatOf
  <1> HIDE DEF x
  <1>6. x \o << >> = x
    BY <1>5, ConcatOf
  <1>7. Boxes = x
    BY <1>3, <1>6, AsSeq DEF x
  <1>8. Append(x, b) = x \o <<b>>
    BY <1>2, <1>5, AppendIsConcat
  <1>9. Boxes' = Append(x, b)
    BY <1>4, <1>8, AsSeq DEF x
  <1>10. /\ Append(x, b) \in Seq(S) /\ Len(Append(x, b)) = Len(x) + 1
         /\ \A i \in 1 .. Len(x) : Append(x, b)[i] = x[i]
         /\ Append(x, b)[Len(x) + 1] = b
    BY <1>2, <1>5, AppendProperties
  <1>11. DOMAIN Append(x, b) = 1 .. Len(Append(x, b))
    BY <1>10, LenProperties
  <1> QED BY <1>7, <1>9, <1>10, <1>11

\* A run without a picture is no longer than the longest.
LEMMA QuietRun ==
  ASSUME FramesTypeOK
  PROVE  /\ MaxQuiet \in Nat
         /\ \A i, k \in Nat : i + k <= Len(units) /\ (\A j \in i + 1 .. i + k : KeySeen(j) /\ ~Picture(j))
              => k <= MaxQuiet
  <1> DEFINE N == Len(units)
             Quiet(i, k) == \A j \in i + 1 .. i + k : KeySeen(j) /\ ~Picture(j)
             Q == {k \in 0 .. N : \E i \in 0 .. N - k : Quiet(i, k)}
  <1>1. N \in Nat
    BY Counts
  <1>2. MaxQuiet = Max(Q)
    BY DEF MaxQuiet
  <1> HIDE DEF N
  <1>3. Q \subseteq 0 .. N
    OBVIOUS
  <1>4. 0 \in Q
    <2>1. 0 \in 0 .. N /\ 0 \in 0 .. N - 0 /\ 0 + 1 .. 0 + 0 = {}
      BY <1>1
    <2> QED BY <2>1
  <1>5. ASSUME NEW i \in Nat, NEW k \in Nat, i + k <= N, Quiet(i, k) PROVE k \in Q
    <2>1. k \in 0 .. N /\ i \in 0 .. N - k
      BY <1>1, <1>5
    <2> HIDE DEF Quiet
    <2> QED BY <1>5, <2>1
  <1> HIDE DEF Q
  <1>6. Max(Q) \in Q /\ \A n \in Q : n <= Max(Q)
    BY <1>1, <1>3, <1>4, GreatestOf
  <1>7. Max(Q) \in Nat /\ \A i, k \in Nat : i + k <= N /\ Quiet(i, k) => k <= Max(Q)
    <2>1. Max(Q) \in Nat
      <3> HIDE DEF Quiet
      <3>1. Max(Q) \in 0 .. N
        BY <1>3, <1>6
      <3> QED BY <3>1
    <2>2. ASSUME NEW i \in Nat, NEW k \in Nat, i + k <= N, Quiet(i, k) PROVE k <= Max(Q)
      <3>1. k \in Q
        BY <1>5, <2>2
      <3> QED BY <1>6, <3>1
    <2> HIDE DEF Quiet
    <2> QED BY <2>1, <2>2
  <1> QED BY <1>2, <1>7 DEF N

\* Once a key frame has come, it has come.
LEMMA KeyStays ==
  ASSUME NEW i \in Nat, NEW j \in Nat, i <= j, KeySeen(i)
  PROVE  KeySeen(j)
  BY DEF KeySeen

\* So two boxes are no further from each other than the longest run allows.
LEMMA Gap ==
  ASSUME FramesTypeOK, NEW i \in Nat, NEW r \in Nat, i <= r, r <= Kept, KeySeen(i),
         \A j \in i + 1 .. r : Skipped(j)
  PROVE  r - i <= MaxQuiet
  <1>1. r - i \in Nat /\ i + (r - i) = r /\ Kept \in Nat /\ Kept <= Len(units)
    BY Counts
  <1>2. r <= Len(units)
    BY <1>1, Counts
  <1>3. ASSUME NEW j \in i + 1 .. r PROVE KeySeen(j) /\ ~Picture(j)
    <2>1. j \in Nat /\ i <= j /\ j <= Kept
      BY <1>1
    <2>2. KeySeen(j)
      BY <2>1, KeyStays
    <2> QED BY <2>1, <2>2 DEF Skipped
  <1> DEFINE k == r - i
  <1>4. k \in Nat /\ i + k = r /\ i + k <= Len(units)
    BY <1>1, <1>2
  <1> HIDE DEF k
  <1>5. \A j \in i + 1 .. i + k : KeySeen(j) /\ ~Picture(j)
    BY <1>3, <1>4
  <1>6. k <= MaxQuiet
    BY <1>4, <1>5, QuietRun
  <1> QED BY <1>6 DEF k

\* The unit at hand: its start code, its data and their type.
ReadEnd == StartCodeEnd(Head(wire))
ReadData == SubSeq(Head(wire), ReadEnd + 1, Len(Head(wire)))
ReadType == NalType(ReadData)

\* The driver reads a unit: what it does with it, by its type.
LEMMA ReceiveCases ==
  ASSUME Receive
  PROVE  \/ (ReadEnd = 0 \/ Ignored(ReadType)) /\ UNCHANGED <<last, waiting, hand>>
         \/ /\ ReadEnd > 0 /\ \E s \in SetOf(ReadType) : last' = [last EXCEPT ![s] = ReadData]
            /\ UNCHANGED <<waiting, hand>>
         \/ /\ ReadEnd > 0 /\ SetOf(ReadType) = {} /\ ~Ignored(ReadType)
            /\ waiting' = (waiting /\ ~IsKey(ReadType))
            /\ hand' = IF DropsUntilKey(ReadType) THEN {} ELSE {Box(ReadData, ReadType)}
            /\ UNCHANGED last
  BY DEF Receive, ReadEnd, ReadData, ReadType

\* What is known of it.
LEMMA NextRead ==
  ASSUME FramesTypeOK, UnitsInOrder, NalsAreWhole, wire # << >>
  PROVE  /\ Head(wire) \in Seq(Nat) /\ ReadData \in Seq(Nat) /\ ReadEnd \in {0, 3, 4}
         /\ ReadEnd > 0 => ReadType \in Nat
         /\ received + 1 <= Sent /\ received + 1 <= coded /\ received <= Kept /\ received + 1 \in 1 .. Len(units)
         /\ received + 1 <= Kept => ReadEnd > 0 /\ ReadType = TypeOf(received + 1)
         /\ received + 1 <= Whole => ReadData = units[received + 1].data
  BY NextUnit DEF ReadEnd, ReadData, ReadType

\* The driver reads: the units are in order still, one fewer is under way.
LEMMA ReceiveStep ==
  ASSUME FramesTypeOK, UnitsInOrder, NalsAreWhole, Receive
  PROVE  FramesTypeOK' /\ UnitsInOrder' /\ NalsAreWhole'
  <1>1. /\ reading /\ open /\ hand = {} /\ wire # << >> /\ received' = received + 1 /\ wire' = Tail(wire)
        /\ UNCHANGED <<stream, coded, pipe, encoder, buf, eof, pushing, open, reading, chan, agent, shown>>
    BY DEF Receive, source, pusher, viewer
  <1>2. /\ wire \in Seq(Seq(Nat)) /\ wire' \in Seq(Seq(Nat)) /\ Len(wire') = Len(wire) - 1
        /\ \A i \in 1 .. Len(wire') : wire'[i] = wire[i + 1]
        /\ DOMAIN wire = 1 .. Len(wire) /\ DOMAIN wire' = 1 .. Len(wire) - 1 /\ Len(wire) \in Nat
    <2>1. wire \in Seq(Seq(Nat))
      BY DEF FramesTypeOK
    <2>2. wire' \in Seq(Seq(Nat)) /\ Len(wire') = Len(wire) - 1 /\ \A i \in 1 .. Len(wire') : wire'[i] = wire[i + 1]
      BY <1>1, <2>1, HeadTailProperties
    <2>3. DOMAIN wire = 1 .. Len(wire) /\ DOMAIN wire' = 1 .. Len(wire') /\ Len(wire) \in Nat
      BY <2>1, <2>2, LenProperties
    <2> QED BY <2>1, <2>2, <2>3
  <1>3. received \in Nat /\ received' \in Nat
    BY <1>1, Counts
  <1>4. /\ last' \in [Sets -> Seq(Nat)] /\ waiting' \in BOOLEAN
        /\ hand' = {} \/ \E b \in hand' : hand' = {b}
    <2>1. last \in [Sets -> Seq(Nat)] /\ waiting \in BOOLEAN /\ ReadData \in Seq(Nat)
          /\ (ReadEnd > 0 => ReadType \in Nat)
      BY <1>1, NextRead DEF FramesTypeOK
    <2>2. CASE UNCHANGED <<last, waiting, hand>>
      BY <1>1, <2>1, <2>2
    <2>3. ASSUME ReadEnd > 0, NEW s \in SetOf(ReadType), last' = [last EXCEPT ![s] = ReadData],
                 UNCHANGED <<waiting, hand>>
          PROVE  /\ last' \in [Sets -> Seq(Nat)] /\ waiting' \in BOOLEAN
                 /\ hand' = {} \/ \E b \in hand' : hand' = {b}
      <3>1. s \in Sets
        BY <2>1, <2>3, Kinds
      <3>2. last' \in [Sets -> Seq(Nat)]
        BY <2>1, <2>3, <3>1
      <3> QED BY <1>1, <2>1, <2>3, <3>2
    <2>4. CASE /\ waiting' = (waiting /\ ~IsKey(ReadType))
               /\ hand' = IF DropsUntilKey(ReadType) THEN {} ELSE {Box(ReadData, ReadType)}
               /\ UNCHANGED last
      BY <2>1, <2>4
    <2> QED BY <2>2, <2>3, <2>4, ReceiveCases
  <1>5. FramesTypeOK'
    BY <1>1, <1>2, <1>3, <1>4 DEF FramesTypeOK, units
  <1>6. Sent' = Sent
    <2>1. Sent' = (received + 1) + (Len(wire) - 1)
      BY <1>1, <1>2 DEF Sent
    <2> QED BY <1>2, <1>3, <2>1 DEF Sent
  <1>7. units' = units /\ Kept' = Kept /\ Whole' = Whole /\ Left' = Left
    BY <1>1 DEF Kept, Whole, units, Left
  <1>8. UnitsLeft' <=> UnitsLeft
    BY <1>1, <1>6, <1>7, LeftPlaced, LeftPlacedNext
  <1>9. ASSUME NEW i \in DOMAIN wire'
        PROVE  i + 1 \in DOMAIN wire /\ received' + i = received + (i + 1) /\ wire'[i] = wire[i + 1]
    <2>1. i \in Nat /\ i >= 1 /\ i <= Len(wire) - 1
      BY <1>2, <1>9
    <2>2. i + 1 \in 1 .. Len(wire) /\ (received + 1) + i = received + (i + 1) /\ i \in 1 .. Len(wire')
      <3>1. Len(wire) \in Nat /\ Len(wire') = Len(wire) - 1 /\ received \in Nat
        BY <1>2, <1>3
      <3> QED BY <2>1, <3>1
    <2> QED BY <1>1, <1>2, <2>2
  <1>10. UnitsInOrder'
    BY <1>1, <1>6, <1>7, <1>8, <1>9 DEF UnitsInOrder
  <1>11. received' + Len(wire)' = received + Len(wire)
    BY <1>6 DEF Sent
  <1>12. NalsAreWhole'
    <2>1. \A i \in DOMAIN wire' : received' + i <= Whole' => wire'[i] = Bytes(units'[received' + i])
      BY <1>7, <1>9 DEF NalsAreWhole
    <2>2. eof' /\ ~pushing' /\ open' => received' + Len(wire)' >= Whole'
      BY <1>1, <1>7, <1>11 DEF NalsAreWhole
    <2> QED BY <2>1, <2>2 DEF NalsAreWhole
  <1> QED BY <1>5, <1>10, <1>12

-----------------------------------------------------------------------------
(* What the agent gets                                                     *)

\* A box is as it should be: the part of BoxesDecodable about what there is.
Complete(b) ==
  /\ Picture(b.unit) /\ KeySeen(b.unit)
  /\ b.nals = IF IsKey(TypeOf(b.unit)) THEN Append(Seen(Decodable(b.unit)), units[b.unit].data)
              ELSE <<units[b.unit].data>>
Carried == \A n \in DOMAIN Boxes : Boxes[n].unit <= Whole => Complete(Boxes[n])

VideoInv == DriverKnows /\ BoxesInOrder /\ NoneSkipped /\ Close /\ Carried

\* A box that is complete stays it.
LEMMA StaysComplete ==
  ASSUME UNCHANGED stream
  PROVE  /\ \A b : Complete(b)' <=> Complete(b)
         /\ \A i : Picture(i)' <=> Picture(i)
         /\ \A i : KeySeen(i)' <=> KeySeen(i)
         /\ \A i, s : Latest(i, s)' = Latest(i, s)
         /\ MaxQuiet' = MaxQuiet /\ units' = units
  BY StreamSame DEF Complete

\* What others do changes nothing: no unit that has been read counts any more that
\* did not before.
LEMMA VideoSame ==
  ASSUME FramesTypeOK, VideoInv, Boxes' = Boxes, UNCHANGED <<stream, received, last, waiting>>,
         hand' # {} => hand # {},
         UNCHANGED <<agent, shown>> \/ (Len(Boxes) > 0 /\ shown' = Boxes[1].unit),
         \A i \in 0 .. received : (i <= Kept' => i <= Kept) /\ (i <= Whole' => i <= Whole)
  PROVE  VideoInv'
  <1>1. received \in Nat /\ DOMAIN Boxes = 1 .. Len(Boxes) /\ Len(Boxes) \in Nat
    BY Counts, BoxesAre
  <1>2. \A n \in DOMAIN Boxes : Boxes[n].unit \in 1 .. received
    BY DEF VideoInv, BoxesInOrder
  <1>3. \A n \in DOMAIN Boxes : Boxes[n].unit \in 0 .. received
    BY <1>1, <1>2
  <1>4. DriverKnows'
    <2>1. received \in 0 .. received
      BY <1>1
    <2>2. ASSUME received' <= Whole' PROVE \A s \in Sets : last'[s] = Latest(received + 1, s)'
      BY <2>1, <2>2, StaysComplete DEF VideoInv, DriverKnows
    <2>3. ASSUME received' <= Kept' PROVE waiting' <=> ~KeySeen(received)'
      BY <2>1, <2>3, StaysComplete DEF VideoInv, DriverKnows
    <2> QED BY <2>2, <2>3 DEF DriverKnows
  <1>5. BoxesInOrder'
    <2>1. ASSUME NEW n \in DOMAIN Boxes', Boxes'[n].unit <= Kept'
          PROVE  Picture(Boxes[n].unit)' /\ KeySeen(Boxes[n].unit)'
      BY <1>3, <2>1, StaysComplete DEF VideoInv, BoxesInOrder
    <2>2. agent' # {} => Boxes'[1].unit = shown'
      BY DEF VideoInv, BoxesInOrder
    <2>3. hand' # {} => Boxes'[Len(Boxes')].unit = received'
      BY DEF VideoInv, BoxesInOrder
    <2> QED BY <1>2, <2>1, <2>2, <2>3 DEF VideoInv, BoxesInOrder
  <1>6. NoneSkipped'
    <2>1. ASSUME NEW i \in 1 .. received, Skipped(i) PROVE Skipped(i)'
      <3>1. i \in 0 .. received
        OBVIOUS
      <3> QED BY <2>1, <3>1, StaysComplete DEF Skipped
    <2>2. shown \in Nat
      BY DEF FramesTypeOK
    <2>3. Boxes = << >> <=> Len(Boxes) = 0
      BY BoxesAre, EmptySeq
    <2>4. ASSUME Len(Boxes) = 0, NEW i \in shown' + 1 .. received' PROVE Skipped(i)'
      <3>1. i \in shown + 1 .. received /\ i \in 1 .. received
        BY <1>1, <2>2, <2>4
      <3>2. Skipped(i)
        BY <2>3, <2>4, <3>1 DEF VideoInv, NoneSkipped
      <3> QED BY <2>1, <3>1, <3>2
    <2>5. ASSUME Len(Boxes) > 0, NEW i \in shown' + 1 .. Boxes[1].unit - 1 PROVE Skipped(i)'
      <3>1. Boxes[1].unit \in 1 .. received
        BY <1>1, <1>2, <2>5
      <3>2. shown' = shown
        <4>1. shown' = Boxes[1].unit => FALSE
          BY <2>5, <3>1
        <4> QED BY <4>1
      <3>3. i \in shown + 1 .. Boxes[1].unit - 1 /\ i \in 1 .. received
        BY <1>1, <2>2, <2>5, <3>1, <3>2
      <3>4. Skipped(i)
        BY <2>3, <2>5, <3>3 DEF VideoInv, NoneSkipped
      <3> QED BY <2>1, <3>3, <3>4
    <2>6. ASSUME Len(Boxes) > 0, NEW n \in 1 .. Len(Boxes) - 1,
                 NEW i \in Boxes[n].unit + 1 .. Boxes[n + 1].unit - 1
          PROVE  Skipped(i)'
      <3>1. n \in DOMAIN Boxes /\ n + 1 \in DOMAIN Boxes
        BY <1>1
      <3>2. Boxes[n].unit \in 1 .. received /\ Boxes[n + 1].unit \in 1 .. received
        BY <1>2, <3>1
      <3>3. i \in 1 .. received
        BY <1>1, <3>2
      <3>4. Skipped(i)
        BY <2>3, <2>6 DEF VideoInv, NoneSkipped
      <3> QED BY <2>1, <3>3, <3>4
    <2>7. ASSUME Len(Boxes) > 0, NEW i \in Boxes[Len(Boxes)].unit + 1 .. received PROVE Skipped(i)'
      <3>1. Len(Boxes) \in DOMAIN Boxes
        BY <1>1, <2>7
      <3>2. Boxes[Len(Boxes)].unit \in 1 .. received
        BY <1>2, <3>1
      <3>3. i \in 1 .. received
        BY <1>1, <3>2
      <3>4. Skipped(i)
        BY <2>3, <2>7 DEF VideoInv, NoneSkipped
      <3> QED BY <2>1, <3>3, <3>4
    <2> QED BY <1>1, <2>3, <2>4, <2>5, <2>6, <2>7 DEF NoneSkipped
  <1>7. Close'
    BY StaysComplete DEF VideoInv, Close
  <1>8. Carried'
    BY <1>3, StaysComplete DEF VideoInv, Carried
  <1> QED BY <1>4, <1>5, <1>6, <1>7, <1>8 DEF VideoInv

\* The latest sets, one unit further.
LEMMA LatestNext ==
  ASSUME NEW r \in Nat, r > 0, NEW s
  PROVE  Latest(r + 1, s) = IF s \in SetOf(TypeOf(r)) THEN units[r].data ELSE Latest(r, s)
  <1> DEFINE B == Before(r, s)
             C == Before(r + 1, s)
  <1>1. (r + 1) - 1 = r /\ \A j \in 1 .. r : j \in 1 .. r - 1 \/ j = r
    OBVIOUS
  <1>2. \A j \in 1 .. r - 1 : j \in 1 .. r
    OBVIOUS
  <1>3. C = {j \in 1 .. r : s \in SetOf(TypeOf(j))} /\ B = {j \in 1 .. r - 1 : s \in SetOf(TypeOf(j))}
    BY <1>1 DEF Before
  <1>4. CASE s \in SetOf(TypeOf(r))
    <2>1. r \in C /\ C \subseteq 0 .. r
      <3>1. r \in 1 .. r /\ 1 .. r \subseteq 0 .. r
        OBVIOUS
      <3> QED BY <1>3, <1>4, <3>1
    <2> HIDE DEF C
    <2>2. C # {}
      BY <2>1
    <2>3. Max(C) \in C /\ \A n \in C : n <= Max(C)
      BY <2>1, <2>2, GreatestOf
    <2>4. Max(C) \in 0 .. r /\ r <= Max(C)
      BY <2>1, <2>3
    <2>5. Max(C) = r
      BY <2>4
    <2> QED BY <1>4, <2>2, <2>5 DEF Latest, C
  <1>5. CASE ~(s \in SetOf(TypeOf(r)))
    <2>1. C = B
      BY <1>1, <1>2, <1>3, <1>5
    <2> QED BY <1>5, <2>1 DEF Latest
  <1> QED BY <1>4, <1>5

\* A key frame has come, one unit further.
LEMMA KeySeenNext ==
  ASSUME NEW r \in Nat, r > 0
  PROVE  KeySeen(r) <=> KeySeen(r - 1) \/ IsKey(TypeOf(r))
  <1>1. \A j \in 1 .. r : j \in 1 .. r - 1 \/ j = r
    OBVIOUS
  <1>2. r \in 1 .. r /\ \A j \in 1 .. r - 1 : j \in 1 .. r
    OBVIOUS
  <1> QED BY <1>1, <1>2 DEF KeySeen

\* Once the unit is read, the driver knows what it must, and a picture is in its
\* hands if one has to go out.
LEMMA ReadKnows ==
  ASSUME FramesTypeOK, UnitsInOrder, NalsAreWhole, DriverKnows, Receive
  PROVE  /\ DriverKnows'
         /\ hand' = {} => Skipped(received + 1)
         /\ hand' # {} => \E b : /\ hand' = {b} /\ b.unit = received + 1
                                 /\ received + 1 <= Kept => Picture(received + 1) /\ KeySeen(received + 1)
                                 /\ received + 1 <= Whole => Complete(b)
  <1> DEFINE r == received + 1
             t == ReadType
  <1>1. /\ hand = {} /\ received' = r /\ UNCHANGED <<stream, coded, encoder>> /\ wire # << >>
    BY DEF Receive, source
  <1>2. Kept' = Kept /\ Whole' = Whole
    BY <1>1 DEF Kept, Whole
  <1>3. /\ r <= coded /\ received <= Kept /\ ReadData \in Seq(Nat) /\ ReadEnd \in {0, 3, 4} /\ r \in 1 .. Len(units)
        /\ ReadEnd > 0 => t \in Nat
        /\ r <= Kept => ReadEnd > 0 /\ t = TypeOf(r)
        /\ r <= Whole => ReadData = units[r].data
    BY <1>1, NextRead
  <1>4. /\ received \in Nat /\ r \in Nat /\ r > 0 /\ r - 1 = received /\ Whole <= Kept /\ Whole \in Int /\ Kept \in Nat
        /\ (r <= Whole => r <= Kept /\ received <= Whole)
    BY Numbers
  <1>5. \/ (ReadEnd = 0 \/ Ignored(t)) /\ UNCHANGED <<last, waiting, hand>>
        \/ /\ ReadEnd > 0 /\ \E s \in SetOf(t) : last' = [last EXCEPT ![s] = ReadData]
           /\ UNCHANGED <<waiting, hand>>
        \/ /\ ReadEnd > 0 /\ SetOf(t) = {} /\ ~Ignored(t)
           /\ waiting' = (waiting /\ ~IsKey(t))
           /\ hand' = IF DropsUntilKey(t) THEN {} ELSE {Box(ReadData, t)}
           /\ UNCHANGED last
    BY ReceiveCases
  <1>6. last \in [Sets -> Seq(Nat)] /\ waiting \in BOOLEAN
    BY DEF FramesTypeOK
  <1>7. (waiting <=> ~KeySeen(received)) /\ (received <= Whole => \A s \in Sets : last[s] = Latest(r, s))
    BY <1>3 DEF DriverKnows
  <1> HIDE DEF r, t
  <1>8. KeySeen(r) <=> KeySeen(received) \/ IsKey(TypeOf(r))
    BY <1>4, KeySeenNext
  <1>9. \A s : Latest(r + 1, s) = IF s \in SetOf(TypeOf(r)) THEN units[r].data ELSE Latest(r, s)
    BY <1>4, LatestNext
  <1>10. ASSUME r <= Whole PROVE \A s \in Sets : last'[s] = Latest(r + 1, s)
    <2>1. /\ r <= Kept /\ ReadEnd > 0 /\ t = TypeOf(r) /\ t \in Nat /\ ReadData = units[r].data
          /\ \A s \in Sets : last[s] = Latest(r, s)
      BY <1>3, <1>4, <1>7, <1>10
    <2>2. CASE Ignored(t) /\ UNCHANGED <<last, waiting, hand>>
      <3>1. SetOf(t) = {}
        BY <2>1, <2>2, Kinds
      <3> QED BY <1>9, <2>1, <2>2, <3>1
    <2>3. ASSUME NEW s \in SetOf(t), last' = [last EXCEPT ![s] = ReadData]
          PROVE  \A o \in Sets : last'[o] = Latest(r + 1, o)
      <3>1. s \in Sets /\ \A o \in Sets : o \in SetOf(t) <=> o = s
        BY <2>1, Kinds
      <3>2. \A o \in Sets : last'[o] = IF o = s THEN ReadData ELSE last[o]
        BY <1>6, <2>3
      <3> QED BY <1>9, <2>1, <3>1, <3>2
    <2>4. CASE SetOf(t) = {} /\ UNCHANGED last
      BY <1>9, <2>1, <2>4
    <2> QED BY <1>5, <2>1, <2>2, <2>3, <2>4
  <1>11. ASSUME r <= Kept PROVE waiting' <=> ~KeySeen(r)
    <2>1. ReadEnd > 0 /\ t = TypeOf(r) /\ t \in Nat
      BY <1>3, <1>11
    <2>2. CASE Ignored(t) /\ UNCHANGED <<last, waiting, hand>>
      <3>1. ~IsKey(t)
        BY <2>1, <2>2, Kinds
      <3> QED BY <1>7, <1>8, <2>1, <2>2, <3>1
    <2>3. CASE SetOf(t) # {} /\ UNCHANGED <<waiting, hand>>
      <3>1. ~IsKey(t)
        BY <2>1, <2>3, Kinds
      <3> QED BY <1>7, <1>8, <2>1, <2>3, <3>1
    <2>4. CASE waiting' = (waiting /\ ~IsKey(t))
      BY <1>7, <1>8, <2>1, <2>4
    <2> QED BY <1>3, <1>5, <2>1, <2>2, <2>3, <2>4
  <1>12. DriverKnows'
    <2>1. (received + 1)' = r + 1
      BY <1>1
    <2>2. ASSUME received' <= Whole' PROVE \A s \in Sets : last'[s] = Latest(received + 1, s)'
      <3>1. r <= Whole
        BY <1>1, <1>2, <2>2
      <3>2. \A s \in Sets : Latest(received + 1, s)' = Latest(r + 1, s)
        BY <1>1, <2>1, StaysComplete
      <3> QED BY <1>10, <3>1, <3>2
    <2>3. ASSUME received' <= Kept' PROVE waiting' <=> ~KeySeen(received)'
      <3>1. r <= Kept
        BY <1>1, <1>2, <2>3
      <3>2. KeySeen(received)' <=> KeySeen(r)
        BY <1>1, StaysComplete
      <3> QED BY <1>11, <3>1, <3>2
    <2> QED BY <2>2, <2>3 DEF DriverKnows
  <1>13. ASSUME hand' = {}, r <= Kept, Picture(r) PROVE ~KeySeen(r)
    <2>1. ReadEnd > 0 /\ t = TypeOf(r) /\ SetOf(t) = {} /\ ~Ignored(t)
      BY <1>3, <1>13 DEF Picture
    <2>2. DropsUntilKey(t)
      BY <1>3, <1>5, <1>13, <2>1
    <2> QED BY <1>7, <1>8, <2>1, <2>2 DEF DropsUntilKey
  <1>14. ASSUME hand' # {}
         PROVE  \E b : /\ hand' = {b} /\ b.unit = r
                       /\ r <= Kept => Picture(r) /\ KeySeen(r)
                       /\ r <= Whole => Complete(b)
    <2>1. /\ ReadEnd > 0 /\ SetOf(t) = {} /\ ~Ignored(t) /\ ~DropsUntilKey(t)
          /\ hand' = {Box(ReadData, t)}
      BY <1>1, <1>5, <1>14
    <2> DEFINE b == Box(ReadData, t)
    <2>2. /\ b.unit = r
          /\ b.nals = IF IsKey(t) THEN Append(InFront, ReadData) ELSE <<ReadData>>
      BY DEF Box, r
    <2> HIDE DEF b
    <2>3. ASSUME r <= Kept PROVE Picture(r) /\ KeySeen(r)
      <3>1. t = TypeOf(r)
        BY <1>3, <2>3
      <3>2. Picture(r)
        BY <2>1, <3>1 DEF Picture
      <3>3. KeySeen(r)
        BY <1>7, <1>8, <2>1, <3>1 DEF DropsUntilKey
      <3> QED BY <3>2, <3>3
    <2>4. ASSUME r <= Whole PROVE Complete(b)
      <3>1. r <= Kept /\ received <= Whole /\ t = TypeOf(r) /\ ReadData = units[r].data
        BY <1>3, <1>4, <2>4
      <3>2. InFront = Seen(Decodable(r))
        <4>1. \A s \in Sets : last[s] = Latest(r, s)
          BY <1>7, <3>1
        <4>2. last["vps"] = Latest(r, "vps") /\ last["sps"] = Latest(r, "sps") /\ last["pps"] = Latest(r, "pps")
          BY <4>1 DEF Sets
        <4> QED BY <4>2 DEF InFront, Decodable
      <3>3. Picture(r) /\ KeySeen(r)
        BY <2>3, <3>1
      <3> QED BY <2>2, <3>1, <3>2, <3>3 DEF Complete
    <2> QED BY <2>1, <2>2, <2>3, <2>4 DEF b
  <1> QED BY <1>12, <1>13, <1>14 DEF Skipped, r

\* A product, one step further.
LEMMA Farther ==
  ASSUME NEW q \in Nat
  PROVE  /\ \A k \in Nat : k * q \in Nat /\ (k + 1) * q = k * q + q
         /\ \A k, l \in Nat : k <= l => k * q <= l * q
  <1>1. ASSUME NEW k \in Nat PROVE k * q \in Nat /\ (k + 1) * q = k * q + q
    OBVIOUS
  <1>2. ASSUME NEW k \in Nat, NEW l \in Nat, k <= l PROVE k * q <= l * q
    <2> DEFINE d == l - k
    <2>1. d \in Nat /\ l = k + d
      BY <1>2
    <2> HIDE DEF d
    <2>2. (k + d) * q = k * q + d * q /\ d * q \in Nat /\ k * q \in Nat
      BY <2>1
    <2> DEFINE kq == k * q
               dq == d * q
    <2>3. kq \in Nat /\ dq \in Nat /\ (k + d) * q = kq + dq
      BY <2>2
    <2> HIDE DEF kq, dq
    <2>4. kq <= (k + d) * q
      BY <2>3
    <2> QED BY <2>1, <2>4 DEF kq
  <1> QED BY <1>1, <1>2

\* What is known of the boxes, spelled out.
LEMMA InOrder ==
  ASSUME FramesTypeOK, VideoInv
  PROVE  /\ Len(Boxes) \in Nat /\ DOMAIN Boxes = 1 .. Len(Boxes) /\ received \in Nat /\ shown \in Nat
         /\ \A n \in 1 .. Len(Boxes) : Boxes[n].unit \in 1 .. received
         /\ \A n \in 1 .. Len(Boxes) : Boxes[n].unit \in Nat
         /\ \A n \in 1 .. Len(Boxes) : Boxes[n].unit <= Kept => Picture(Boxes[n].unit) /\ KeySeen(Boxes[n].unit)
         /\ \A n \in 1 .. Len(Boxes) : Boxes[n].unit <= Whole => Complete(Boxes[n])
         /\ \A n, m \in 1 .. Len(Boxes) : n < m => Boxes[n].unit < Boxes[m].unit
         /\ \A n, m \in 1 .. Len(Boxes) : n <= m => Boxes[m].unit - Boxes[n].unit <= (m - n) * (MaxQuiet + 1)
         /\ Len(Boxes) = 0 => \A i \in shown + 1 .. received : Skipped(i)
         /\ Len(Boxes) > 0 =>
              /\ \A i \in shown + 1 .. Boxes[1].unit - 1 : Skipped(i)
              /\ \A n \in 1 .. Len(Boxes) - 1 : \A i \in Boxes[n].unit + 1 .. Boxes[n + 1].unit - 1 : Skipped(i)
              /\ \A i \in Boxes[Len(Boxes)].unit + 1 .. received : Skipped(i)
         /\ agent # {} => Boxes[1].unit = shown
  <1>1. Len(Boxes) \in Nat /\ DOMAIN Boxes = 1 .. Len(Boxes) /\ received \in Nat /\ shown \in Nat
    BY BoxesAre, Counts DEF FramesTypeOK
  <1>2. /\ \A n \in 1 .. Len(Boxes) : Boxes[n].unit \in 1 .. received
        /\ \A n \in 1 .. Len(Boxes) : Boxes[n].unit <= Kept => Picture(Boxes[n].unit) /\ KeySeen(Boxes[n].unit)
        /\ \A n, m \in 1 .. Len(Boxes) : n < m => Boxes[n].unit < Boxes[m].unit
        /\ agent # {} => Boxes[1].unit = shown
    BY <1>1 DEF VideoInv, BoxesInOrder
  <1>3. \A n \in 1 .. Len(Boxes) : Boxes[n].unit \in Nat
    BY <1>1, <1>2
  <1>4. \A n, m \in 1 .. Len(Boxes) : n <= m => Boxes[m].unit - Boxes[n].unit <= (m - n) * (MaxQuiet + 1)
    BY <1>1 DEF VideoInv, Close
  <1>5. Boxes = << >> <=> Len(Boxes) = 0
    BY BoxesAre, EmptySeq
  <1>6. /\ Len(Boxes) = 0 => \A i \in shown + 1 .. received : Skipped(i)
        /\ Len(Boxes) > 0 =>
             /\ \A i \in shown + 1 .. Boxes[1].unit - 1 : Skipped(i)
             /\ \A n \in 1 .. Len(Boxes) - 1 : \A i \in Boxes[n].unit + 1 .. Boxes[n + 1].unit - 1 : Skipped(i)
             /\ \A i \in Boxes[Len(Boxes)].unit + 1 .. received : Skipped(i)
    BY <1>5 DEF VideoInv, NoneSkipped
  <1>7. \A n \in 1 .. Len(Boxes) : Boxes[n].unit <= Whole => Complete(Boxes[n])
    BY <1>1 DEF VideoInv, Carried
  <1> QED BY <1>1, <1>2, <1>3, <1>4, <1>6, <1>7

\* What stays skipped.
LEMMA StaysSkipped ==
  ASSUME UNCHANGED <<stream, coded, encoder>>
  PROVE  Kept' = Kept /\ Whole' = Whole /\ \A i : Skipped(i)' <=> Skipped(i)
  <1>1. Kept' = Kept /\ Whole' = Whole
    BY DEF Kept, Whole
  <1> QED BY <1>1, StaysComplete DEF Skipped

\* The agent has written a sample.
LEMMA WriteVideo ==
  ASSUME FramesTypeOK, VideoInv, WriteSample
  PROVE  VideoInv'
  <1> DEFINE L == Len(Boxes)
  <1>1. UNCHANGED <<stream, coded, encoder, received, last, waiting, hand, shown>> /\ agent # {} /\ agent' = {}
    BY DEF WriteSample, source, reader
  <1>2. /\ L > 0 /\ Len(Boxes') = L - 1 /\ DOMAIN Boxes' = 1 .. L - 1
        /\ \A i \in 1 .. L - 1 : Boxes'[i] = Boxes[i + 1]
    BY BoxesWrite
  <1>3. /\ L \in Nat /\ received \in Nat /\ shown \in Nat
        /\ \A n \in 1 .. L : Boxes[n].unit \in 1 .. received
        /\ \A n \in 1 .. L : Boxes[n].unit <= Kept => Picture(Boxes[n].unit) /\ KeySeen(Boxes[n].unit)
        /\ \A n \in 1 .. L : Boxes[n].unit <= Whole => Complete(Boxes[n])
        /\ \A n, m \in 1 .. L : n < m => Boxes[n].unit < Boxes[m].unit
        /\ \A n, m \in 1 .. L : n <= m => Boxes[m].unit - Boxes[n].unit <= (m - n) * (MaxQuiet + 1)
        /\ \A n \in 1 .. L - 1 : \A i \in Boxes[n].unit + 1 .. Boxes[n + 1].unit - 1 : Skipped(i)
        /\ \A i \in Boxes[L].unit + 1 .. received : Skipped(i)
        /\ Boxes[1].unit = shown
    BY <1>1, <1>2, InOrder
  <1> HIDE DEF L
  <1>4. \A n \in 1 .. L - 1 : n + 1 \in 1 .. L
    BY <1>3
  <1>5. /\ Kept' = Kept /\ Whole' = Whole /\ \A i : Skipped(i)' <=> Skipped(i)
    BY <1>1, StaysSkipped
  <1>6. DriverKnows'
    <2>1. ASSUME received' <= Whole' PROVE \A s \in Sets : last'[s] = Latest(received + 1, s)'
      BY <1>1, <1>5, <2>1, StaysComplete DEF VideoInv, DriverKnows
    <2>2. ASSUME received' <= Kept' PROVE waiting' <=> ~KeySeen(received)'
      BY <1>1, <1>5, <2>2, StaysComplete DEF VideoInv, DriverKnows
    <2> QED BY <2>1, <2>2 DEF DriverKnows
  <1>7. BoxesInOrder'
    <2>1. ASSUME NEW n \in DOMAIN Boxes'
          PROVE  /\ Boxes'[n].unit \in 1 .. received'
                 /\ Boxes'[n].unit <= Kept' => Picture(Boxes[n].unit)' /\ KeySeen(Boxes[n].unit)'
      <3>1. n + 1 \in 1 .. L /\ Boxes'[n] = Boxes[n + 1]
        BY <1>2, <1>4, <2>1
      <3> QED BY <1>1, <1>3, <1>5, <3>1, StaysComplete
    <2>2. ASSUME NEW n \in DOMAIN Boxes', NEW m \in DOMAIN Boxes', n < m
          PROVE  Boxes'[n].unit < Boxes'[m].unit
      <3>1. n + 1 \in 1 .. L /\ m + 1 \in 1 .. L /\ Boxes'[n] = Boxes[n + 1] /\ Boxes'[m] = Boxes[m + 1]
        BY <1>2, <1>4, <2>2
      <3>2. n + 1 < m + 1
        BY <1>2, <1>3, <2>2
      <3> QED BY <1>3, <3>1, <3>2
    <2>3. ASSUME hand' # {} PROVE Boxes'[Len(Boxes')].unit = received'
      <3>1. Boxes[L].unit = received
        BY <1>1, <2>3 DEF VideoInv, BoxesInOrder, L
      <3>2. L - 1 > 0
        <4>1. CASE L = 1
          <5>1. Boxes[1].unit = shown /\ Boxes[L].unit = received
            BY <1>3, <3>1
          <5>2. FALSE
            BY <1>1, <2>3, <4>1, BoxesAre DEF L
          <5> QED BY <5>2
        <4> QED BY <1>2, <1>3, <4>1
      <3>3. L - 1 \in 1 .. L - 1 /\ (L - 1) + 1 = L
        BY <1>3, <3>2
      <3> QED BY <1>1, <1>2, <3>1, <3>3
    <2>4. agent' # {} => Boxes'[1].unit = shown'
      BY <1>1
    <2> QED BY <2>1, <2>2, <2>3, <2>4 DEF BoxesInOrder
  <1>8. NoneSkipped'
    <2>1. Boxes' = << >> <=> L = 1
      <3>1. Len(<< >>) = 0
        OBVIOUS
      <3>2. Boxes' \in Seq(AllBoxes)
        BY BoxesWrite
      <3>3. Boxes' # << >> => Len(Boxes') # 0
        BY <3>2, EmptySeq
      <3> QED BY <1>2, <1>3, <3>1, <3>3
    <2>2. ASSUME L = 1, NEW i \in shown' + 1 .. received' PROVE Skipped(i)'
      BY <1>1, <1>3, <1>5, <2>2
    <2>3. ASSUME L # 1 PROVE \A i \in shown' + 1 .. Boxes'[1].unit - 1 : Skipped(i)'
      <3>1. 1 \in 1 .. L - 1 /\ 1 + 1 = 2
        BY <1>2, <1>3, <2>3
      <3>2. Boxes'[1] = Boxes[2] /\ \A i \in Boxes[1].unit + 1 .. Boxes[2].unit - 1 : Skipped(i)
        BY <1>2, <1>3, <3>1
      <3> QED BY <1>1, <1>3, <1>5, <3>2
    <2>4. ASSUME L # 1, NEW n \in 1 .. Len(Boxes') - 1
          PROVE  \A i \in Boxes'[n].unit + 1 .. Boxes'[n + 1].unit - 1 : Skipped(i)'
      <3>1. n \in 1 .. L - 1 /\ n + 1 \in 1 .. L - 1 /\ n + 1 + 1 = (n + 1) + 1
        BY <1>2, <1>3, <2>4
      <3> QED BY <1>2, <1>3, <1>5, <3>1
    <2>5. ASSUME L # 1 PROVE \A i \in Boxes'[Len(Boxes')].unit + 1 .. received' : Skipped(i)'
      <3>1. L - 1 \in 1 .. L - 1 /\ (L - 1) + 1 = L
        BY <1>2, <1>3, <2>5
      <3> QED BY <1>1, <1>2, <1>3, <1>5, <3>1
    <2> QED BY <2>1, <2>2, <2>3, <2>4, <2>5 DEF NoneSkipped
  <1>9. Close'
    <2>1. ASSUME NEW n \in DOMAIN Boxes', NEW m \in DOMAIN Boxes', n <= m
          PROVE  Boxes'[m].unit - Boxes'[n].unit <= (m - n) * (MaxQuiet' + 1)
      <3>1. n + 1 \in 1 .. L /\ m + 1 \in 1 .. L /\ Boxes'[n] = Boxes[n + 1] /\ Boxes'[m] = Boxes[m + 1]
        BY <1>2, <1>4, <2>1
      <3>2. n + 1 <= m + 1 /\ (m + 1) - (n + 1) = m - n
        <4>1. n \in 1 .. L - 1 /\ m \in 1 .. L - 1
          BY <1>2, <2>1
        <4> QED BY <2>1, <4>1
      <3>3. MaxQuiet' = MaxQuiet
        BY <1>1, StaysComplete
      <3> QED BY <1>3, <3>1, <3>2, <3>3
    <2> QED BY <2>1 DEF Close
  <1>10. Carried'
    <2>1. ASSUME NEW n \in DOMAIN Boxes', Boxes'[n].unit <= Whole' PROVE Complete(Boxes[n])'
      <3>1. n + 1 \in 1 .. L /\ Boxes'[n] = Boxes[n + 1]
        BY <1>2, <1>4, <2>1
      <3> QED BY <1>1, <1>3, <1>5, <2>1, <3>1, StaysComplete
    <2> QED BY <2>1 DEF Carried
  <1> QED BY <1>6, <1>7, <1>8, <1>9, <1>10 DEF VideoInv

\* A unit is read, and no box comes of it.
LEMMA ReadNoBox ==
  ASSUME FramesTypeOK, UnitsInOrder, NalsAreWhole, VideoInv, Receive, hand' = {}
  PROVE  VideoInv'
  <1> DEFINE L == Len(Boxes)
             r == received + 1
  <1>1. /\ UNCHANGED <<stream, coded, encoder, chan, agent, shown>> /\ received' = r /\ hand = {}
    BY DEF Receive, source, viewer
  <1>2. Boxes' = Boxes
    BY <1>1 DEF Boxes
  <1>3. DriverKnows' /\ Skipped(r)
    BY ReadKnows DEF VideoInv
  <1>4. /\ L \in Nat /\ DOMAIN Boxes = 1 .. L /\ received \in Nat /\ shown \in Nat
        /\ \A n \in 1 .. L : Boxes[n].unit \in 1 .. received
        /\ \A n \in 1 .. L : Boxes[n].unit <= Kept => Picture(Boxes[n].unit) /\ KeySeen(Boxes[n].unit)
        /\ \A n \in 1 .. L : Boxes[n].unit <= Whole => Complete(Boxes[n])
        /\ \A n, m \in 1 .. L : n < m => Boxes[n].unit < Boxes[m].unit
        /\ \A n, m \in 1 .. L : n <= m => Boxes[m].unit - Boxes[n].unit <= (m - n) * (MaxQuiet + 1)
        /\ L = 0 => \A i \in shown + 1 .. received : Skipped(i)
        /\ L > 0 =>
             /\ \A i \in shown + 1 .. Boxes[1].unit - 1 : Skipped(i)
             /\ \A n \in 1 .. L - 1 : \A i \in Boxes[n].unit + 1 .. Boxes[n + 1].unit - 1 : Skipped(i)
             /\ \A i \in Boxes[L].unit + 1 .. received : Skipped(i)
        /\ agent # {} => Boxes[1].unit = shown
    BY InOrder
  <1>5. Boxes = << >> <=> L = 0
    BY BoxesAre, EmptySeq
  <1> HIDE DEF L
  <1>6. Kept' = Kept /\ Whole' = Whole /\ \A i : Skipped(i)' <=> Skipped(i)
    BY <1>1, StaysSkipped
  <1>7. BoxesInOrder'
    <2>1. ASSUME NEW n \in 1 .. L
          PROVE  /\ Boxes[n].unit \in 1 .. received'
                 /\ Boxes[n].unit <= Kept' => Picture(Boxes[n].unit)' /\ KeySeen(Boxes[n].unit)'
      <3>1. 1 .. received \subseteq 1 .. received'
        BY <1>1, <1>4
      <3> QED BY <1>1, <1>2, <1>4, <1>6, <3>1, StaysComplete
    <2> QED BY <1>1, <1>2, <1>4, <2>1 DEF BoxesInOrder
  <1>8. NoneSkipped'
    <2>1. ASSUME NEW a \in Nat, \A i \in a + 1 .. received : Skipped(i) PROVE \A i \in a + 1 .. received' : Skipped(i)
      <3>1. \A i \in a + 1 .. received' : i \in a + 1 .. received \/ i = r
        BY <1>1, <1>4
      <3> QED BY <1>3, <2>1, <3>1
    <2>2. CASE L = 0
      <3>1. \A i \in shown + 1 .. received' : Skipped(i)
        BY <1>4, <2>1, <2>2
      <3> QED BY <1>1, <1>2, <1>5, <1>6, <2>2, <3>1 DEF NoneSkipped
    <2>3. CASE L > 0
      <3>1. Boxes[L].unit \in Nat
        <4>1. L \in 1 .. L
          BY <1>4, <2>3
        <4> QED BY <1>4, <4>1
      <3>2. \A i \in Boxes[L].unit + 1 .. received' : Skipped(i)
        BY <1>4, <2>1, <2>3, <3>1
      <3> QED BY <1>1, <1>2, <1>4, <1>5, <1>6, <2>3, <3>2 DEF NoneSkipped, L
    <2> QED BY <1>4, <2>2, <2>3
  <1>9. Close'
    BY <1>1, <1>2, StaysComplete DEF VideoInv, Close
  <1>10. Carried'
    BY <1>1, <1>2, <1>6, StaysComplete DEF VideoInv, Carried
  <1> QED BY <1>3, <1>7, <1>8, <1>9, <1>10 DEF VideoInv

\* A unit is read that is a picture: its box is the last.
LEMMA ReadBox ==
  ASSUME FramesTypeOK, UnitsInOrder, NalsAreWhole, VideoInv, Receive, hand' # {}
  PROVE  VideoInv'
  <1> DEFINE L == Len(Boxes)
             r == received + 1
             q == MaxQuiet + 1
  <1>1. /\ UNCHANGED <<stream, coded, encoder, chan, agent, shown>> /\ received' = r /\ hand = {} /\ wire # << >>
    BY DEF Receive, source, viewer
  <1>2. DriverKnows'
    BY ReadKnows DEF VideoInv
  <1>3. PICK b : /\ hand' = {b} /\ b.unit = r
                 /\ r <= Kept => Picture(r) /\ KeySeen(r)
                 /\ r <= Whole => Complete(b)
    BY ReadKnows DEF VideoInv
  <1>4. /\ Len(Boxes') = L + 1 /\ DOMAIN Boxes' = 1 .. L + 1 /\ Boxes'[L + 1] = b
        /\ \A i \in 1 .. L : Boxes'[i] = Boxes[i]
    BY <1>1, <1>3, BoxesAdd
  <1>5. /\ L \in Nat /\ DOMAIN Boxes = 1 .. L /\ received \in Nat /\ shown \in Nat
        /\ \A n \in 1 .. L : Boxes[n].unit \in 1 .. received
        /\ \A n \in 1 .. L : Boxes[n].unit \in Nat
        /\ \A n \in 1 .. L : Boxes[n].unit <= Kept => Picture(Boxes[n].unit) /\ KeySeen(Boxes[n].unit)
        /\ \A n \in 1 .. L : Boxes[n].unit <= Whole => Complete(Boxes[n])
        /\ \A n, m \in 1 .. L : n < m => Boxes[n].unit < Boxes[m].unit
        /\ \A n, m \in 1 .. L : n <= m => Boxes[m].unit - Boxes[n].unit <= (m - n) * (MaxQuiet + 1)
        /\ L = 0 => \A i \in shown + 1 .. received : Skipped(i)
        /\ L > 0 =>
             /\ \A i \in shown + 1 .. Boxes[1].unit - 1 : Skipped(i)
             /\ \A n \in 1 .. L - 1 : \A i \in Boxes[n].unit + 1 .. Boxes[n + 1].unit - 1 : Skipped(i)
             /\ \A i \in Boxes[L].unit + 1 .. received : Skipped(i)
        /\ agent # {} => Boxes[1].unit = shown
    BY InOrder
  <1>6. agent # {} => L > 0
    BY BoxesAre
  <1> HIDE DEF L
  <1>7. Kept' = Kept /\ Whole' = Whole /\ \A i : Skipped(i)' <=> Skipped(i)
    BY <1>1, StaysSkipped
  <1>8. received <= Kept /\ MaxQuiet \in Nat /\ q \in Nat
    BY <1>1, NextRead, QuietRun
  <1>9. \A n \in 1 .. L + 1 : n \in 1 .. L \/ n = L + 1
    BY <1>5
  <1>10. BoxesInOrder'
    <2>1. ASSUME NEW n \in 1 .. L + 1
          PROVE  /\ Boxes'[n].unit \in 1 .. received'
                 /\ Boxes'[n].unit <= Kept' => Picture(Boxes[n].unit)' /\ KeySeen(Boxes[n].unit)'
      <3>1. CASE n \in 1 .. L
        <4>1. Boxes'[n] = Boxes[n] /\ Boxes[n].unit \in 1 .. received /\ 1 .. received \subseteq 1 .. received'
          BY <1>1, <1>4, <1>5, <3>1
        <4> QED BY <1>1, <1>5, <1>7, <3>1, <4>1, StaysComplete
      <3>2. CASE n = L + 1
        <4>1. Boxes'[n].unit = r /\ r \in 1 .. received'
          BY <1>1, <1>3, <1>4, <1>5, <3>2
        <4> QED BY <1>1, <1>3, <1>7, <4>1, StaysComplete
      <3> QED BY <1>9, <3>1, <3>2
    <2>2. ASSUME NEW n \in 1 .. L + 1, NEW m \in 1 .. L + 1, n < m
          PROVE  Boxes'[n].unit < Boxes'[m].unit
      <3>1. n \in 1 .. L
        BY <1>5, <2>2
      <3>2. CASE m \in 1 .. L
        BY <1>4, <1>5, <2>2, <3>1, <3>2
      <3>3. CASE m = L + 1
        <4>1. Boxes'[n].unit \in 1 .. received /\ Boxes'[m].unit = r
          BY <1>3, <1>4, <1>5, <3>1, <3>3
        <4> QED BY <1>5, <4>1
      <3> QED BY <1>9, <3>2, <3>3
    <2>3. Boxes'[Len(Boxes')].unit = received'
      BY <1>1, <1>3, <1>4
    <2>4. agent' # {} => Boxes'[1].unit = shown'
      <3>1. L > 0 => 1 \in 1 .. L
        BY <1>5
      <3> QED BY <1>1, <1>4, <1>5, <1>6, <3>1
    <2> QED BY <1>4, <2>1, <2>2, <2>3, <2>4 DEF BoxesInOrder
  <1>11. NoneSkipped'
    <2>1. Boxes' # << >>
      <3>1. Len(<< >>) = 0
        OBVIOUS
      <3> QED BY <1>4, <1>5, <3>1
    <2>2. \A i \in shown' + 1 .. Boxes'[1].unit - 1 : Skipped(i)'
      <3>1. CASE L = 0
        <4>1. Boxes'[1].unit - 1 = received
          BY <1>3, <1>4, <1>5, <3>1
        <4> QED BY <1>1, <1>5, <1>7, <3>1, <4>1
      <3>2. CASE L > 0
        <4>1. 1 \in 1 .. L
          BY <1>5, <3>2
        <4> QED BY <1>1, <1>4, <1>5, <1>7, <3>2, <4>1
      <3> QED BY <1>5, <3>1, <3>2
    <2>3. ASSUME NEW n \in 1 .. L
          PROVE  \A i \in Boxes'[n].unit + 1 .. Boxes'[n + 1].unit - 1 : Skipped(i)'
      <3>1. CASE n \in 1 .. L - 1
        <4>1. n + 1 \in 1 .. L /\ L > 0
          BY <1>5, <3>1
        <4> QED BY <1>4, <1>5, <1>7, <3>1, <4>1
      <3>2. CASE n = L
        <4>1. Boxes'[n + 1].unit - 1 = received /\ Boxes'[n] = Boxes[L] /\ L > 0
          <5>1. Boxes'[n + 1].unit = r /\ Boxes'[n] = Boxes[L]
            BY <1>3, <1>4, <3>2
          <5>2. L > 0 /\ r - 1 = received
            BY <1>5, <3>2
          <5> QED BY <5>1, <5>2
        <4> QED BY <1>5, <1>7, <4>1
      <3>3. n \in 1 .. L - 1 \/ n = L
        BY <1>5
      <3> QED BY <3>1, <3>2, <3>3
    <2>4. \A i \in Boxes'[L + 1].unit + 1 .. received' : Skipped(i)'
      BY <1>1, <1>3, <1>4, <1>5
    <2>5. (L + 1) - 1 = L
      BY <1>5
    <2> QED BY <1>4, <2>1, <2>2, <2>3, <2>4, <2>5 DEF NoneSkipped
  <1>12. Close'
    <2>1. ASSUME NEW n \in 1 .. L + 1, NEW m \in 1 .. L + 1, n <= m
          PROVE  Boxes'[m].unit - Boxes'[n].unit <= (m - n) * q
      <3>1. CASE m \in 1 .. L
        <4>1. n \in 1 .. L
          BY <1>5, <2>1, <3>1
        <4> QED BY <1>4, <1>5, <2>1, <3>1, <4>1
      <3>2. CASE m = L + 1 /\ n = L + 1
        <4>1. Boxes'[m].unit = r /\ Boxes'[n].unit = r /\ m - n = 0 /\ r - r = 0
          <5>1. Boxes'[m].unit = r /\ Boxes'[n].unit = r
            BY <1>3, <1>4, <3>2
          <5>2. m = n /\ m \in Int /\ r \in Int
            BY <1>5, <3>2
          <5> QED BY <5>1, <5>2
        <4>2. 0 * q = 0
          BY <1>8
        <4> HIDE DEF q
        <4> QED BY <4>1, <4>2
      <3>3. CASE m = L + 1 /\ n \in 1 .. L
        <4> DEFINE u == Boxes[n].unit
                   v == Boxes[L].unit
                   d == L - n
        <4>1. L \in 1 .. L /\ n <= L /\ d \in Nat /\ m - n = d + 1 /\ L > 0
          BY <1>5, <3>3
        <4>2. u \in Nat /\ v \in Nat /\ v <= received /\ v - u <= d * q
          BY <1>5, <3>3, <4>1
        <4>3. received - v <= MaxQuiet
          <5>1. KeySeen(v)
            <6>1. v <= Kept
              <7>1. v \in Nat /\ received \in Nat /\ Kept \in Nat /\ v <= received /\ received <= Kept
                BY <1>5, <1>8, <4>2, Counts
              <7> HIDE DEF v
              <7> QED BY <7>1
            <6> QED BY <1>5, <4>1, <6>1
          <5>2. \A j \in v + 1 .. received : Skipped(j)
            BY <1>5, <4>1
          <5> HIDE DEF v
          <5> QED BY <1>5, <1>8, <4>2, <5>1, <5>2, Gap
        <4>4. (d + 1) * q = d * q + q /\ d * q \in Nat
          BY <1>8, <4>1, Farther
        <4>5. Boxes'[m].unit = r /\ Boxes'[n].unit = u
          BY <1>3, <1>4, <3>3
        <4> DEFINE dq == d * q
        <4> HIDE DEF u, v, d
        <4>6. dq \in Nat /\ (d + 1) * q = dq + q /\ v - u <= dq
          BY <4>2, <4>4
        <4> HIDE DEF dq
        <4>7. r - u <= dq + q
          BY <1>5, <1>8, <4>2, <4>3, <4>6
        <4> QED BY <4>1, <4>5, <4>6, <4>7
      <3> QED BY <1>9, <3>1, <3>2, <3>3
    <2>2. MaxQuiet' = MaxQuiet
      BY <1>1, StaysComplete
    <2> QED BY <1>4, <2>1, <2>2 DEF Close
  <1>13. Carried'
    <2>1. ASSUME NEW n \in 1 .. L + 1, Boxes'[n].unit <= Whole' PROVE Complete(Boxes[n])'
      <3>1. CASE n \in 1 .. L
        BY <1>1, <1>4, <1>5, <1>7, <2>1, <3>1, StaysComplete
      <3>2. CASE n = L + 1
        <4>1. Boxes'[n] = b /\ Complete(b)
          BY <1>3, <1>4, <1>7, <2>1, <3>2
        <4> QED BY <1>1, <4>1, StaysComplete
      <3> QED BY <1>9, <3>1, <3>2
    <2> QED BY <1>4, <2>1 DEF Carried
  <1> QED BY <1>2, <1>10, <1>11, <1>12, <1>13 DEF VideoInv

-----------------------------------------------------------------------------
(* The invariant                                                           *)

\* FramesInv, with the part of BoxesDecodable that the rest of it implies left out.
VideoSafe == FramesTypeOK /\ UnitsInOrder /\ NalsAreWhole /\ VideoInv

\* What has been read has been coded; units count that were coded in full.
LEMMA ReadIsKept ==
  ASSUME FramesTypeOK, UnitsInOrder
  PROVE  /\ received \in Nat /\ received <= Sent /\ Sent <= coded
         /\ encoder = "alive" => \A i \in 0 .. received : i <= Kept /\ i <= Whole
  <1>1. received \in Nat /\ Len(wire) \in Nat /\ Sent = received + Len(wire) /\ coded \in Nat /\ Sent <= coded
    BY Counts DEF UnitsInOrder
  <1>2. encoder = "alive" => Kept = coded /\ Whole = coded
    BY Counts
  <1> QED BY <1>1, <1>2

\* Steps of the encoder, the recorder or the connection: the driver and the agent
\* have what they had.
LEMMA SourceVideo ==
  ASSUME FramesTypeOK, UnitsInOrder, VideoInv,
         UNCHANGED <<stream, received, last, waiting, hand, chan, agent, shown>>,
         UNCHANGED <<coded, encoder>> \/ encoder = "alive"
  PROVE  VideoInv'
  <1>1. Boxes' = Boxes
    BY DEF Boxes
  <1>2. \A i \in 0 .. received : (i <= Kept' => i <= Kept) /\ (i <= Whole' => i <= Whole)
    <2>1. CASE UNCHANGED <<coded, encoder>>
      BY <2>1 DEF Kept, Whole
    <2>2. CASE encoder = "alive"
      BY <2>2, ReadIsKept
    <2> QED BY <2>1, <2>2
  <1> QED BY <1>1, <1>2, VideoSame

\* Every action of FramesNext keeps it.
LEMMA FramesStep ==
  ASSUME VideoSafe, FramesNext
  PROVE  VideoSafe'
  <1> USE DEF VideoSafe
  <1>1. CASE Encode
    <2>1. FramesTypeOK' /\ UnitsInOrder' /\ NalsAreWhole'
      BY <1>1, EncodeStep
    <2>2. encoder = "alive" /\ UNCHANGED <<stream, received, last, waiting, hand, chan, agent, shown>>
      BY <1>1 DEF Encode, reader, viewer
    <2> QED BY <2>1, <2>2, SourceVideo
  <1>2. CASE EncoderEnds
    <2>1. FramesTypeOK' /\ UnitsInOrder' /\ NalsAreWhole'
      BY <1>2, EncoderEndsStep
    <2>2. encoder = "alive" /\ UNCHANGED <<stream, received, last, waiting, hand, chan, agent, shown>>
      BY <1>2 DEF EncoderEnds, reader, viewer
    <2> QED BY <2>1, <2>2, SourceVideo
  <1>3. CASE PushFrame
    <2>1. buf' \in Seq(Nat) /\ wire' \in Seq(Seq(Nat)) /\ UnitsInOrder' /\ NalsAreWhole'
      BY <1>3, PushFrameStep
    <2>2. UNCHANGED <<stream, coded, pipe, encoder, eof, pushing, open, received, last, waiting, hand, reading, chan, agent, shown>>
      BY <1>3 DEF PushFrame, source, reader, viewer
    <2>3. FramesTypeOK'
      BY <2>1, <2>2 DEF FramesTypeOK, units
    <2>4. VideoInv'
      BY <2>2, SourceVideo
    <2> QED BY <2>1, <2>3, <2>4
  <1>4. CASE ScanMore
    <2>1. FramesTypeOK' /\ UnitsInOrder' /\ NalsAreWhole'
      BY <1>4, ScanMoreStep
    <2>2. UNCHANGED <<stream, coded, encoder, received, last, waiting, hand, chan, agent, shown>>
      BY <1>4 DEF ScanMore, reader, viewer
    <2> QED BY <2>1, <2>2, SourceVideo
  <1>5. CASE PushEnds
    <2>1. FramesTypeOK' /\ UnitsInOrder' /\ NalsAreWhole'
      BY <1>5, PushEndsStep
    <2>2. UNCHANGED <<stream, coded, encoder, received, last, waiting, hand, chan, agent, shown>>
      BY <1>5 DEF PushEnds, source, reader, viewer
    <2> QED BY <2>1, <2>2, SourceVideo
  <1>6. CASE Receive
    <2>1. FramesTypeOK' /\ UnitsInOrder' /\ NalsAreWhole'
      BY <1>6, ReceiveStep
    <2>2. VideoInv'
      BY <1>6, ReadNoBox, ReadBox
    <2> QED BY <2>1, <2>2
  <1>7. CASE ReadFails
    <2>1. /\ reading' \in BOOLEAN
          /\ UNCHANGED <<stream, coded, pipe, encoder, buf, eof, pushing, wire, open, received, last, waiting, hand, chan, agent, shown>>
      BY <1>7 DEF ReadFails, source, pusher, viewer
    <2>2. FramesTypeOK'
      BY <2>1 DEF FramesTypeOK, units
    <2>3. Left' = Left
      BY <2>1 DEF Left
    <2>4. UnitsInOrder' /\ NalsAreWhole'
      BY <2>1, <2>3, RecorderSame
    <2> QED BY <2>1, <2>2, <2>4, SourceVideo
  <1>8. CASE SendBox
    <2>1. UNCHANGED <<stream, coded, pipe, encoder, buf, eof, pushing, wire, open, received, last, waiting, reading, agent, shown>>
      BY <1>8 DEF SendBox, source, pusher, viewer
    <2>2. Boxes' = Boxes /\ hand' = {} /\ chan' \in Seq(ToSet(chan)') /\ Len(chan') <= ChanCap
      BY <1>8, BoxesSend
    <2>3. FramesTypeOK'
      BY <2>1, <2>2 DEF FramesTypeOK, units
    <2>4. Left' = Left /\ Kept' = Kept /\ Whole' = Whole
      BY <2>1 DEF Left, Kept, Whole
    <2>5. UnitsInOrder' /\ NalsAreWhole'
      BY <2>1, <2>4, RecorderSame
    <2>6. VideoInv'
      BY <2>1, <2>2, <2>4, VideoSame
    <2> QED BY <2>3, <2>5, <2>6
  <1>9. CASE Stop
    <2>1. /\ open' = FALSE
          /\ UNCHANGED <<stream, coded, pipe, encoder, buf, eof, pushing, wire, received, last, waiting, hand, reading, chan, agent, shown>>
      BY <1>9 DEF Stop, source, pusher, reader, viewer
    <2>2. FramesTypeOK'
      BY <2>1 DEF FramesTypeOK, units
    <2>3. Left' = Left
      BY <2>1 DEF Left
    <2>4. UnitsInOrder' /\ NalsAreWhole'
      BY <2>1, <2>3, RecorderSame
    <2> QED BY <2>1, <2>2, <2>4, SourceVideo
  <1>10. CASE Take
    <2>1. UNCHANGED <<stream, coded, pipe, encoder, buf, eof, pushing, wire, open, received, last, waiting, hand, reading>>
      BY <1>10 DEF Take, source, pusher, reader
    <2>2. /\ Boxes' = Boxes /\ Len(Boxes) > 0 /\ agent' = {Boxes[1]} /\ shown' = Boxes[1].unit
          /\ chan' \in Seq(ToSet(chan)') /\ Len(chan') <= ChanCap
      BY <1>10, BoxesTake
    <2>3. shown' \in Nat
      <3>1. Len(Boxes) \in Nat /\ 1 \in 1 .. Len(Boxes)
        BY <2>2, BoxesAre
      <3> QED BY <2>2, <3>1, InOrder
    <2>4. FramesTypeOK'
      BY <2>1, <2>2, <2>3 DEF FramesTypeOK, units
    <2>5. Left' = Left /\ Kept' = Kept /\ Whole' = Whole
      BY <2>1 DEF Left, Kept, Whole
    <2>6. UnitsInOrder' /\ NalsAreWhole'
      BY <2>1, <2>5, RecorderSame
    <2>7. VideoInv'
      BY <2>1, <2>2, <2>5, VideoSame
    <2> QED BY <2>4, <2>6, <2>7
  <1>11. CASE WriteSample
    <2>1. /\ agent' = {}
          /\ UNCHANGED <<stream, coded, pipe, encoder, buf, eof, pushing, wire, open, received, last, waiting, hand, reading, chan, shown>>
      BY <1>11 DEF WriteSample, source, pusher, reader
    <2>2. FramesTypeOK'
      BY <2>1 DEF FramesTypeOK, units
    <2>3. Left' = Left
      BY <2>1 DEF Left
    <2>4. UnitsInOrder' /\ NalsAreWhole'
      BY <2>1, <2>3, RecorderSame
    <2> QED BY <1>11, <2>2, <2>4, WriteVideo
  <1> QED BY <1>1, <1>2, <1>3, <1>4, <1>5, <1>6, <1>7, <1>8, <1>9, <1>10, <1>11 DEF FramesNext

\* And what leaves the video alone does.
LEMMA FramesKept ==
  ASSUME VideoSafe, UNCHANGED frames
  PROVE  VideoSafe'
  <1>1. UNCHANGED <<stream, coded, pipe, encoder, buf, eof, pushing, wire, open, received, last, waiting, hand, reading, chan, agent, shown>>
    BY DEF frames, source, pusher, reader, viewer
  <1>2. FramesTypeOK'
    BY <1>1 DEF VideoSafe, FramesTypeOK, units
  <1>3. Left' = Left
    BY <1>1 DEF Left
  <1>4. UnitsInOrder' /\ NalsAreWhole'
    BY <1>1, <1>3, RecorderSame DEF VideoSafe
  <1>5. VideoInv'
    BY <1>1, SourceVideo DEF VideoSafe
  <1> QED BY <1>2, <1>4, <1>5 DEF VideoSafe

\* It holds at first.
LEMMA FramesStart ==
  ASSUME Init
  PROVE  VideoSafe
  <1>1. PICK s \in Scenarios : FramesInit(s.stream)
    BY DEF Init
  <1>2. /\ stream = s.stream /\ coded = 0 /\ pipe = << >> /\ buf = << >> /\ wire = << >> /\ open = TRUE
        /\ encoder = (IF units = << >> THEN "ended" ELSE "alive") /\ eof = (units = << >>) /\ pushing = (units # << >>)
        /\ received = 0 /\ last = [x \in Sets |-> << >>] /\ waiting = TRUE /\ hand = {} /\ reading = TRUE
        /\ chan = << >> /\ agent = {} /\ shown = 0
    BY <1>1 DEF FramesInit, units
  <1>3. units \in Seq(Unit) /\ Len(units) \in Nat
    BY <1>2, ScenariosAssumption, LenProperties DEF units
  <1>4. << >> \in Seq(Nat) /\ << >> \in Seq(Seq(Nat)) /\ << >> \in Seq(ToSet(chan)) /\ Len(<< >>) = 0
    BY EmptySeq
  <1>5. FramesTypeOK
    <2>1. /\ coded \in 0 .. Len(units) /\ encoder \in {"alive", "ended", "cut"}
          /\ encoder # "cut" /\ (eof => encoder # "alive")
      <3>1. CASE units = << >>
        BY <1>2, <1>3, <3>1
      <3>2. CASE units # << >>
        <4>1. ~eof /\ encoder = "alive"
          BY <1>2, <3>2
        <4>2. coded \in 0 .. Len(units)
          BY <1>2, <1>3
        <4> QED BY <4>1, <4>2
      <3> QED BY <3>1, <3>2
    <2>2. {eof, pushing, open, waiting, reading} \subseteq BOOLEAN
      BY <1>2
    <2>3. {received, shown} \subseteq Nat /\ last \in [Sets -> Seq(Nat)]
      BY <1>2, <1>4
    <2>4. chan \in Seq(ToSet(chan)) /\ Len(chan) <= ChanCap
      BY <1>2, <1>4, ChannelAssumption
    <2>5. eof => pipe = << >> /\ encoder # "alive"
      BY <1>2, <2>1
    <2> QED BY <1>2, <1>3, <1>4, <2>1, <2>2, <2>3, <2>4, <2>5 DEF FramesTypeOK
  <1>6. Kept = 0 /\ Whole = 0 /\ Sent = 0 /\ Left = << >>
    BY <1>2, <1>4, ConcatEmptySeq DEF Kept, Whole, Sent, Left
  <1>7. UnitsInOrder
    <2>1. \E new : Placed(new, Sent + 1, coded, Kept, Left, units)
      <3>1. Sent + 1 \in Nat /\ coded \in Nat /\ Sent + 1 = coded + 1
        BY <1>2, <1>6
      <3> QED BY <1>6, <3>1, PlacedNone
    <2>2. UnitsLeft
      BY <2>1, LeftPlaced
    <2>3. DOMAIN wire = {}
      BY <1>2
    <2> QED BY <1>2, <1>6, <2>2, <2>3 DEF UnitsInOrder
  <1>8. NalsAreWhole
    <2>1. DOMAIN wire = {} /\ Len(wire) = 0
      BY <1>2, <1>4
    <2> QED BY <1>2, <1>6, <2>1 DEF NalsAreWhole
  <1>9. Boxes = << >>
    <2>1. Boxes = (<< >> \o << >>) \o << >>
      BY <1>2, AsSeq DEF Boxes
    <2> QED BY <1>4, <2>1, ConcatEmptySeq
  <1>10. DOMAIN Boxes = {}
    BY <1>9
  <1>11. DriverKnows
    <2>1. \A x : Latest(0 + 1, x) = << >>
      BY DEF Latest, Before
    <2>2. ~KeySeen(0)
      BY DEF KeySeen
    <2> QED BY <1>2, <2>1, <2>2 DEF DriverKnows
  <1>12. BoxesInOrder /\ Close /\ Carried
    BY <1>2, <1>10 DEF BoxesInOrder, Close, Carried
  <1>13. NoneSkipped
    BY <1>2, <1>9 DEF NoneSkipped
  <1> QED BY <1>5, <1>7, <1>8, <1>11, <1>12, <1>13 DEF VideoSafe, VideoInv

\* What passes before the agent: between two boxes, and in front of them and
\* behind them, no picture is missing.
LEMMA Decodes ==
  ASSUME FramesTypeOK, VideoInv
  PROVE  BoxesDecodable
  <1> DEFINE L == Len(Boxes)
             mid == [n \in DOMAIN Boxes |-> Boxes[n].unit]
             front == <<shown>> \o mid
             stops == <<shown>> \o mid \o <<received + 1>>
  <1>1. /\ L \in Nat /\ DOMAIN Boxes = 1 .. L /\ received \in Nat /\ shown \in Nat
        /\ \A n \in 1 .. L : Boxes[n].unit \in Nat
        /\ L = 0 => \A i \in shown + 1 .. received : Skipped(i)
        /\ L > 0 =>
             /\ \A i \in shown + 1 .. Boxes[1].unit - 1 : Skipped(i)
             /\ \A n \in 1 .. L - 1 : \A i \in Boxes[n].unit + 1 .. Boxes[n + 1].unit - 1 : Skipped(i)
             /\ \A i \in Boxes[L].unit + 1 .. received : Skipped(i)
    BY InOrder
  <1>2. mid \in Seq(Nat) /\ Len(mid) = L /\ \A n \in 1 .. L : mid[n] = Boxes[n].unit
    <2>1. mid \in [1 .. L -> Nat]
      BY <1>1
    <2>2. mid \in Seq(Nat)
      BY <1>1, <2>1, SeqDef
    <2> QED BY <1>1, <2>1, <2>2, LenProperties
  <1> HIDE DEF L, mid
  <1>3. /\ front \in Seq(Nat) /\ Len(front) = L + 1 /\ front[1] = shown
        /\ \A n \in 1 .. L : front[n + 1] = Boxes[n].unit
    BY <1>1, <1>2, InFrontOf
  <1>4. stops = Append(front, received + 1)
    <2>1. received + 1 \in Nat
      BY <1>1
    <2> HIDE DEF front
    <2>2. Append(front, received + 1) = front \o <<received + 1>>
      BY <1>3, <2>1, AppendIsConcat
    <2> QED BY <2>2 DEF front
  <1>5. /\ Len(stops) = L + 2 /\ stops[L + 2] = received + 1 /\ stops[1] = shown
        /\ \A n \in 1 .. L : stops[n + 1] = Boxes[n].unit
    <2> HIDE DEF front, stops
    <2>1. /\ Len(stops) = Len(front) + 1 /\ stops[Len(front) + 1] = received + 1
          /\ \A i \in 1 .. Len(front) : stops[i] = front[i]
      <3>1. received + 1 \in Nat
        BY <1>1
      <3> QED BY <1>3, <1>4, <3>1, AppendProperties
    <2>2. Len(front) + 1 = L + 2 /\ 1 \in 1 .. Len(front) /\ \A n \in 1 .. L : n + 1 \in 1 .. Len(front)
      BY <1>1, <1>3
    <2> QED BY <1>3, <2>1, <2>2
  <1> HIDE DEF front, stops
  <1>6. ASSUME NEW n \in 2 .. L + 2, NEW i \in stops[n - 1] + 1 .. stops[n] - 1 PROVE Skipped(i)
    <2>1. CASE L = 0
      <3>1. n = 2 /\ n - 1 = 1 /\ L + 2 = 2
        BY <1>1, <2>1
      <3>2. stops[n - 1] = shown /\ stops[n] = received + 1
        BY <1>5, <3>1
      <3>3. i \in shown + 1 .. received
        BY <1>1, <1>6, <3>2
      <3> QED BY <1>1, <2>1, <3>3
    <2>2. CASE L > 0 /\ n = 2
      <3>1. 1 \in 1 .. L /\ n - 1 = 1 /\ n = 1 + 1
        BY <1>1, <2>2
      <3>2. stops[n - 1] = shown /\ stops[n] = Boxes[1].unit
        BY <1>5, <3>1
      <3> QED BY <1>1, <1>6, <2>2, <3>2
    <2>3. CASE L > 0 /\ n = L + 2
      <3>1. L \in 1 .. L /\ n - 1 = L + 1
        BY <1>1, <2>3
      <3>2. stops[n - 1] = Boxes[L].unit /\ stops[n] = received + 1
        BY <1>5, <2>3, <3>1
      <3>3. i \in Boxes[L].unit + 1 .. received
        BY <1>1, <1>6, <3>1, <3>2
      <3> QED BY <1>1, <2>3, <3>3
    <2>4. CASE L > 0 /\ n > 2 /\ n < L + 2
      <3> DEFINE m == n - 2
      <3>1. m \in 1 .. L - 1 /\ m \in 1 .. L /\ m + 1 \in 1 .. L /\ n - 1 = m + 1 /\ n = (m + 1) + 1
        BY <1>1, <2>4
      <3> HIDE DEF m
      <3>2. stops[n - 1] = Boxes[m].unit /\ stops[n] = Boxes[m + 1].unit
        BY <1>5, <3>1
      <3> QED BY <1>1, <1>6, <2>4, <3>1, <3>2
    <2>5. n = 2 \/ n = L + 2 \/ (n > 2 /\ n < L + 2)
      BY <1>1
    <2> QED BY <1>1, <2>1, <2>2, <2>3, <2>4, <2>5
  <1>7. \A n \in 2 .. Len(stops) : \A i \in stops[n - 1] + 1 .. stops[n] - 1 : i <= Whole /\ Picture(i) => ~KeySeen(i)
    <2>1. ASSUME NEW n \in 2 .. L + 2, NEW i \in stops[n - 1] + 1 .. stops[n] - 1, i <= Whole
          PROVE  i <= Kept
      <3>1. i \in Int /\ Kept \in Nat /\ Whole \in Int /\ Whole <= Kept
        BY Counts
      <3> QED BY <2>1, <3>1
    <2> QED BY <1>5, <1>6, <2>1 DEF Skipped
  <1>8. \A n \in DOMAIN Boxes : Boxes[n].unit <= Whole =>
          LET b == Boxes[n] IN
          /\ Picture(b.unit) /\ KeySeen(b.unit)
          /\ b.nals = IF IsKey(TypeOf(b.unit)) THEN Append(Seen(Decodable(b.unit)), units[b.unit].data)
                      ELSE <<units[b.unit].data>>
    BY DEF VideoInv, Carried, Complete
  <1> QED BY <1>7, <1>8 DEF BoxesDecodable, stops, mid

\* The agent is never so far behind that the buffer overtakes a picture.
LEMMA Outlasts ==
  ASSUME VideoSafe
  PROVE  PicturesOutlast
  <1> DEFINE L == Len(Boxes)
             q == MaxQuiet + 1
  <1>1. /\ L \in Nat /\ DOMAIN Boxes = 1 .. L /\ received \in Nat
        /\ \A n \in 1 .. L : Boxes[n].unit \in 1 .. received
        /\ \A n \in 1 .. L : Boxes[n].unit <= Kept => Picture(Boxes[n].unit) /\ KeySeen(Boxes[n].unit)
        /\ \A n, m \in 1 .. L : n <= m => Boxes[m].unit - Boxes[n].unit <= (m - n) * q
        /\ L > 0 => \A i \in Boxes[L].unit + 1 .. received : Skipped(i)
    BY InOrder DEF VideoSafe
  <1>2. L <= ChanCap + 2 /\ (hand = {} => L <= ChanCap + 1)
    BY BoxesAre DEF VideoSafe
  <1>3. hand # {} => Boxes[L].unit = received
    BY DEF VideoSafe, VideoInv, BoxesInOrder
  <1>4. MaxQuiet \in Nat /\ q \in Nat
    BY QuietRun DEF VideoSafe
  <1> HIDE DEF L
  <1> SUFFICES ASSUME NEW n \in 1 .. L PROVE Gets - Boxes[n].unit <= Window
    BY <1>1 DEF PicturesOutlast
  <1> DEFINE u == Boxes[n].unit
             v == Boxes[L].unit
             d == L - n
  <1>5. L > 0 /\ L \in 1 .. L /\ n <= L /\ d \in Nat
    BY <1>1
  <1>6. u \in Nat /\ v \in 1 .. received /\ v \in Nat /\ v - u <= d * q
    BY <1>1, <1>5
  <1>7. Window = (ChanCap + 1) * q
    BY DEF Window
  <1>8. \A k \in Nat : k <= ChanCap + 1 => k * q <= (ChanCap + 1) * q
    <2>1. ChanCap + 1 \in Nat
      BY ChannelAssumption
    <2> HIDE DEF q
    <2> QED BY <1>4, <2>1, Farther
  <1>9. CASE hand # {}
    <2>1. Gets = received
      BY <1>1, <1>9 DEF Gets
    <2>2. d <= ChanCap + 1
      BY <1>1, <1>2, <1>5, ChannelAssumption
    <2>3. d * q <= (ChanCap + 1) * q
      BY <1>5, <1>8, <2>2
    <2>4. d * q \in Nat /\ (ChanCap + 1) * q \in Nat
      BY <1>4, <1>5, ChannelAssumption, Farther
    <2> DEFINE dq == d * q
               w == (ChanCap + 1) * q
    <2>5. dq \in Nat /\ w \in Nat /\ dq <= w /\ v - u <= dq /\ v = received
      BY <1>3, <1>6, <1>9, <2>3, <2>4
    <2> HIDE DEF dq, w, u, v
    <2>6. received - u <= w
      BY <1>1, <1>6, <2>5
    <2> QED BY <1>7, <2>1, <2>6 DEF w, u
  <1>10. CASE hand = {}
    <2>1. Gets \in Nat /\ Gets - v <= q
      <3>1. received <= Kept \/ (received = Kept + 1 /\ wire = << >>)
        <4>1. received <= Sent /\ Sent <= coded /\ Sent = received + Len(wire) /\ Kept \in {coded, coded - 1}
              /\ Kept \in Nat /\ coded \in Nat /\ Len(wire) \in Nat
          BY ReadIsKept, Counts DEF VideoSafe
        <4>2. received <= Kept \/ (received = Kept + 1 /\ Len(wire) = 0)
          BY <1>1, <4>1
        <4>3. Len(wire) = 0 => wire = << >>
          BY EmptySeq DEF VideoSafe, FramesTypeOK
        <4> QED BY <4>2, <4>3
      <3>2. CASE received <= Kept
        <4>1. Gets \in {received, received + 1}
          BY <1>1 DEF Gets
        <4>2. v <= Kept
          <5>1. v <= received /\ Kept \in Nat
            BY <1>1, <1>6, Counts DEF VideoSafe
          <5> HIDE DEF v
          <5> QED BY <1>1, <1>6, <3>2, <5>1
        <4>3. received - v <= MaxQuiet
          <5>1. KeySeen(v) /\ \A j \in v + 1 .. received : Skipped(j)
            BY <1>1, <1>5, <4>2
          <5>2. v \in Nat /\ v <= received
            BY <1>1, <1>6
          <5> HIDE DEF v
          <5> QED BY <1>1, <3>2, <5>1, <5>2, Gap DEF VideoSafe
        <4> HIDE DEF v
        <4> QED BY <1>1, <1>4, <1>6, <4>1, <4>3
      <3>3. CASE received = Kept + 1 /\ wire = << >>
        <4>1. Gets = received
          BY <1>1, <3>3 DEF Gets
        <4>2. CASE v <= Kept
          <5>1. Kept \in Nat
            BY Counts DEF VideoSafe
          <5>2. KeySeen(v) /\ \A j \in v + 1 .. Kept : Skipped(j)
            <6>1. \A j \in v + 1 .. Kept : j \in v + 1 .. received
              <7> HIDE DEF v
              <7> QED BY <1>6, <3>3, <5>1
            <6> QED BY <1>1, <1>5, <4>2, <6>1
          <5> HIDE DEF v
          <5>3. Kept - v <= MaxQuiet
            BY <1>6, <4>2, <5>1, <5>2, Gap DEF VideoSafe
          <5> QED BY <1>1, <1>4, <1>6, <3>3, <4>1, <5>1, <5>3
        <4>3. CASE ~(v <= Kept)
          <5>1. Kept \in Nat
            BY Counts DEF VideoSafe
          <5> HIDE DEF v
          <5>2. v = received
            BY <1>1, <1>6, <3>3, <4>3, <5>1
          <5> QED BY <1>1, <1>4, <4>1, <5>2
        <4> QED BY <4>2, <4>3
      <3> QED BY <3>1, <3>2, <3>3
    <2>2. d <= ChanCap
      BY <1>1, <1>2, <1>5, <1>10, ChannelAssumption
    <2>3. d + 1 \in Nat /\ d + 1 <= ChanCap + 1
      BY <1>5, <2>2, ChannelAssumption
    <2>4. (d + 1) * q <= (ChanCap + 1) * q /\ (d + 1) * q = d * q + q /\ d * q \in Nat
          /\ (ChanCap + 1) * q \in Nat
      <3>1. (d + 1) * q <= (ChanCap + 1) * q
        BY <1>8, <2>3
      <3>2. (d + 1) * q = d * q + q /\ d * q \in Nat
        <4> HIDE DEF q, d
        <4> QED BY <1>4, <1>5, Farther
      <3>3. ChanCap + 1 \in Nat
        BY ChannelAssumption
      <3>4. (ChanCap + 1) * q \in Nat
        <4> HIDE DEF q
        <4> QED BY <1>4, <3>3, Farther
      <3> QED BY <3>1, <3>2, <3>4
    <2> DEFINE dq == d * q
               w == (ChanCap + 1) * q
    <2>5. dq \in Nat /\ w \in Nat /\ dq + q <= w /\ v - u <= dq
      BY <1>6, <2>4
    <2> HIDE DEF dq, w, u, v, q
    <2>6. Gets - u <= w
      BY <1>4, <1>6, <2>1, <2>5
    <2> QED BY <1>7, <2>6 DEF w, u
  <1> QED BY <1>9, <1>10

\* For any scenarios, any lengths of the channel, the socket and the pipe: the
\* invariant of the frames, FramesInv of LinuxFrames.
THEOREM FramesInvariant == Spec => []FramesInv
  <1>1. Init => VideoSafe
    BY FramesStart
  <1>2. VideoSafe /\ [Next]_<<frames, controls, audio>> => VideoSafe'
    <2>1. ASSUME VideoSafe, Video PROVE VideoSafe'
      BY <2>1, FramesStep DEF Video
    <2>2. ASSUME VideoSafe, UNCHANGED frames PROVE VideoSafe'
      BY <2>2, FramesKept
    <2> QED BY <2>1, <2>2 DEF Next, Control, Sound
  <1>3. VideoSafe => FramesInv
    BY Decodes DEF VideoSafe, VideoInv, FramesInv
  <1> QED BY <1>1, <1>2, <1>3, PTL DEF Spec

\* SplitNALU and ServePushFrames (recorder): what is sent is the units of the
\* encoder, one by one and whole, and all of them when the recorder is done.
THEOREM WholeUnits == Spec => []NalsAreWhole
  <1>1. FramesInv => NalsAreWhole
    BY DEF FramesInv
  <1> QED BY <1>1, FramesInvariant, PTL

\* handleConnection (driver): a key frame carries the latest parameter sets before
\* it, and from the first on every picture comes, once and in order.
THEOREM Decodables == Spec => []BoxesDecodable
  <1>1. FramesInv => BoxesDecodable
    BY DEF FramesInv
  <1> QED BY <1>1, FramesInvariant, PTL

\* handleConnection sends a picture as the slice it was read into: no more than
\* Window payloads are read before the agent is done with it.
THEOREM Outlast == Spec => []PicturesOutlast
  <1>1. FramesInv => VideoSafe
    BY DEF FramesInv, VideoSafe, VideoInv, BoxesDecodable, Carried, Complete
  <1>2. FramesInv => PicturesOutlast
    BY <1>1, Outlasts
  <1> QED BY <1>2, FramesInvariant, PTL

\* A set of natural numbers has a least element: the sets of the numbers below
\* its elements are finite, and strict inclusion of finite sets is well-founded.
LEMMA LeastOf ==
  ASSUME NEW B, B \subseteq Nat, B # {}
  PROVE  \E m \in B : \A n \in B : m <= n
  <1> DEFINE Below(n) == {k \in Nat : k < n}
             T == {Below(n) : n \in B}
  <1>1. ASSUME NEW n \in Nat PROVE Below(n) \in FiniteSubsetsOf(Nat)
    <2>1. IsFiniteSet(Below(n))
      BY FS_BoundedSetOfNaturals
    <2> QED BY <2>1 DEF FiniteSubsetsOf
  <1>2. T \subseteq FiniteSubsetsOf(Nat) /\ T # {}
    BY <1>1
  <1>3. PICK t \in T : \A u \in T : <<u, t>> \notin StrictSubsetOrdering(Nat)
    <2> HIDE DEF T
    <2> QED BY <1>2, WFMin, FS_StrictSubsetOrderingWellFounded
  <1>4. PICK m \in B : t = Below(m)
    BY <1>3
  <1>5. ASSUME NEW n \in B, n < m PROVE FALSE
    <2>1. Below(n) \subseteq Nat /\ Below(m) \subseteq Nat /\ Below(n) \subseteq Below(m)
      BY <1>5
    <2>2. n \in Below(m) /\ n \notin Below(n)
      BY <1>5
    <2>3. Below(n) \in T
      OBVIOUS
    <2>4. <<Below(n), Below(m)>> \in StrictSubsetOrdering(Nat)
      <3> HIDE DEF Below, T
      <3> QED BY <2>1, <2>2 DEF StrictSubsetOrdering
    <2> QED BY <1>3, <1>4, <2>3, <2>4
  <1> QED BY <1>5

\* Induction, for a set of numbers.
LEMMA Induction ==
  ASSUME NEW B, 0 \in B, \A n \in Nat : n \in B => n + 1 \in B
  PROVE  Nat \subseteq B
  <1> SUFFICES ASSUME Nat \ B # {} PROVE FALSE
    OBVIOUS
  <1>1. PICK m \in Nat \ B : \A n \in Nat \ B : m <= n
    BY LeastOf
  <1> QED BY <1>1, m - 1 \in Nat

\* Induction up to a number.
LEMMA UpTo ==
  ASSUME NEW n \in Nat, NEW B, 0 \in B, \A k \in 1 .. n : k - 1 \in B => k \in B
  PROVE  0 .. n \subseteq B
  <1> DEFINE C == {k \in Nat : k <= n => k \in B}
  <1>1. 0 \in C
    OBVIOUS
  <1>2. ASSUME NEW k \in Nat, k \in C PROVE k + 1 \in C
    <2>1. (k + 1) - 1 = k
      OBVIOUS
    <2> QED BY <1>2, <2>1
  <1>3. Nat \subseteq C
    <2> HIDE DEF C
    <2> QED BY <1>1, <1>2, Induction
  <1> QED BY <1>3

-----------------------------------------------------------------------------
(* Sequences of sequences, one behind another                              *)

\* The sequences up to each place, which FlattenSeq joins.
Joins(f, s) ==
  f = [i \in 1 .. Len(s) |-> IF i = 1 THEN s[i] ELSE f[i - 1] \o s[i]]

\* They exist.
LEMMA JoinsExist ==
  ASSUME NEW S, NEW s \in Seq(Seq(S))
  PROVE  \E f : Joins(f, s)
  <1> DEFINE P(n, f) == f = [i \in 1 .. n |-> IF i = 1 THEN s[i] ELSE f[i - 1] \o s[i]]
             B == {n \in Nat : \E f : P(n, f)}
  <1>1. 0 \in B
    <2> DEFINE f == [i \in 1 .. 0 |-> s[i]]
    <2>1. P(0, f)
      OBVIOUS
    <2> QED BY <2>1
  <1>2. ASSUME NEW n \in Nat, n \in B PROVE n + 1 \in B
    <2>1. PICK f : P(n, f)
      BY <1>2
    <2> DEFINE g == [i \in 1 .. n + 1 |-> IF i = n + 1 THEN IF n = 0 THEN s[1] ELSE f[n] \o s[n + 1]
                                          ELSE f[i]]
    <2>2. ASSUME NEW i \in 1 .. n + 1 PROVE g[i] = IF i = 1 THEN s[i] ELSE g[i - 1] \o s[i]
      <3>1. CASE i = n + 1 /\ n = 0
        BY <3>1
      <3>2. CASE i = n + 1 /\ n # 0
        <4>1. n \in 1 .. n + 1 /\ n # n + 1 /\ i - 1 = n /\ i # 1
          BY <3>2
        <4>2. g[n] = f[n] /\ g[i] = f[n] \o s[n + 1]
          BY <3>2, <4>1
        <4> HIDE DEF g
        <4> QED BY <3>2, <4>1, <4>2
      <3>3. CASE i # n + 1
        <4>1. i \in 1 .. n
          BY <3>3
        <4>2. f[i] = IF i = 1 THEN s[i] ELSE f[i - 1] \o s[i]
          BY <2>1, <4>1
        <4>3. i # 1 => i - 1 \in 1 .. n + 1 /\ i - 1 # n + 1
          BY <4>1
        <4> QED BY <3>3, <4>2, <4>3
      <3> QED BY <3>1, <3>2, <3>3
    <2>3. g = [i \in 1 .. n + 1 |-> g[i]]
      OBVIOUS
    <2>4. P(n + 1, g)
      <3> HIDE DEF g
      <3> QED BY <2>2, <2>3
    <2>5. n + 1 \in Nat /\ \E h : P(n + 1, h)
      <3> HIDE DEF g, P
      <3> QED BY <2>4
    <2> QED BY <2>5
  <1>3. Nat \subseteq B
    <2> HIDE DEF B
    <2> QED BY <1>1, <1>2, Induction
  <1>4. Len(s) \in Nat
    BY LenProperties
  <1>5. \E f : P(Len(s), f)
    BY <1>3, <1>4
  <1> QED BY <1>5 DEF Joins

\* FlattenSeq is the last of them.
LEMMA FlattenJoins ==
  ASSUME NEW S, NEW s \in Seq(Seq(S)), s # << >>
  PROVE  \E f : /\ FlattenSeq(s) = f[Len(s)] /\ Len(s) \in Nat \ {0}
                /\ f[1] = s[1]
                /\ \A i \in 2 .. Len(s) : f[i] = f[i - 1] \o s[i]
                /\ \A i \in 1 .. Len(s) : f[i] \in Seq(S)
  <1> DEFINE f == CHOOSE g : g = [i \in 1 .. Len(s) |-> IF i = 1 THEN s[i] ELSE g[i - 1] \o s[i]]
  <1>1. Len(s) \in Nat \ {0}
    BY EmptySeq
  <1>2. FlattenSeq(s) = f[Len(s)]
    BY <1>1 DEF FlattenSeq
  <1>3. f = [i \in 1 .. Len(s) |-> IF i = 1 THEN s[i] ELSE f[i - 1] \o s[i]]
    <2>1. \E g : g = [i \in 1 .. Len(s) |-> IF i = 1 THEN s[i] ELSE g[i - 1] \o s[i]]
      BY JoinsExist DEF Joins
    <2> QED BY <2>1
  <1> HIDE DEF f
  <1>4. f[1] = s[1] /\ \A i \in 2 .. Len(s) : f[i] = f[i - 1] \o s[i]
    <2>1. 1 \in 1 .. Len(s)
      BY <1>1
    <2>2. ASSUME NEW i \in 2 .. Len(s) PROVE i \in 1 .. Len(s) /\ i # 1
      OBVIOUS
    <2> QED BY <1>3, <2>1, <2>2
  <1> DEFINE B == {n \in Nat : n = 0 \/ f[n] \in Seq(S)}
  <1>5. 0 .. Len(s) \subseteq B
    <2>1. 0 \in B
      OBVIOUS
    <2>2. ASSUME NEW k \in 1 .. Len(s), k - 1 \in B PROVE k \in B
      <3>1. s[k] \in Seq(S) /\ k \in Nat
        BY ElementOfSeq
      <3>2. CASE k = 1
        BY <1>4, <3>1, <3>2
      <3>3. CASE k # 1
        <4> DEFINE a == f[k - 1]
                   b == s[k]
        <4>1. k \in 2 .. Len(s) /\ k - 1 # 0
          BY <1>1, <3>3
        <4>2. f[k] = a \o b /\ a \in Seq(S)
          BY <1>4, <2>2, <4>1
        <4> HIDE DEF a
        <4>3. a \o b \in Seq(S)
          BY <3>1, <4>2, ConcatOf
        <4> QED BY <3>1, <4>2, <4>3
      <3> QED BY <3>2, <3>3
    <2> HIDE DEF B
    <2> QED BY <1>1, <2>1, <2>2, UpTo
  <1>6. \A i \in 1 .. Len(s) : f[i] \in Seq(S)
    BY <1>5
  <1> QED BY <1>1, <1>2, <1>4, <1>6

\* None gives none, and one gives itself.
LEMMA FlattenNone ==
  FlattenSeq(<< >>) = << >>
  BY DEF FlattenSeq

\* One sequence more comes behind the others.
LEMMA FlattenAppend ==
  ASSUME NEW S, NEW s \in Seq(Seq(S)), NEW x \in Seq(S)
  PROVE  /\ FlattenSeq(s) \in Seq(S) /\ Append(s, x) \in Seq(Seq(S))
         /\ FlattenSeq(Append(s, x)) = FlattenSeq(s) \o x
  <1> DEFINE t == Append(s, x)
  <1>1. /\ t \in Seq(Seq(S)) /\ Len(s) \in Nat /\ Len(t) = Len(s) + 1 /\ t[Len(s) + 1] = x
        /\ \A i \in 1 .. Len(s) : t[i] = s[i]
    OBVIOUS
  <1> HIDE DEF t
  <1>2. t # << >>
    BY <1>1
  <1>3. PICK g : /\ FlattenSeq(t) = g[Len(t)] /\ g[1] = t[1]
                 /\ \A i \in 2 .. Len(t) : g[i] = g[i - 1] \o t[i]
                 /\ \A i \in 1 .. Len(t) : g[i] \in Seq(S)
    <2>1. t \in Seq(Seq(S))
      BY <1>1
    <2> QED BY <1>2, <2>1, FlattenJoins
  <1>4. CASE s = << >>
    <2>1. Len(s) = 0
      BY <1>4
    <2>2. FlattenSeq(t) = x
      BY <1>1, <1>3, <2>1
    <2>3. FlattenSeq(s) = << >> /\ << >> \in Seq(S) /\ << >> \o x = x
      BY <1>4, FlattenNone, EmptySeq, ConcatOf
    <2> QED BY <1>1, <2>2, <2>3 DEF t
  <1>5. CASE s # << >>
    <2>1. PICK f : /\ FlattenSeq(s) = f[Len(s)] /\ Len(s) \in Nat \ {0} /\ f[1] = s[1]
                   /\ \A i \in 2 .. Len(s) : f[i] = f[i - 1] \o s[i]
                   /\ \A i \in 1 .. Len(s) : f[i] \in Seq(S)
      BY <1>5, FlattenJoins
    <2> DEFINE B == {n \in Nat : n = 0 \/ g[n] = f[n]}
    <2>2. 0 .. Len(s) \subseteq B
      <3>1. 0 \in B
        OBVIOUS
      <3>2. ASSUME NEW k \in 1 .. Len(s), k - 1 \in B PROVE k \in B
        <4>1. t[k] = s[k] /\ k \in Nat /\ k \in 1 .. Len(t)
          BY <1>1
        <4>2. CASE k = 1
          BY <1>3, <2>1, <4>1, <4>2
        <4>3. CASE k # 1
          <5>1. k \in 2 .. Len(s) /\ k \in 2 .. Len(t) /\ k - 1 # 0
            BY <1>1, <4>3
          <5>2. g[k - 1] = f[k - 1]
            BY <3>2, <5>1
          <5>3. g[k] = f[k]
            BY <1>3, <2>1, <4>1, <5>1, <5>2
          <5> QED BY <4>1, <5>3
        <4> QED BY <4>2, <4>3
      <3> HIDE DEF B
      <3> QED BY <1>1, <3>1, <3>2, UpTo
    <2>3. g[Len(s)] = f[Len(s)] /\ f[Len(s)] \in Seq(S)
      BY <2>1, <2>2
    <2>4. Len(s) + 1 \in 2 .. Len(t) /\ (Len(s) + 1) - 1 = Len(s)
      BY <1>1, <2>1
    <2>5. g[Len(s) + 1] = g[Len(s)] \o x
      BY <1>1, <1>3, <2>4
    <2> QED BY <1>1, <1>3, <2>1, <2>3, <2>5 DEF t
  <1> QED BY <1>4, <1>5

\* One sequence more in front comes before the others.
LEMMA FlattenFront ==
  ASSUME NEW S, NEW s \in Seq(Seq(S)), NEW x \in Seq(S)
  PROVE  /\ <<x>> \o s \in Seq(Seq(S))
         /\ FlattenSeq(<<x>> \o s) = x \o FlattenSeq(s)
  <1> DEFINE t == <<x>> \o s
  <1>1. /\ t \in Seq(Seq(S)) /\ Len(s) \in Nat /\ Len(t) = Len(s) + 1 /\ t[1] = x
        /\ \A i \in 1 .. Len(s) : t[i + 1] = s[i]
    BY InFrontOf, LenProperties
  <1> HIDE DEF t
  <1>2. t # << >>
    BY <1>1
  <1>3. PICK g : /\ FlattenSeq(t) = g[Len(t)] /\ g[1] = t[1]
                 /\ \A i \in 2 .. Len(t) : g[i] = g[i - 1] \o t[i]
                 /\ \A i \in 1 .. Len(t) : g[i] \in Seq(S)
    <2>1. t \in Seq(Seq(S))
      BY <1>1
    <2> QED BY <1>2, <2>1, FlattenJoins
  <1>4. CASE s = << >>
    <2>1. Len(s) = 0
      BY <1>4
    <2>2. FlattenSeq(t) = x
      BY <1>1, <1>3, <2>1
    <2>3. FlattenSeq(s) = << >> /\ x \o << >> = x
      BY <1>4, FlattenNone, EmptySeq, ConcatOf
    <2> QED BY <1>1, <2>2, <2>3 DEF t
  <1>5. CASE s # << >>
    <2>1. PICK f : /\ FlattenSeq(s) = f[Len(s)] /\ Len(s) \in Nat \ {0} /\ f[1] = s[1]
                   /\ \A i \in 2 .. Len(s) : f[i] = f[i - 1] \o s[i]
                   /\ \A i \in 1 .. Len(s) : f[i] \in Seq(S)
      BY <1>5, FlattenJoins
    <2> DEFINE B == {n \in Nat : n = 0 \/ g[n + 1] = x \o f[n]}
    <2>2. 0 .. Len(s) \subseteq B
      <3>1. 0 \in B
        OBVIOUS
      <3>2. ASSUME NEW k \in 1 .. Len(s), k - 1 \in B PROVE k \in B
        <4>1. t[k + 1] = s[k] /\ k \in Nat /\ k + 1 \in 2 .. Len(t) /\ (k + 1) - 1 = k
          BY <1>1
        <4>2. g[k + 1] = g[k] \o s[k]
          BY <1>3, <4>1
        <4>3. CASE k = 1
          BY <1>1, <1>3, <2>1, <4>1, <4>2, <4>3
        <4>4. CASE k # 1
          <5>1. k \in 2 .. Len(s) /\ k - 1 # 0 /\ (k - 1) + 1 = k /\ k - 1 \in 1 .. Len(s)
            BY <1>1, <4>4
          <5>2. g[k] = x \o f[k - 1]
            BY <3>2, <5>1
          <5>3. f[k] = f[k - 1] \o s[k] /\ f[k - 1] \in Seq(S) /\ s[k] \in Seq(S)
            BY <2>1, <5>1, ElementOfSeq
          <5> DEFINE a == f[k - 1]
                     b == s[k]
          <5>4. (x \o a) \o b = x \o (a \o b)
            <6> HIDE DEF a, b
            <6>1. a \in Seq(S) /\ b \in Seq(S)
              BY <5>3 DEF a, b
            <6> QED BY <6>1, ConcatThreeOf
          <5>5. g[k + 1] = x \o f[k]
            BY <4>2, <5>2, <5>3, <5>4
          <5> QED BY <4>1, <5>5
        <4> QED BY <4>3, <4>4
      <3> HIDE DEF B
      <3> QED BY <1>1, <3>1, <3>2, UpTo
    <2>3. g[Len(s) + 1] = x \o f[Len(s)]
      <3>1. Len(s) \in 0 .. Len(s) /\ Len(s) # 0
        BY <2>1
      <3>2. Len(s) \in B
        <4> HIDE DEF B
        <4> QED BY <2>2, <3>1
      <3> QED BY <3>1, <3>2
    <2> QED BY <1>1, <1>3, <2>1, <2>3 DEF t
  <1> QED BY <1>4, <1>5

-----------------------------------------------------------------------------
(* Numbers as bytes                                                        *)

\* What is left of a number without its last bytes.
LEMMA ShiftedOf ==
  ASSUME NEW n \in Int
  PROVE  /\ \A k \in 1 .. 4 : Shifted(n)[k] \in Int
         /\ Shifted(n)[1] = n
         /\ \A k \in 1 .. 3 : /\ Shifted(n)[k] = 256 * Shifted(n)[k + 1] + (Shifted(n)[k] % 256)
                              /\ Shifted(n)[k] % 256 \in 0 .. 255
  <1> DEFINE cut(m) == m \div 256
             s == <<n, cut(n), cut(cut(n)), cut(cut(cut(n)))>>
  <1>1. Shifted(n) = s
    BY DEF Shifted
  <1>2. ASSUME NEW m \in Int
        PROVE  cut(m) \in Int /\ m = 256 * cut(m) + (m % 256) /\ m % 256 \in 0 .. 255
    OBVIOUS
  <1>3. s[1] = n /\ s[2] = cut(s[1]) /\ s[3] = cut(s[2]) /\ s[4] = cut(s[3])
    OBVIOUS
  <1> HIDE DEF cut, s
  <1>4. s[1] \in Int /\ s[2] \in Int /\ s[3] \in Int /\ s[4] \in Int
    BY <1>2, <1>3
  <1>5. \A k \in 1 .. 4 : s[k] \in Int
    BY <1>4
  <1>6. ASSUME NEW k \in 1 .. 3
        PROVE  s[k] = 256 * s[k + 1] + (s[k] % 256) /\ s[k] % 256 \in 0 .. 255
    <2>1. s[k + 1] = cut(s[k])
      BY <1>3
    <2>2. s[k] \in Int
      BY <1>5
    <2> DEFINE a == s[k]
    <2> HIDE DEF a
    <2>3. a = 256 * cut(a) + (a % 256) /\ a % 256 \in 0 .. 255
      <3>1. a \in Int
        BY <2>2 DEF a
      <3> QED BY <1>2, <3>1
    <2> QED BY <2>1, <2>3 DEF a
  <1> QED BY <1>1, <1>3, <1>5, <1>6

\* A number that w bytes hold has nothing left without them.
LEMMA NothingLeft ==
  ASSUME NEW n \in Int, NEW w \in 1 .. 3, Unsigned(n, w)
  PROVE  \A k \in w + 1 .. 4 : Shifted(n)[k] = 0
  <1> DEFINE s == Shifted(n)
  <1>1. /\ \A k \in 1 .. 4 : s[k] \in Int
        /\ s[1] = n /\ s[1] \in Nat /\ s[w] < 256
        /\ \A k \in 1 .. 3 : s[k] = 256 * s[k + 1] + (s[k] % 256) /\ s[k] % 256 \in 0 .. 255
    BY ShiftedOf DEF Unsigned
  <1> HIDE DEF s
  <1>2. ASSUME NEW k \in 1 .. 3, s[k] >= 0 PROVE s[k + 1] >= 0 /\ (s[k] < 256 => s[k + 1] = 0)
    <2>1. s[k] \in Int /\ s[k + 1] \in Int
      <3>1. k \in 1 .. 4 /\ k + 1 \in 1 .. 4
        OBVIOUS
      <3>2. \A j \in 1 .. 4 : s[j] \in Int
        BY <1>1
      <3> QED BY <3>1, <3>2
    <2> DEFINE a == s[k]
               b == s[k + 1]
               r == s[k] % 256
    <2>2. a \in Int /\ b \in Int /\ a = 256 * b + r /\ r \in Int /\ 0 <= r /\ r <= 255 /\ a >= 0
      <3>1. s[k] = 256 * s[k + 1] + (s[k] % 256) /\ s[k] % 256 \in 0 .. 255
        BY <1>1
      <3>2. r \in 0 .. 255 /\ a = 256 * b + r
        BY <3>1
      <3> HIDE DEF r
      <3>3. r \in Int /\ 0 <= r /\ r <= 255
        BY <3>2
      <3> QED BY <1>2, <2>1, <3>2, <3>3
    <2> HIDE DEF a, b, r
    <2>3. b >= 0 /\ (a < 256 => b = 0)
      BY <2>2
    <2> QED BY <2>3 DEF a, b
  <1>3. s[1] >= 0 /\ s[2] >= 0 /\ s[3] >= 0
        /\ (s[1] < 256 => s[2] = 0) /\ (s[2] < 256 => s[3] = 0) /\ (s[3] < 256 => s[4] = 0)
    <2>1. s[1] >= 0
      BY <1>1
    <2>2. s[2] >= 0 /\ (s[1] < 256 => s[2] = 0)
      BY <1>2, <2>1
    <2>3. s[3] >= 0 /\ (s[2] < 256 => s[3] = 0)
      BY <1>2, <2>2
    <2>4. s[3] < 256 => s[4] = 0
      BY <1>2, <2>3
    <2> QED BY <2>1, <2>2, <2>3, <2>4
  <1>4. w = 1 => s[2] = 0 /\ s[3] = 0 /\ s[4] = 0
    <2> SUFFICES ASSUME w = 1 PROVE s[2] = 0 /\ s[3] = 0 /\ s[4] = 0
      OBVIOUS
    <2>1. s[2] = 0
      BY <1>1, <1>3
    <2>2. s[3] = 0
      BY <1>3, <2>1
    <2>3. s[4] = 0
      BY <1>3, <2>2
    <2> QED BY <2>1, <2>2, <2>3
  <1>5. w = 2 => s[3] = 0 /\ s[4] = 0
    BY <1>1, <1>3
  <1>6. w = 3 => s[4] = 0
    BY <1>1, <1>3
  <1> QED BY <1>4, <1>5, <1>6 DEF s

\* Byte number i of a number in w bytes.
ByteOf(n, w, i) ==
  IF w - i > 3 THEN IF n < 0 THEN 255 ELSE 0 ELSE Shifted(n)[w - i + 1] % 256

\* A number in bytes.
LEMMA BytesOfNumber ==
  ASSUME NEW n \in Int, NEW w \in Nat
  PROVE  /\ BE(n, w) \in Seq(Int) /\ Len(BE(n, w)) = w
         /\ \A i \in 1 .. w : BE(n, w)[i] = ByteOf(n, w, i)
  <1>1. ASSUME NEW i \in 1 .. w PROVE ByteOf(n, w, i) \in Int
    <2>1. CASE w - i > 3
      BY <2>1 DEF ByteOf
    <2>2. CASE ~(w - i > 3)
      <3>1. w - i + 1 \in 1 .. 4
        BY <2>2
      <3>2. Shifted(n)[w - i + 1] \in Int
        BY <3>1, ShiftedOf
      <3> QED BY <2>2, <3>2 DEF ByteOf
    <2> QED BY <2>1, <2>2
  <1>2. BE(n, w) = [i \in 1 .. w |-> ByteOf(n, w, i)]
    BY DEF BE, ByteOf
  <1> QED BY <1>1, <1>2

\* The same, spelled out.
LEMMA BEIs ==
  ASSUME NEW n \in Int, NEW w \in Nat
  PROVE  /\ BE(n, w) \in Seq(Int) /\ Len(BE(n, w)) = w
         /\ \A i \in 1 .. w : BE(n, w)[i] = IF w - i > 3 THEN IF n < 0 THEN 255 ELSE 0
                                            ELSE Shifted(n)[w - i + 1] % 256
  BY BytesOfNumber DEF ByteOf

\* What a number is made of, byte by byte.
LEMMA NumSteps ==
  ASSUME NEW b \in Seq(Int)
  PROVE  \E f : /\ Num(b) = f[Len(b)] /\ f[0] = 0
                /\ \A i \in 1 .. Len(b) : f[i] = 256 * f[i - 1] + b[i]
  <1> DEFINE P(n, f) == f = [i \in 0 .. n |-> IF i = 0 THEN 0 ELSE 256 * f[i - 1] + b[i]]
             B == {n \in Nat : \E f : P(n, f)}
             num == CHOOSE f : P(Len(b), f)
  <1>1. 0 \in B
    <2> DEFINE f == [i \in 0 .. 0 |-> 0]
    <2>1. f = [i \in 0 .. 0 |-> IF i = 0 THEN 0 ELSE 256 * f[i - 1] + b[i]]
      OBVIOUS
    <2> QED BY <2>1
  <1>2. ASSUME NEW n \in Nat, n \in B PROVE n + 1 \in B
    <2>1. PICK f : P(n, f)
      BY <1>2
    <2> DEFINE g == [i \in 0 .. n + 1 |-> IF i = n + 1 THEN 256 * f[n] + b[n + 1] ELSE f[i]]
    <2>2. ASSUME NEW i \in 0 .. n + 1 PROVE g[i] = IF i = 0 THEN 0 ELSE 256 * g[i - 1] + b[i]
      <3>1. CASE i = n + 1
        <4>1. n \in 0 .. n + 1 /\ n # n + 1 /\ i - 1 = n /\ i # 0
          BY <3>1
        <4>2. g[n] = f[n] /\ g[i] = 256 * f[n] + b[n + 1]
          BY <3>1, <4>1
        <4> HIDE DEF g
        <4> QED BY <3>1, <4>1, <4>2
      <3>2. CASE i # n + 1
        <4>1. i \in 0 .. n
          BY <3>2
        <4>2. f[i] = IF i = 0 THEN 0 ELSE 256 * f[i - 1] + b[i]
          BY <2>1, <4>1
        <4>3. i # 0 => i - 1 \in 0 .. n + 1 /\ i - 1 # n + 1
          BY <4>1
        <4> QED BY <3>2, <4>2, <4>3
      <3> QED BY <3>1, <3>2
    <2>3. g = [i \in 0 .. n + 1 |-> g[i]]
      OBVIOUS
    <2>4. P(n + 1, g)
      <3> HIDE DEF g
      <3> QED BY <2>2, <2>3
    <2>5. n + 1 \in Nat /\ \E h : P(n + 1, h)
      <3> HIDE DEF g, P
      <3> QED BY <2>4
    <2> QED BY <2>5
  <1>3. Nat \subseteq B
    <2> HIDE DEF B
    <2> QED BY <1>1, <1>2, Induction
  <1>4. Len(b) \in Nat
    BY LenProperties
  <1>5. P(Len(b), num)
    <2>1. \E f : P(Len(b), f)
      BY <1>3, <1>4
    <2> HIDE DEF P
    <2> QED BY <2>1
  <1>6. Num(b) = num[Len(b)]
    BY DEF Num
  <1> HIDE DEF num
  <1>7. num[0] = 0 /\ \A i \in 1 .. Len(b) : num[i] = 256 * num[i - 1] + b[i]
    <2>1. 0 \in 0 .. Len(b)
      BY <1>4
    <2>2. ASSUME NEW i \in 1 .. Len(b) PROVE i \in 0 .. Len(b) /\ i # 0
      BY <1>4
    <2> QED BY <1>5, <2>1, <2>2
  <1> QED BY <1>6, <1>7

\* A number is read as it was written, if the bytes hold it.
LEMMA NumBE ==
  ASSUME NEW n \in Int, NEW w \in {1, 2, 4}, Unsigned(n, w)
  PROVE  Num(BE(n, w)) = n
  <1> DEFINE s == Shifted(n)
             b == BE(n, w)
  <1>1. /\ \A k \in 1 .. 4 : s[k] \in Int
        /\ s[1] = n /\ n \in Nat /\ s[w] < 256
        /\ \A k \in 1 .. 3 : s[k] = 256 * s[k + 1] + (s[k] % 256)
    BY ShiftedOf DEF Unsigned
  <1>2. b \in Seq(Int) /\ Len(b) = w /\ \A i \in 1 .. w : b[i] = s[w - i + 1] % 256
    <2>1. \A i \in 1 .. w : ~(w - i > 3)
      OBVIOUS
    <2> QED BY <2>1, BEIs
  <1>3. s[w] >= 0
    <2>1. ASSUME NEW k \in 1 .. 3, s[k] >= 0 PROVE s[k + 1] >= 0
      <3>1. s[k] = 256 * s[k + 1] + (s[k] % 256) /\ s[k] % 256 \in 0 .. 255
        BY ShiftedOf
      <3> HIDE DEF s
      <3>2. s[k] \in Int /\ s[k + 1] \in Int
        <4>1. k \in 1 .. 4 /\ k + 1 \in 1 .. 4
          OBVIOUS
        <4>2. \A j \in 1 .. 4 : s[j] \in Int
          BY <1>1
        <4> QED BY <4>1, <4>2
      <3> DEFINE a == s[k]
                 b1 == s[k + 1]
                 r == s[k] % 256
      <3>3. a \in Int /\ b1 \in Int /\ r \in 0 .. 255 /\ a = 256 * b1 + r /\ a >= 0
        BY <2>1, <3>1, <3>2
      <3> HIDE DEF a, b1, r
      <3>4. b1 >= 0
        BY <3>3
      <3> QED BY <3>4 DEF b1
    <2>2. s[1] >= 0
      BY <1>1
    <2> HIDE DEF s
    <2>3. s[2] >= 0 /\ s[3] >= 0 /\ s[4] >= 0
      BY <2>1, <2>2
    <2> QED BY <2>2, <2>3
  <1>4. s[w] % 256 = s[w]
    <2>1. ASSUME NEW m \in Int, 0 <= m, m < 256 PROVE m % 256 = m
      BY <2>1
    <2>2. s[w] \in Int
      BY <1>1
    <2> HIDE DEF s
    <2> QED BY <1>1, <1>3, <2>1, <2>2
  <1>5. PICK f : /\ Num(b) = f[Len(b)] /\ f[0] = 0
                 /\ \A i \in 1 .. Len(b) : f[i] = 256 * f[i - 1] + b[i]
    <2> HIDE DEF b
    <2> QED BY <1>2, NumSteps
  <1> HIDE DEF s, b
  <1>6. CASE w = 1
    <2>1. Num(b) = f[1] /\ f[1] = 256 * f[0] + b[1] /\ b[1] = s[1] % 256
      BY <1>2, <1>5, <1>6
    <2>2. b[1] = n
      BY <1>1, <1>4, <1>6, <2>1
    <2> HIDE DEF b
    <2>3. f[1] = n
      BY <1>5, <2>1, <2>2
    <2> QED BY <2>1, <2>3 DEF b
  <1>7. CASE w = 2
    <2>1. f[1] = s[2] /\ f[2] = 256 * f[1] + (s[1] % 256) /\ s[1] = 256 * s[2] + (s[1] % 256)
      <3>1. f[1] = 256 * 0 + b[1] /\ f[2] = 256 * f[1] + b[2]
        BY <1>2, <1>5, <1>7
      <3>2. b[1] = s[2] % 256 /\ b[2] = s[1] % 256
        BY <1>2, <1>7
      <3>3. s[1] = 256 * s[2] + (s[1] % 256) /\ s[2] \in Int
        BY <1>1
      <3>4. b[1] = s[2]
        BY <1>4, <1>7, <3>2
      <3>5. f[1] = s[2]
        BY <3>1, <3>3, <3>4
      <3> QED BY <3>1, <3>2, <3>3, <3>5
    <2> QED BY <1>1, <1>2, <1>5, <1>7, <2>1 DEF b
  <1>8. CASE w = 4
    <2>1. f[1] = 256 * f[0] + b[1] /\ f[2] = 256 * f[1] + b[2] /\ f[3] = 256 * f[2] + b[3]
          /\ f[4] = 256 * f[3] + b[4] /\ Num(b) = f[4]
      BY <1>2, <1>5, <1>8
    <2>2. b[1] = s[4] % 256 /\ b[2] = s[3] % 256 /\ b[3] = s[2] % 256 /\ b[4] = s[1] % 256
      BY <1>2, <1>8
    <2>3. f[1] = s[4]
      BY <1>1, <1>4, <1>5, <1>8, <2>1, <2>2
    <2>4. f[2] = s[3]
      BY <1>1, <2>1, <2>2, <2>3
    <2>5. f[3] = s[2]
      BY <1>1, <2>1, <2>2, <2>4
    <2>6. f[4] = s[1]
      BY <1>1, <2>1, <2>2, <2>5
    <2> QED BY <1>1, <2>1, <2>6 DEF b
  <1> QED BY <1>6, <1>7, <1>8

\* A number in more bytes than it needs.
LEMMA WidenBE ==
  ASSUME NEW n \in Int, NEW w \in 1 .. 2, NEW v \in 4 .. 8, Unsigned(n, w)
  PROVE  Widen(BE(n, w), v) = BE(n, v)
  <1> DEFINE b == BE(n, w)
             c == BE(n, v)
             z == [i \in 1 .. v - Len(b) |-> 0]
             d == z \o b
  <1>1. b \in Seq(Int) /\ Len(b) = w /\ \A i \in 1 .. w : b[i] = Shifted(n)[w - i + 1] % 256
    <2>1. \A i \in 1 .. w : ~(w - i > 3)
      OBVIOUS
    <2> QED BY <2>1, BEIs
  <1>2. /\ c \in Seq(Int) /\ Len(c) = v
        /\ \A i \in 1 .. v : c[i] = IF v - i > 3 THEN 0 ELSE Shifted(n)[v - i + 1] % 256
    <2>1. ~(n < 0) /\ v \in Nat
      BY DEF Unsigned
    <2> HIDE DEF c
    <2>2. c \in Seq(Int) /\ Len(c) = v /\ \A i \in 1 .. v : c[i] = ByteOf(n, v, i)
      BY <2>1, BytesOfNumber DEF c
    <2>3. \A i \in 1 .. v : ByteOf(n, v, i) = IF v - i > 3 THEN 0 ELSE Shifted(n)[v - i + 1] % 256
      BY <2>1 DEF ByteOf
    <2> QED BY <2>2, <2>3
  <1> HIDE DEF b, c
  <1>3. z \in Seq(Int) /\ Len(z) = v - w /\ \A i \in 1 .. v - w : z[i] = 0
    BY <1>1
  <1> HIDE DEF z
  <1>4. /\ d \in Seq(Int) /\ Len(d) = v
        /\ \A i \in 1 .. v : d[i] = IF i <= v - w THEN 0 ELSE b[i - (v - w)]
    <2>1. /\ d \in Seq(Int) /\ Len(d) = Len(z) + Len(b)
          /\ \A i \in 1 .. Len(z) + Len(b) : d[i] = IF i <= Len(z) THEN z[i] ELSE b[i - Len(z)]
      BY <1>1, <1>3, ConcatProperties
    <2> HIDE DEF d
    <2>2. Len(z) + Len(b) = v
      BY <1>1, <1>3
    <2>3. \A i \in 1 .. v : i <= v - w => i \in 1 .. v - w
      OBVIOUS
    <2> QED BY <1>3, <2>1, <2>2, <2>3
  <1> HIDE DEF d
  <1>5. ASSUME NEW i \in 1 .. v PROVE d[i] = c[i]
    <2>1. CASE i <= v - w
      <3>1. CASE v - i > 3
        BY <1>2, <1>4, <2>1, <3>1
      <3>2. CASE ~(v - i > 3)
        <4>1. v - i + 1 \in w + 1 .. 4
          BY <2>1, <3>2
        <4>2. Shifted(n)[v - i + 1] = 0
          BY <4>1, NothingLeft
        <4> QED BY <1>2, <1>4, <2>1, <3>2, <4>2
      <3> QED BY <3>1, <3>2
    <2>2. CASE ~(i <= v - w)
      <3>1. i - (v - w) \in 1 .. w /\ w - (i - (v - w)) + 1 = v - i + 1 /\ ~(v - i > 3)
        BY <2>2
      <3>2. d[i] = b[i - (v - w)] /\ b[i - (v - w)] = Shifted(n)[v - i + 1] % 256
        BY <1>1, <1>4, <2>2, <3>1
      <3> QED BY <1>2, <3>1, <3>2
    <2> QED BY <2>1, <2>2
  <1>6. d = c
    BY <1>2, <1>4, <1>5, SeqEqual
  <1> QED BY <1>6 DEF Widen, b, c, d, z

\* What was put in front comes off again.
LEMMA LowWiden ==
  ASSUME NEW b \in Seq(Int), NEW v \in Nat, v >= Len(b), b # << >>
  PROVE  Low(Widen(b, v), Len(b)) = b
  <1> DEFINE z == [i \in 1 .. v - Len(b) |-> 0]
             d == z \o b
             t == SubSeq(d, v - Len(b) + 1, v)
  <1>1. Len(b) \in Nat /\ Len(b) > 0 /\ v - Len(b) \in Nat
    BY EmptySeq
  <1>2. z \in Seq(Int) /\ Len(z) = v - Len(b)
    BY <1>1
  <1> HIDE DEF z
  <1>3. /\ d \in Seq(Int) /\ Len(d) = v
        /\ \A i \in 1 .. v : d[i] = IF i <= v - Len(b) THEN z[i] ELSE b[i - (v - Len(b))]
    <2>1. /\ d \in Seq(Int) /\ Len(d) = Len(z) + Len(b)
          /\ \A i \in 1 .. Len(z) + Len(b) : d[i] = IF i <= Len(z) THEN z[i] ELSE b[i - Len(z)]
      BY <1>2, ConcatProperties
    <2> HIDE DEF d
    <2>2. Len(z) + Len(b) = v
      BY <1>1, <1>2
    <2> QED BY <1>2, <2>1, <2>2
  <1> HIDE DEF d
  <1>4. /\ t \in Seq(Int) /\ Len(t) = Len(b)
        /\ \A i \in 1 .. Len(b) : t[i] = d[v - Len(b) + i]
    <2> DEFINE m == v - Len(b) + 1
    <2>1. m \in Int /\ v \in Int /\ m <= v /\ v - m + 1 = Len(b) /\ m \in 1 .. v
      BY <1>1
    <2>2. \A i \in m .. v : d[i] \in Int
      <3>1. \A i \in m .. v : i \in 1 .. Len(d)
        BY <1>3, <2>1
      <3> QED BY <1>3, <3>1, ElementOfSeq
    <2>3. \A i \in 1 .. Len(b) : m + i - 1 = v - Len(b) + i
      BY <1>1
    <2>4. /\ SubSeq(d, m, v) \in Seq(Int)
          /\ Len(SubSeq(d, m, v)) = IF m <= v THEN v - m + 1 ELSE 0
          /\ \A i \in 1 .. v - m + 1 : SubSeq(d, m, v)[i] = d[m + i - 1]
      <3> HIDE DEF m
      <3> QED BY <2>1, <2>2, SubSeqProperties
    <2> QED BY <2>1, <2>3, <2>4
  <1> HIDE DEF t
  <1>5. ASSUME NEW i \in 1 .. Len(b) PROVE t[i] = b[i]
    <2>1. v - Len(b) + i \in 1 .. v /\ ~(v - Len(b) + i <= v - Len(b))
          /\ (v - Len(b) + i) - (v - Len(b)) = i
      BY <1>1
    <2> QED BY <1>3, <1>4, <2>1
  <1>6. t = b
    BY <1>4, <1>5, SeqEqual
  <1>7. Widen(b, v) = d
    BY DEF Widen, d, z
  <1>8. Low(Widen(b, v), Len(b)) = t
    BY <1>3, <1>7 DEF Low, t
  <1> QED BY <1>6, <1>8

\* Bytes behind bytes.
LEMMA BytesJoin ==
  \A a, b, c \in Seq(Int) : a \o b \in Seq(Int) /\ (a \o b) \o c = a \o (b \o c)
  <1>1. ASSUME NEW a \in Seq(Int), NEW b \in Seq(Int), NEW c \in Seq(Int)
        PROVE  a \o b \in Seq(Int) /\ (a \o b) \o c = a \o (b \o c)
    BY ConcatProperties, ConcatAssociative
  <1> QED BY <1>1

-----------------------------------------------------------------------------
(* The fields of a packet                                                  *)

\* A field taken off the rest of the bytes.
FieldTaken(w, r) ==
  LET n == IF w = Blob THEN Num(Last(r.fields)) ELSE w
  IN  [fields |-> Append(r.fields, SubSeq(r.rest, 1, Min({n, Len(r.rest)}))),
       rest |-> SubSeq(r.rest, n + 1, Len(r.rest)),
       whole |-> r.whole /\ Len(r.rest) >= n]

\* Before the first field.
NoField(bytes) == [fields |-> << >>, rest |-> bytes, whole |-> TRUE]

\* Fields takes one after the other.
LEMMA FieldSteps ==
  ASSUME NEW layout \in Seq(Nat), NEW bytes
  PROVE  \E f : /\ Fields(layout, bytes) = f[Len(layout)] /\ f[0] = NoField(bytes)
                /\ \A i \in 1 .. Len(layout) : f[i] = FieldTaken(layout[i], f[i - 1])
  <1> DEFINE P(n, f) == f = [i \in 0 .. n |-> IF i = 0 THEN NoField(bytes)
                                              ELSE FieldTaken(layout[i], f[i - 1])]
             B == {n \in Nat : \E f : P(n, f)}
             read == CHOOSE f : P(Len(layout), f)
  <1>1. 0 \in B
    <2> DEFINE f == [i \in 0 .. 0 |-> NoField(bytes)]
    <2>1. f = [i \in 0 .. 0 |-> IF i = 0 THEN NoField(bytes) ELSE FieldTaken(layout[i], f[i - 1])]
      OBVIOUS
    <2> QED BY <2>1
  <1>2. ASSUME NEW n \in Nat, n \in B PROVE n + 1 \in B
    <2>1. PICK f : P(n, f)
      BY <1>2
    <2> DEFINE g == [i \in 0 .. n + 1 |-> IF i = n + 1 THEN FieldTaken(layout[n + 1], f[n]) ELSE f[i]]
    <2>2. ASSUME NEW i \in 0 .. n + 1
          PROVE  g[i] = IF i = 0 THEN NoField(bytes) ELSE FieldTaken(layout[i], g[i - 1])
      <3>1. CASE i = n + 1
        <4>1. n \in 0 .. n + 1 /\ n # n + 1 /\ i - 1 = n /\ i # 0
          BY <3>1
        <4>2. g[n] = f[n] /\ g[i] = FieldTaken(layout[n + 1], f[n])
          BY <3>1, <4>1
        <4> HIDE DEF g
        <4> QED BY <3>1, <4>1, <4>2
      <3>2. CASE i # n + 1
        <4>1. i \in 0 .. n
          BY <3>2
        <4>2. f[i] = IF i = 0 THEN NoField(bytes) ELSE FieldTaken(layout[i], f[i - 1])
          BY <2>1, <4>1
        <4>3. i # 0 => i - 1 \in 0 .. n + 1 /\ i - 1 # n + 1
          BY <4>1
        <4> QED BY <3>2, <4>2, <4>3
      <3> QED BY <3>1, <3>2
    <2>3. g = [i \in 0 .. n + 1 |-> g[i]]
      OBVIOUS
    <2>4. P(n + 1, g)
      <3> HIDE DEF g
      <3> QED BY <2>2, <2>3
    <2>5. n + 1 \in Nat /\ \E h : P(n + 1, h)
      <3> HIDE DEF g, P
      <3> QED BY <2>4
    <2> QED BY <2>5
  <1>3. Nat \subseteq B
    <2> HIDE DEF B
    <2> QED BY <1>1, <1>2, Induction
  <1>4. Len(layout) \in Nat
    BY LenProperties
  <1>5. P(Len(layout), read)
    <2>1. \E f : P(Len(layout), f)
      BY <1>3, <1>4
    <2> HIDE DEF P
    <2> QED BY <2>1
  <1>6. Fields(layout, bytes) = read[Len(layout)]
    BY DEF Fields, FieldTaken, NoField
  <1> HIDE DEF read
  <1>7. read[0] = NoField(bytes)
        /\ \A i \in 1 .. Len(layout) : read[i] = FieldTaken(layout[i], read[i - 1])
    <2>1. 0 \in 0 .. Len(layout)
      BY <1>4
    <2>2. ASSUME NEW i \in 1 .. Len(layout) PROVE i \in 0 .. Len(layout) /\ i # 0
      BY <1>4
    <2> QED BY <1>5, <2>1, <2>2
  <1> QED BY <1>6, <1>7

\* The front of two sequences comes off as it is, and leaves the other.
LEMMA FrontTaken ==
  ASSUME NEW a \in Seq(Int), NEW b \in Seq(Int)
  PROVE  /\ Len(a) \in Nat /\ Len(a \o b) >= Len(a)
         /\ SubSeq(a \o b, 1, Min({Len(a), Len(a \o b)})) = a
         /\ SubSeq(a \o b, Len(a) + 1, Len(a \o b)) = b
  <1> DEFINE c == a \o b
  <1>1. /\ c \in Seq(Int) /\ Len(c) = Len(a) + Len(b) /\ Len(a) \in Nat /\ Len(b) \in Nat
        /\ \A i \in 1 .. Len(a) + Len(b) : c[i] = IF i <= Len(a) THEN a[i] ELSE b[i - Len(a)]
    BY ConcatProperties, LenProperties
  <1>2. \A i \in 1 .. Len(c) : c[i] \in Int
    BY <1>1, ElementOfSeq
  <1> HIDE DEF c
  <1>3. Min({Len(a), Len(c)}) = Len(a)
    <2>1. Len(a) <= Len(c) /\ Len(c) \in Int
      BY <1>1
    <2> QED BY <1>1, <2>1 DEF Min
  <1>4. SubSeq(c, 1, Len(a)) = a
    <2> DEFINE t == SubSeq(c, 1, Len(a))
    <2>1. /\ t \in Seq(Int) /\ Len(t) = IF 1 <= Len(a) THEN Len(a) - 1 + 1 ELSE 0
          /\ \A i \in 1 .. Len(a) - 1 + 1 : t[i] = c[1 + i - 1]
      <3>1. 1 \in Int /\ Len(a) \in Int /\ \A i \in 1 .. Len(a) : c[i] \in Int
        BY <1>1, <1>2
      <3> QED BY <3>1, SubSeqProperties
    <2> HIDE DEF t
    <2>2. Len(t) = Len(a)
      BY <1>1, <2>1
    <2>3. ASSUME NEW i \in 1 .. Len(a) PROVE t[i] = a[i]
      <3>1. i \in 1 .. Len(a) - 1 + 1 /\ 1 + i - 1 = i /\ i \in 1 .. Len(a) + Len(b) /\ i <= Len(a)
        BY <1>1
      <3> QED BY <1>1, <2>1, <3>1
    <2>4. t = a
      BY <2>1, <2>2, <2>3, SeqEqual
    <2> QED BY <2>4 DEF t
  <1>5. SubSeq(c, Len(a) + 1, Len(c)) = b
    <2> DEFINE m == Len(a) + 1
               n == Len(c)
               t == SubSeq(c, m, n)
    <2>1. m \in Int /\ n \in Int /\ n - m + 1 = Len(b) /\ (m <= n => Len(b) > 0) /\ (~(m <= n) => Len(b) = 0)
          /\ \A i \in m .. n : i \in 1 .. Len(c)
      BY <1>1
    <2>2. /\ t \in Seq(Int) /\ Len(t) = IF m <= n THEN n - m + 1 ELSE 0
          /\ \A i \in 1 .. n - m + 1 : t[i] = c[m + i - 1]
      <3>1. \A i \in m .. n : c[i] \in Int
        BY <1>2, <2>1
      <3> HIDE DEF m, n
      <3> QED BY <2>1, <3>1, SubSeqProperties
    <2>3. ASSUME NEW i \in 1 .. Len(b) PROVE t[i] = b[i]
      <3>1. m + i - 1 \in 1 .. Len(a) + Len(b) /\ ~(m + i - 1 <= Len(a)) /\ (m + i - 1) - Len(a) = i
        BY <1>1
      <3>2. t[i] = c[m + i - 1]
        <4> HIDE DEF m, n, t
        <4> QED BY <2>1, <2>2
      <3> HIDE DEF t
      <3> QED BY <1>1, <3>1, <3>2
    <2>4. Len(t) = Len(b)
      <3> HIDE DEF m, n, t
      <3> QED BY <1>1, <2>1, <2>2
    <2>5. t = b
      <3> HIDE DEF t
      <3> QED BY <2>2, <2>3, <2>4, SeqEqual
    <2> QED BY <2>5
  <1>6. Len(c) >= Len(a)
    BY <1>1
  <1> QED BY <1>1, <1>3, <1>4, <1>5, <1>6 DEF c

\* Byte strings that fit the fields of a layout.
Fits(layout, fs) ==
  /\ layout \in Seq(Nat) /\ fs \in Seq(Seq(Int)) /\ Len(fs) = Len(layout)
  /\ \A i \in 1 .. Len(layout) :
       IF layout[i] = Blob THEN i > 1 /\ Len(fs[i]) = Num(fs[i - 1]) ELSE Len(fs[i]) = layout[i]

\* The parts of a sequence of fields about one of them.
LEMMA FieldParts ==
  ASSUME NEW S, NEW fs \in Seq(S), NEW k \in 1 .. Len(fs)
  PROVE  /\ SubSeq(fs, 1, k - 1) \in Seq(S) /\ Len(SubSeq(fs, 1, k - 1)) = k - 1
         /\ \A i \in 1 .. k - 1 : SubSeq(fs, 1, k - 1)[i] = fs[i]
         /\ Append(SubSeq(fs, 1, k - 1), fs[k]) = SubSeq(fs, 1, k)
         /\ SubSeq(fs, k + 1, Len(fs)) \in Seq(S)
         /\ SubSeq(fs, k, Len(fs)) = <<fs[k]>> \o SubSeq(fs, k + 1, Len(fs))
  <1>1. Len(fs) \in Nat /\ k \in Nat /\ 1 <= k /\ k <= Len(fs)
    BY LenProperties
  <1> DEFINE p == SubSeq(fs, 1, k - 1)
  <1>2. p \in Seq(S) /\ Len(p) = k - 1 /\ \A i \in 1 .. k - 1 : p[i] = fs[i]
    <2> DEFINE m == k - 1
    <2>1. 1 \in Int /\ m \in Int /\ \A i \in 1 .. m : fs[i] \in S
      <3>1. \A i \in 1 .. m : i \in 1 .. Len(fs)
        BY <1>1
      <3> QED BY <1>1, <3>1, ElementOfSeq
    <2>2. /\ SubSeq(fs, 1, m) \in Seq(S) /\ Len(SubSeq(fs, 1, m)) = IF 1 <= m THEN m - 1 + 1 ELSE 0
          /\ \A i \in 1 .. m - 1 + 1 : SubSeq(fs, 1, m)[i] = fs[1 + i - 1]
      <3> HIDE DEF m
      <3> QED BY <2>1, SubSeqProperties
    <2>3. (IF 1 <= m THEN m - 1 + 1 ELSE 0) = k - 1 /\ m - 1 + 1 = k - 1 /\ \A i \in 1 .. k - 1 : 1 + i - 1 = i
      BY <1>1
    <2> QED BY <2>2, <2>3
  <1>3. SubSeq(fs, 1, k) = p \o <<fs[k]>>
    <2>1. 1 \in 1 .. Len(fs) /\ k \in 1 .. Len(fs)
      BY <1>1
    <2> QED BY <2>1, SubSeqRecursiveSecond
  <1>4. p \o <<fs[k]>> = Append(p, fs[k])
    <2>1. fs[k] \in S
      BY ElementOfSeq
    <2> HIDE DEF p
    <2> QED BY <1>2, <2>1, AppendIsConcat
  <1>5. SubSeq(fs, k + 1, Len(fs)) \in Seq(S)
    <2> DEFINE m == k + 1
               n == Len(fs)
    <2>1. m \in Int /\ n \in Int /\ \A i \in m .. n : fs[i] \in S
      <3>1. \A i \in m .. n : i \in 1 .. Len(fs)
        BY <1>1
      <3> QED BY <1>1, <3>1, ElementOfSeq
    <2>2. SubSeq(fs, m, n) \in Seq(S)
      <3> HIDE DEF m, n
      <3> QED BY <2>1, SubSeqProperties
    <2> QED BY <2>2
  <1>6. SubSeq(fs, k, Len(fs)) = <<fs[k]>> \o SubSeq(fs, k + 1, Len(fs))
    <2>1. Len(fs) \in k .. Len(fs)
      BY <1>1
    <2> QED BY <2>1, SubSeqRecursiveFirst
  <1> QED BY <1>2, <1>3, <1>4, <1>5, <1>6

\* What a packet was made of is what Fields reads, wherever the packet ends.
LEMMA FieldsRead ==
  ASSUME NEW layout, NEW fs, Fits(layout, fs), NEW rest \in Seq(Int)
  PROVE  Fields(layout, FlattenSeq(fs) \o rest) = [fields |-> fs, rest |-> rest, whole |-> TRUE]
  <1> DEFINE n == Len(fs)
             After(k) == FlattenSeq(SubSeq(fs, k + 1, n)) \o rest
             Read(k) == [fields |-> SubSeq(fs, 1, k), rest |-> After(k), whole |-> TRUE]
             bytes == FlattenSeq(fs) \o rest
  <1>1. /\ layout \in Seq(Nat) /\ fs \in Seq(Seq(Int)) /\ Len(layout) = n /\ n \in Nat
        /\ \A i \in 1 .. n :
             IF layout[i] = Blob THEN i > 1 /\ Len(fs[i]) = Num(fs[i - 1]) ELSE Len(fs[i]) = layout[i]
    BY LenProperties DEF Fits
  <1>2. PICK f : /\ Fields(layout, bytes) = f[n] /\ f[0] = NoField(bytes)
                 /\ \A i \in 1 .. n : f[i] = FieldTaken(layout[i], f[i - 1])
    <2> HIDE DEF bytes
    <2>1. \E f : /\ Fields(layout, bytes) = f[Len(layout)] /\ f[0] = NoField(bytes)
                 /\ \A i \in 1 .. Len(layout) : f[i] = FieldTaken(layout[i], f[i - 1])
      <3>1. layout \in Seq(Nat)
        BY <1>1
      <3> QED BY <3>1, FieldSteps
    <2> QED BY <1>1, <2>1
  <1>3. f[0] = Read(0)
    <2>1. SubSeq(fs, 1, n) = fs /\ SubSeq(fs, 1, 0) = << >> /\ 0 + 1 = 1
      BY <1>1, SubSeqFull, SubSeqEmpty
    <2> QED BY <1>2, <2>1 DEF NoField
  <1>4. ASSUME NEW k \in 1 .. n, f[k - 1] = Read(k - 1) PROVE f[k] = Read(k)
    <2> DEFINE a == fs[k]
               b == After(k)
               p == SubSeq(fs, 1, k - 1)
               s == SubSeq(fs, k + 1, n)
               r == f[k - 1]
    <2>1. /\ p \in Seq(Seq(Int)) /\ Len(p) = k - 1 /\ \A i \in 1 .. k - 1 : p[i] = fs[i]
          /\ Append(p, fs[k]) = SubSeq(fs, 1, k)
          /\ s \in Seq(Seq(Int)) /\ SubSeq(fs, k, n) = <<fs[k]>> \o s
      BY <1>1, FieldParts
    <2>2. a \in Seq(Int) /\ k \in Nat /\ k >= 1 /\ (k - 1) + 1 = k
      BY <1>1, ElementOfSeq
    <2>3. b \in Seq(Int) /\ After(k - 1) = a \o b
      <3> DEFINE t == FlattenSeq(s)
      <3>1. FlattenSeq(<<a>> \o s) = a \o t
        <4> HIDE DEF a, s
        <4> QED BY <2>1, <2>2, FlattenFront DEF s
      <3>2. t \in Seq(Int)
        <4>1. << >> \in Seq(Int)
          BY EmptySeq
        <4> HIDE DEF s
        <4> QED BY <2>1, <4>1, FlattenAppend DEF s
      <3> DEFINE c == After(k - 1)
      <3>3. c = (a \o t) \o rest
        BY <2>1, <2>2, <3>1
      <3>4. b = t \o rest
        OBVIOUS
      <3> HIDE DEF t, a, b, c
      <3>5. t \o rest \in Seq(Int) /\ (a \o t) \o rest = a \o (t \o rest)
        BY <2>2, <3>2, BytesJoin
      <3>6. b \in Seq(Int) /\ c = a \o b
        BY <3>3, <3>4, <3>5
      <3> QED BY <3>6 DEF c
    <2>4. r.fields = p /\ r.rest = a \o b /\ r.whole = TRUE
      <3>1. r.fields = p /\ r.rest = After(k - 1) /\ r.whole = TRUE
        <4>1. r = [fields |-> p, rest |-> After(k - 1), whole |-> TRUE]
          BY <1>4
        <4> HIDE DEF r, p, After
        <4> QED BY <4>1
      <3> HIDE DEF r, p, After, a, b
      <3> QED BY <2>3, <3>1
    <2>5. (IF layout[k] = Blob THEN Num(Last(r.fields)) ELSE layout[k]) = Len(a)
      <3>1. CASE layout[k] = Blob
        <4>1. k > 1 /\ Len(a) = Num(fs[k - 1])
          BY <1>1, <3>1
        <4>2. Last(p) = fs[k - 1]
          <5>1. k - 1 \in 1 .. k - 1
            BY <2>2, <4>1
          <5> QED BY <2>1, <5>1 DEF Last
        <4> QED BY <2>4, <3>1, <4>1, <4>2
      <3>2. CASE layout[k] # Blob
        BY <1>1, <3>2
      <3> QED BY <3>1, <3>2
    <2>6. /\ Len(a) \in Nat /\ Len(a \o b) >= Len(a)
          /\ SubSeq(a \o b, 1, Min({Len(a), Len(a \o b)})) = a
          /\ SubSeq(a \o b, Len(a) + 1, Len(a \o b)) = b
      <3> HIDE DEF a, b
      <3> QED BY <2>2, <2>3, FrontTaken
    <2>7. FieldTaken(layout[k], r) = [fields |-> Append(p, a), rest |-> b, whole |-> TRUE]
      <3> HIDE DEF a, b, p, r
      <3> QED BY <2>4, <2>5, <2>6 DEF FieldTaken
    <2>8. f[k] = FieldTaken(layout[k], r)
      BY <1>2
    <2> QED BY <2>1, <2>7, <2>8
  <1> DEFINE B == {k \in Nat : f[k] = Read(k)}
  <1>5. 0 .. n \subseteq B
    <2>1. 0 \in B
      BY <1>3
    <2>2. ASSUME NEW k \in 1 .. n, k - 1 \in B PROVE k \in B
      <3>1. f[k - 1] = Read(k - 1)
        BY <2>2
      <3>2. f[k] = Read(k)
        BY <1>4, <3>1
      <3>3. k \in Nat
        OBVIOUS
      <3> QED BY <3>2, <3>3
    <2> HIDE DEF B
    <2> QED BY <1>1, <2>1, <2>2, UpTo
  <1>6. f[n] = Read(n)
    <2>1. n \in 0 .. n
      BY <1>1
    <2>2. n \in B
      <3> HIDE DEF B
      <3> QED BY <1>5, <2>1
    <2> QED BY <2>2
  <1>7. SubSeq(fs, 1, n) = fs /\ After(n) = rest
    <2>1. SubSeq(fs, 1, n) = fs /\ SubSeq(fs, n + 1, n) = << >>
      BY <1>1, SubSeqFull, SubSeqEmpty
    <2> QED BY <2>1, FlattenNone, ConcatOf, EmptySeq
  <1> QED BY <1>2, <1>6, <1>7

\* A layout in which a number that can be read stands before bytes it counts.
Counted(layout) ==
  /\ layout \in Seq(Nat)
  /\ \A i \in 1 .. Len(layout) : layout[i] = Blob => i > 1 /\ layout[i - 1] \in {1, 2, 4}

\* Values that fill a layout fit it as bytes.
LEMMA FilledFits ==
  ASSUME NEW layout, Counted(layout), NEW v, Fill(layout, v)
  PROVE  Fits(layout, InBytes(layout, v))
  <1> DEFINE fs == InBytes(layout, v)
             n == Len(layout)
  <1>1. /\ layout \in Seq(Nat) /\ n \in Nat /\ DOMAIN layout = 1 .. n
        /\ \A i \in 1 .. n : layout[i] \in Nat
        /\ \A i \in 1 .. n : layout[i] = Blob => i > 1 /\ layout[i - 1] \in {1, 2, 4}
    BY LenProperties, ElementOfSeq DEF Counted
  <1>2. \A i \in 1 .. n :
          IF layout[i] = Blob
          THEN v[i] \in Seq(Int) /\ Len(v[i]) = v[i - 1] /\ Unsigned(v[i - 1], layout[i - 1])
          ELSE v[i] \in Int
    BY <1>1 DEF Fill
  <1>3. fs = [i \in 1 .. n |-> IF layout[i] = Blob THEN v[i] ELSE BE(v[i], layout[i])]
    BY <1>1 DEF InBytes
  <1> HIDE DEF fs, n
  <1>4. ASSUME NEW i \in 1 .. n
        PROVE  /\ fs[i] \in Seq(Int)
               /\ IF layout[i] = Blob THEN Len(fs[i]) = Num(fs[i - 1]) ELSE Len(fs[i]) = layout[i]
    <2>1. CASE layout[i] = Blob
      <3>1. /\ i > 1 /\ layout[i - 1] \in {1, 2, 4} /\ fs[i] = v[i] /\ v[i] \in Seq(Int)
            /\ Len(v[i]) = v[i - 1] /\ Unsigned(v[i - 1], layout[i - 1])
        BY <1>1, <1>2, <1>3, <2>1
      <3>2. i - 1 \in 1 .. n /\ layout[i - 1] # Blob
        BY <1>1, <3>1 DEF Blob
      <3>3. fs[i - 1] = BE(v[i - 1], layout[i - 1])
        BY <1>3, <3>2
      <3> DEFINE m == v[i - 1]
                 w == layout[i - 1]
      <3>4. Num(BE(m, w)) = m
        <4>1. m \in Int /\ w \in {1, 2, 4} /\ Unsigned(m, w)
          BY <3>1 DEF Unsigned
        <4> HIDE DEF m, w
        <4> QED BY <4>1, NumBE
      <3> QED BY <2>1, <3>1, <3>3, <3>4
    <2>2. CASE layout[i] # Blob
      <3>1. fs[i] = BE(v[i], layout[i]) /\ v[i] \in Int /\ layout[i] \in Nat
        BY <1>1, <1>2, <1>3, <2>2
      <3> DEFINE m == v[i]
                 w == layout[i]
      <3>2. BE(m, w) \in Seq(Int) /\ Len(BE(m, w)) = w
        <4>1. m \in Int /\ w \in Nat
          BY <3>1
        <4> HIDE DEF m, w
        <4> QED BY <4>1, BEIs
      <3> QED BY <2>2, <3>1, <3>2
    <2> QED BY <2>1, <2>2
  <1>5. fs \in Seq(Seq(Int)) /\ Len(fs) = n
    BY <1>1, <1>3, <1>4
  <1> QED BY <1>1, <1>4, <1>5 DEF Fits, fs, n

-----------------------------------------------------------------------------
(* Packets, type by type                                                   *)

\* All there are.
EventTypes == {"key", "mouse", "touch", "scroll", "get", "set", "rotate", "create", "input", "destroy"}

\* A code has one type.
LEMMA TypesOf ==
  /\ DOMAIN Code = EventTypes
  /\ \A t \in EventTypes : Code[t] \in Nat /\ Types(Code[t]) = {t}
  <1>1. DOMAIN Code = EventTypes
    BY DEF Code, EventTypes
  <1>2. \A t, u \in EventTypes : Code[t] \in Nat /\ (Code[t] = Code[u] => t = u)
    BY DEF Code, EventTypes
  <1> QED BY <1>1, <1>2 DEF Types

\* The layouts of the page.
LEMMA PageCounted ==
  ASSUME NEW t \in EventTypes
  PROVE  Counted(PageLayout[t])
  <1>1. CASE t = "key"
    <2>1. PageLayout[t] = createKeyPacket
      BY <1>1 DEF PageLayout
    <2>2. Counted(createKeyPacket)
      BY SMT DEF Counted, createKeyPacket, Blob
    <2> QED BY <2>1, <2>2
  <1>2. CASE t = "mouse"
    <2>1. PageLayout[t] = createMousePacket
      BY <1>2 DEF PageLayout
    <2>2. Counted(createMousePacket)
      BY SMT DEF Counted, createMousePacket, Blob
    <2> QED BY <2>1, <2>2
  <1>3. CASE t = "touch"
    <2>1. PageLayout[t] = createTouchPacket
      BY <1>3 DEF PageLayout
    <2>2. Counted(createTouchPacket)
      BY SMT DEF Counted, createTouchPacket, Blob
    <2> QED BY <2>1, <2>2
  <1>4. CASE t = "scroll"
    <2>1. PageLayout[t] = createScrollPacket
      BY <1>4 DEF PageLayout
    <2>2. Counted(createScrollPacket)
      BY SMT DEF Counted, createScrollPacket, Blob
    <2> QED BY <2>1, <2>2
  <1>5. CASE t = "set"
    <2>1. PageLayout[t] = setClipboard
      BY <1>5 DEF PageLayout
    <2>2. Counted(setClipboard)
      BY SMT DEF Counted, setClipboard, Blob
    <2> QED BY <2>1, <2>2
  <1>6. CASE t = "get"
    <2>1. PageLayout[t] = getClipboard
      BY <1>6 DEF PageLayout
    <2>2. Counted(getClipboard)
      BY SMT DEF Counted, getClipboard, Blob
    <2> QED BY <2>1, <2>2
  <1>7. CASE t = "rotate"
    <2>1. PageLayout[t] = createRotatePacket
      BY <1>7 DEF PageLayout
    <2>2. Counted(createRotatePacket)
      BY SMT DEF Counted, createRotatePacket, Blob
    <2> QED BY <2>1, <2>2
  <1>8. CASE t = "create"
    <2>1. PageLayout[t] = createUHIDCreatePacket
      BY <1>8 DEF PageLayout
    <2>2. Counted(createUHIDCreatePacket)
      BY SMT DEF Counted, createUHIDCreatePacket, Blob
    <2> QED BY <2>1, <2>2
  <1>9. CASE t = "input"
    <2>1. PageLayout[t] = createUHIDInputPacket
      BY <1>9 DEF PageLayout
    <2>2. Counted(createUHIDInputPacket)
      BY SMT DEF Counted, createUHIDInputPacket, Blob
    <2> QED BY <2>1, <2>2
  <1>10. CASE t = "destroy"
    <2>1. PageLayout[t] = createUHIDDestroyPacket
      BY <1>10 DEF PageLayout
    <2>2. Counted(createUHIDDestroyPacket)
      BY SMT DEF Counted, createUHIDDestroyPacket, Blob
    <2> QED BY <2>1, <2>2
  <1> QED BY <1>1, <1>2, <1>3, <1>4, <1>5, <1>6, <1>7, <1>8, <1>9, <1>10 DEF EventTypes

\* A type in front of its fields.
LEMMA TypeInFront ==
  ASSUME NEW x \in Int, NEW b \in Seq(Int)
  PROVE  /\ <<x>> \o b \in Seq(Int) /\ <<x>> \o b # << >>
         /\ (<<x>> \o b)[1] = x /\ Tail(<<x>> \o b) = b
  <1> DEFINE c == <<x>> \o b
  <1>1. /\ c \in Seq(Int) /\ Len(c) = Len(b) + 1 /\ Len(b) \in Nat /\ c[1] = x
        /\ \A i \in 1 .. Len(b) : c[i + 1] = b[i]
    BY InFrontOf, LenProperties
  <1> HIDE DEF c
  <1>2. c # << >>
    BY <1>1
  <1>3. Tail(c) \in Seq(Int) /\ Len(Tail(c)) = Len(c) - 1 /\ \A i \in 1 .. Len(Tail(c)) : Tail(c)[i] = c[i + 1]
    BY <1>1, <1>2, HeadTailProperties
  <1>4. Tail(c) = b
    <2> DEFINE t == Tail(c)
    <2>1. t \in Seq(Int) /\ Len(t) = Len(b) /\ \A i \in 1 .. Len(t) : t[i] = b[i]
      BY <1>1, <1>3
    <2> HIDE DEF t
    <2>2. t = b
      BY <2>1, SeqEqual
    <2> QED BY <2>2 DEF t
  <1> QED BY <1>1, <1>2, <1>4 DEF c

\* All of the fields, and no byte behind them.
LEMMA AllFields ==
  ASSUME NEW layout, NEW fs, Fits(layout, fs)
  PROVE  /\ FlattenSeq(fs) \in Seq(Int)
         /\ Fields(layout, FlattenSeq(fs)) = [fields |-> fs, rest |-> << >>, whole |-> TRUE]
  <1>1. << >> \in Seq(Int) /\ fs \in Seq(Seq(Int))
    BY EmptySeq DEF Fits
  <1>2. FlattenSeq(fs) \in Seq(Int)
    BY <1>1, FlattenAppend
  <1>3. FlattenSeq(fs) \o << >> = FlattenSeq(fs)
    BY <1>1, <1>2, ConcatOf
  <1>4. Fields(layout, FlattenSeq(fs) \o << >>) = [fields |-> fs, rest |-> << >>, whole |-> TRUE]
    BY <1>1, FieldsRead
  <1> QED BY <1>2, <1>3, <1>4

\* What parseEvent makes of a packet of the page.
LEMMA Parsed ==
  ASSUME NEW e, e.type \in EventTypes, Fill(PageLayout[e.type], e.values), NEW size
  PROVE  ParseEvent(PagePacket(e), size) =
           {[type |-> e.type,
             fields |-> EventFields(e.type, InBytes(PageLayout[e.type], e.values), size)]}
  <1> DEFINE t == e.type
             fs == InBytes(PageLayout[t], e.values)
             b == FlattenSeq(fs)
             raw == <<Code[t]>> \o b
             Read(u) == LET r == Fields(PageLayout[u], Tail(raw))
                        IN  IF r.whole /\ (u \in Exact => r.rest = << >>)
                            THEN {[type |-> u, fields |-> EventFields(u, r.fields, size)]} ELSE {}
  <1>1. Fits(PageLayout[t], fs)
    BY PageCounted, FilledFits
  <1>2. b \in Seq(Int) /\ Fields(PageLayout[t], b) = [fields |-> fs, rest |-> << >>, whole |-> TRUE]
    <2> HIDE DEF fs, t
    <2> QED BY <1>1, AllFields
  <1>3. Code[t] \in Int /\ Types(Code[t]) = {t}
    BY TypesOf
  <1>4. raw[1] = Code[t] /\ Tail(raw) = b
    <2> DEFINE x == Code[t]
    <2> HIDE DEF b, x, t
    <2> QED BY <1>2, <1>3, TypeInFront DEF x
  <1>5. PagePacket(e) = raw
    BY DEF PagePacket
  <1>6. ParseEvent(raw, size) = UNION {Read(u) : u \in Types(raw[1])}
    BY DEF ParseEvent
  <1> HIDE DEF raw, b, fs, t
  <1>7. ParseEvent(raw, size) = Read(t)
    <2> HIDE DEF Read
    <2> QED BY <1>3, <1>4, <1>6
  <1>8. Read(t) = {[type |-> t, fields |-> EventFields(t, fs, size)]}
    <2> DEFINE r == Fields(PageLayout[t], Tail(raw))
    <2>1. r = [fields |-> fs, rest |-> << >>, whole |-> TRUE]
      BY <1>2, <1>4
    <2>2. Read(t) = IF r.whole /\ (t \in Exact => r.rest = << >>)
                    THEN {[type |-> t, fields |-> EventFields(t, r.fields, size)]} ELSE {}
      OBVIOUS
    <2>3. r.fields = fs /\ r.rest = << >> /\ r.whole = TRUE
      <3> HIDE DEF r
      <3> QED BY <2>1
    <2> HIDE DEF r, Read
    <2> QED BY <2>2, <2>3
  <1> QED BY <1>5, <1>7, <1>8 DEF t, fs

\* The fields of a packet of four or seven behind each other.
LEMMA Flattened ==
  ASSUME NEW S, NEW s \in Seq(Seq(S))
  PROVE  /\ Len(s) = 4 => FlattenSeq(s) = s[1] \o s[2] \o s[3] \o s[4]
         /\ Len(s) = 7 =>
              FlattenSeq(s) = s[1] \o s[2] \o s[3] \o s[4] \o s[5] \o s[6] \o s[7]
  <1> DEFINE Cat(a, b) == a \o b
             n == Len(s)
  <1>1. ASSUME n >= 4, n \in Nat
        PROVE  \E f : /\ FlattenSeq(s) = f[n] /\ f[1] = s[1]
                      /\ \A i \in 2 .. n : f[i] = Cat(f[i - 1], s[i])
    <2>1. s # << >>
      BY <1>1, EmptySeq
    <2>2. PICK f : /\ FlattenSeq(s) = f[Len(s)] /\ Len(s) \in Nat \ {0}
                   /\ f[1] = s[1]
                   /\ \A i \in 2 .. Len(s) : f[i] = f[i - 1] \o s[i]
                   /\ \A i \in 1 .. Len(s) : f[i] \in Seq(S)
      BY <2>1, FlattenJoins
    <2> QED BY <2>2
  <1> HIDE DEF Cat, n
  <1>2. CASE n = 4
    <2>1. PICK f : /\ FlattenSeq(s) = f[n] /\ f[1] = s[1]
                   /\ \A i \in 2 .. n : f[i] = Cat(f[i - 1], s[i])
      BY <1>1, <1>2
    <2>2. f[2] = Cat(f[1], s[2]) /\ f[3] = Cat(f[2], s[3]) /\ f[4] = Cat(f[3], s[4])
      <3>1. \A i \in 2 .. 4 : f[i] = Cat(f[i - 1], s[i])
        BY <1>2, <2>1
      <3>2. f[2] = Cat(f[2 - 1], s[2]) /\ f[3] = Cat(f[3 - 1], s[3]) /\ f[4] = Cat(f[4 - 1], s[4])
        BY <3>1
      <3> QED BY <3>2
    <2>3. FlattenSeq(s) = Cat(Cat(Cat(s[1], s[2]), s[3]), s[4])
      BY <1>2, <2>1, <2>2
    <2> QED BY <1>2, <2>3 DEF Cat, n
  <1>3. CASE n = 7
    <2>1. PICK f : /\ FlattenSeq(s) = f[n] /\ f[1] = s[1]
                   /\ \A i \in 2 .. n : f[i] = Cat(f[i - 1], s[i])
      BY <1>1, <1>3
    <2>2. /\ f[2] = Cat(f[1], s[2]) /\ f[3] = Cat(f[2], s[3]) /\ f[4] = Cat(f[3], s[4])
          /\ f[5] = Cat(f[4], s[5]) /\ f[6] = Cat(f[5], s[6]) /\ f[7] = Cat(f[6], s[7])
      <3>1. \A i \in 2 .. 7 : f[i] = Cat(f[i - 1], s[i])
        BY <1>3, <2>1
      <3>2. /\ f[2] = Cat(f[2 - 1], s[2]) /\ f[3] = Cat(f[3 - 1], s[3])
            /\ f[4] = Cat(f[4 - 1], s[4]) /\ f[5] = Cat(f[5 - 1], s[5])
            /\ f[6] = Cat(f[6 - 1], s[6]) /\ f[7] = Cat(f[7 - 1], s[7])
        BY <3>1
      <3> QED BY <3>2
    <2>3. FlattenSeq(s) = Cat(Cat(Cat(Cat(Cat(Cat(s[1], s[2]), s[3]), s[4]), s[5]), s[6]), s[7])
      BY <1>3, <2>1, <2>2
    <2> QED BY <1>3, <2>3 DEF Cat, n
  <1> QED BY <1>2, <1>3 DEF n

-----------------------------------------------------------------------------
(* What becomes of an event                                                *)

\* The bytes the device has to get for an event.
Wanted(e) == <<Code[e.type]>> \o FlattenSeq(Meant(e).fields)

\* An event becomes one packet, and the device knows how to read it.
Delivers(e) ==
  /\ {Packet(p) : p \in ParseEvent(PagePacket(e), Size)} = {Wanted(e)}
  /\ e.type \in DOMAIN Layouts /\ e.type \in EventTypes /\ Meant(e).type = e.type
  /\ Fits(Layouts[e.type], Meant(e).fields)

\* The packet of the driver is what the device has to get.
Sends(e, f) == Packet([type |-> e.type, fields |-> f]) = Wanted(e)

\* An event the agent parses as one, that the driver sends as it should, arrives.
LEMMA Delivered ==
  ASSUME NEW e, e.type \in EventTypes, Fill(PageLayout[e.type], e.values),
         Sends(e, EventFields(e.type, InBytes(PageLayout[e.type], e.values), Size)),
         e.type \in DOMAIN Layouts, Meant(e).type = e.type, Fits(Layouts[e.type], Meant(e).fields)
  PROVE  Delivers(e)
  <1> DEFINE p == [type |-> e.type,
                   fields |-> EventFields(e.type, InBytes(PageLayout[e.type], e.values), Size)]
  <1>1. ParseEvent(PagePacket(e), Size) = {p}
    BY Parsed
  <1>2. Packet(p) = Wanted(e)
    BY DEF Sends
  <1> HIDE DEF p
  <1> QED BY <1>1, <1>2 DEF Delivers

\* The values that fill a key packet of the page, and their bytes.
LEMMA KeyFilled ==
  ASSUME NEW v, Fill(createKeyPacket, v)
  PROVE  v[1] \in Int /\ v[2] \in Int /\ InBytes(createKeyPacket, v) = <<BE(v[1], 1), BE(v[2], 2)>>
  BY SMT DEF Fill, createKeyPacket, InBytes, Blob

\* The values of a touch packet, and their bytes.
LEMMA TouchFilled ==
  ASSUME NEW v, Fill(createTouchPacket, v)
  PROVE  /\ v[1] \in Int /\ v[2] \in Int /\ v[3] \in Int /\ v[4] \in Int /\ v[5] \in Int /\ v[6] \in Int
         /\ InBytes(createTouchPacket, v) =
              <<BE(v[1], 1), BE(v[2], 1), BE(v[3], 2), BE(v[4], 2), BE(v[5], 2), BE(v[6], 1)>>
  <1>1. v[1] \in Int /\ v[2] \in Int /\ v[3] \in Int /\ v[4] \in Int /\ v[5] \in Int /\ v[6] \in Int
    BY SMT DEF Fill, createTouchPacket, Blob
  <1>2. InBytes(createTouchPacket, v) =
              <<BE(v[1], 1), BE(v[2], 1), BE(v[3], 2), BE(v[4], 2), BE(v[5], 2), BE(v[6], 1)>>
    BY SMT DEF createTouchPacket, InBytes, Blob
  <1> QED BY <1>1, <1>2

\* The values of a wheel packet, and their bytes.
LEMMA ScrollFilled ==
  ASSUME NEW v, Fill(createScrollPacket, v)
  PROVE  /\ v[1] \in Int /\ v[2] \in Int /\ v[3] \in Int /\ v[4] \in Int /\ v[5] \in Int
         /\ InBytes(createScrollPacket, v) =
              <<BE(v[1], 2), BE(v[2], 2), BE(v[3], 2), BE(v[4], 2), BE(v[5], 1)>>
  <1>1. v[1] \in Int /\ v[2] \in Int /\ v[3] \in Int /\ v[4] \in Int /\ v[5] \in Int
    BY SMT DEF Fill, createScrollPacket, Blob
  <1>2. InBytes(createScrollPacket, v) =
              <<BE(v[1], 2), BE(v[2], 2), BE(v[3], 2), BE(v[4], 2), BE(v[5], 1)>>
    BY SMT DEF createScrollPacket, InBytes, Blob
  <1> QED BY <1>1, <1>2

\* The values of a clipboard packet, and their bytes.
LEMMA SetFilled ==
  ASSUME NEW v, Fill(setClipboard, v)
  PROVE  /\ v[1] \in Int /\ v[2] \in Int /\ v[3] \in Int /\ v[4] \in Seq(Int) /\ Len(v[4]) = v[3]
         /\ Unsigned(v[3], 4)
         /\ InBytes(setClipboard, v) = <<BE(v[1], 8), BE(v[2], 1), BE(v[3], 4), v[4]>>
  <1>1. /\ v[1] \in Int /\ v[2] \in Int /\ v[3] \in Int /\ v[4] \in Seq(Int) /\ Len(v[4]) = v[3]
        /\ Unsigned(v[3], 4)
    BY SMT DEF Fill, setClipboard, Blob
  <1>2. InBytes(setClipboard, v) = <<BE(v[1], 8), BE(v[2], 1), BE(v[3], 4), v[4]>>
    BY SMT DEF setClipboard, InBytes, Blob
  <1> QED BY <1>1, <1>2

\* The values of a virtual device packet, and their bytes.
LEMMA CreateFilled ==
  ASSUME NEW v, Fill(createUHIDCreatePacket, v)
  PROVE  /\ v[1] \in Int /\ v[2] \in Int /\ v[3] \in Int /\ v[4] \in Int /\ v[6] \in Int
         /\ v[5] \in Seq(Int) /\ Len(v[5]) = v[4] /\ v[7] \in Seq(Int) /\ Len(v[7]) = v[6]
         /\ Unsigned(v[6], 2)
         /\ InBytes(createUHIDCreatePacket, v) =
              <<BE(v[1], 2), BE(v[2], 2), BE(v[3], 2), BE(v[4], 1), v[5], BE(v[6], 2), v[7]>>
  <1>1. /\ v[1] \in Int /\ v[2] \in Int /\ v[3] \in Int /\ v[4] \in Int /\ v[6] \in Int
        /\ v[5] \in Seq(Int) /\ Len(v[5]) = v[4] /\ v[7] \in Seq(Int) /\ Len(v[7]) = v[6]
        /\ Unsigned(v[6], 2)
    BY SMT DEF Fill, createUHIDCreatePacket, Blob
  <1>2. InBytes(createUHIDCreatePacket, v) =
              <<BE(v[1], 2), BE(v[2], 2), BE(v[3], 2), BE(v[4], 1), v[5], BE(v[6], 2), v[7]>>
    BY SMT DEF createUHIDCreatePacket, InBytes, Blob
  <1> QED BY <1>1, <1>2

\* A key press of a Linux session.
LEMMA LinuxKey ==
  ASSUME target \in {"x11", "wayland"}, NEW e, e.type = "key", Fill(createKeyPacket, e.values),
         Unsigned(e.values[2], 2)
  PROVE  /\ Delivers(e)
         /\ Meant(e) = [type |-> "key", fields |-> <<BE(e.values[1], 1), BE(e.values[2], 4)>>]
  <1> DEFINE v == e.values
             f == <<BE(v[1], 1), BE(v[2], 4)>>
  <1>1. /\ v[1] \in Int /\ v[2] \in Int
        /\ InBytes(createKeyPacket, v) = <<BE(v[1], 1), BE(v[2], 2)>>
    BY KeyFilled
  <1>2. target # "android" /\ Layouts = RecorderLayout /\ "key" \in DOMAIN RecorderLayout
        /\ RecorderLayout["key"] = <<1, 4>>
    BY DEF Layouts, RecorderLayout
  <1>3. InBytes(<<1, 4>>, v) = f
    BY SMT DEF InBytes, Blob
  <1>4. Meant(e) = [type |-> "key", fields |-> f]
    <2>1. Meant(e) = [type |-> "key", fields |-> InBytes(Layouts["key"], v)]
      <3> HIDE DEF f
      <3> QED BY <1>2 DEF Meant
    <2> QED BY <1>2, <1>3, <2>1
  <1>5. Fits(<<1, 4>>, f)
    <2>1. Counted(<<1, 4>>)
      BY SMT DEF Counted, Blob
    <2>2. Fill(<<1, 4>>, v)
      <3>1. Fill(<<1, 2>>, v)
        BY DEF createKeyPacket
      <3> QED BY SMT, <1>1, <3>1 DEF Fill, Blob
    <2> QED BY <1>3, <2>1, <2>2, FilledFits
  <1>6. EventFields("key", InBytes(createKeyPacket, v), Size) = f
    <2>1. Widen(BE(v[2], 2), 4) = BE(v[2], 4)
      <3> DEFINE n == v[2]
      <3> HIDE DEF n
      <3>1. n \in Int /\ Unsigned(n, 2)
        BY <1>1 DEF n
      <3>2. Widen(BE(n, 2), 4) = BE(n, 4)
        BY <3>1, WidenBE
      <3> QED BY <3>2 DEF n
    <2> QED BY <1>1, <2>1 DEF EventFields, parseKeyEvent
  <1>7. Sends(e, f)
    <2>1. Packet([type |-> e.type, fields |-> f]) = <<0>> \o FlattenSeq(f)
      <3> HIDE DEF f
      <3> QED BY <1>2 DEF Packet, LinuxPacket
    <2>2. Wanted(e) = <<0>> \o FlattenSeq(f)
      <3> HIDE DEF f
      <3> QED BY <1>4 DEF Wanted, Code
    <2> QED BY <2>1, <2>2 DEF Sends
  <1>8. PageLayout["key"] = createKeyPacket /\ "key" \in EventTypes
    BY DEF PageLayout, EventTypes
  <1> HIDE DEF f
  <1>9. Delivers(e)
    <2>1. /\ e.type \in EventTypes /\ Fill(PageLayout[e.type], v) /\ e.type \in DOMAIN Layouts
          /\ Meant(e).type = e.type /\ Fits(Layouts[e.type], Meant(e).fields)
          /\ Sends(e, EventFields(e.type, InBytes(PageLayout[e.type], v), Size))
      BY <1>2, <1>4, <1>5, <1>6, <1>7, <1>8
    <2> QED BY <2>1, Delivered
  <1> QED BY <1>4, <1>9 DEF f

\* A packet of the mouse.
LEMMA LinuxMouse ==
  ASSUME target \in {"x11", "wayland"}, NEW e, e.type = "mouse", Fill(createMousePacket, e.values)
  PROVE  Delivers(e)
  <1> DEFINE v == e.values
             f == InBytes(createMousePacket, v)
  <1>1. target # "android" /\ Layouts = RecorderLayout /\ "mouse" \in DOMAIN RecorderLayout
        /\ RecorderLayout["mouse"] = createMousePacket
    BY DEF Layouts, RecorderLayout, createMousePacket
  <1>2. Meant(e) = [type |-> "mouse", fields |-> f]
    BY <1>1 DEF Meant
  <1>3. PageLayout["mouse"] = createMousePacket /\ "mouse" \in EventTypes
    BY DEF PageLayout, EventTypes
  <1>4. Fits(createMousePacket, f)
    BY <1>3, PageCounted, FilledFits
  <1> HIDE DEF f
  <1>5. EventFields("mouse", f, Size) = f
    BY DEF EventFields, parseMouseEvent
  <1>6. Sends(e, f)
    <2>1. Packet([type |-> e.type, fields |-> f]) = <<1>> \o FlattenSeq(f)
      BY <1>1 DEF Packet, LinuxPacket
    <2>2. Wanted(e) = <<1>> \o FlattenSeq(f)
      BY <1>2 DEF Wanted, Code
    <2> QED BY <2>1, <2>2 DEF Sends
  <1>7. /\ e.type \in EventTypes /\ Fill(PageLayout[e.type], v) /\ e.type \in DOMAIN Layouts
        /\ Meant(e).type = e.type /\ Fits(Layouts[e.type], Meant(e).fields)
        /\ Sends(e, EventFields(e.type, InBytes(PageLayout[e.type], v), Size))
    BY <1>1, <1>2, <1>3, <1>4, <1>5, <1>6 DEF f
  <1> QED BY <1>7, Delivered

\* Touch fields that were widened are cut again.
LEMMA LinuxTouch ==
  ASSUME target \in {"x11", "wayland"}, NEW e, e.type = "touch", Fill(createTouchPacket, e.values)
  PROVE  Delivers(e)
  <1> DEFINE v == e.values
             f == InBytes(createTouchPacket, v)
             F1 == BE(v[1], 1)
             F2 == BE(v[2], 1)
             F3 == BE(v[3], 2)
             F4 == BE(v[4], 2)
             F5 == BE(v[5], 2)
             F6 == BE(v[6], 1)
             g == <<F1, Widen(F2, 8), Widen(F3, 4), Widen(F4, 4), BE(1920, 2), BE(1080, 2), F5, Widen(F6, 4)>>
  <1>1. target # "android" /\ Layouts = RecorderLayout /\ "touch" \in DOMAIN RecorderLayout
        /\ RecorderLayout["touch"] = createTouchPacket
    BY DEF Layouts, RecorderLayout, createTouchPacket
  <1>2. Meant(e) = [type |-> "touch", fields |-> f]
    BY <1>1 DEF Meant
  <1>3. PageLayout["touch"] = createTouchPacket /\ "touch" \in EventTypes
    BY DEF PageLayout, EventTypes
  <1>4. Fits(createTouchPacket, f)
    BY <1>3, PageCounted, FilledFits
  <1>5. f = <<F1, F2, F3, F4, F5, F6>> /\ v[1] \in Int /\ v[2] \in Int /\ v[3] \in Int
        /\ v[4] \in Int /\ v[5] \in Int /\ v[6] \in Int
    BY TouchFilled
  <1>6. /\ F1 \in Seq(Int) /\ F5 \in Seq(Int)
        /\ F2 \in Seq(Int) /\ Len(F2) = 1 /\ F3 \in Seq(Int) /\ Len(F3) = 2
        /\ F4 \in Seq(Int) /\ Len(F4) = 2 /\ F6 \in Seq(Int) /\ Len(F6) = 1
    <2>1. ASSUME NEW n \in Int, NEW w \in Nat PROVE BE(n, w) \in Seq(Int) /\ Len(BE(n, w)) = w
      BY BEIs
    <2> QED BY <1>5, <2>1
  <1> HIDE DEF f, v, F1, F2, F3, F4, F5, F6
  <1>7. EventFields("touch", f, Size) = g
    <2>1. Size = <<BE(1920, 2), BE(1080, 2)>>
      BY <1>1 DEF Size
    <2> DEFINE A == BE(1920, 2)
               B == BE(1080, 2)
    <2> HIDE DEF A, B
    <2>2. /\ f[1] = F1 /\ f[2] = F2 /\ f[3] = F3 /\ f[4] = F4 /\ f[5] = F5 /\ f[6] = F6
      BY <1>5
    <2>3. parseTouchEvent(f, <<A, B>>)
            = <<F1, Widen(F2, 8), Widen(F3, 4), Widen(F4, 4), A, B, F5, Widen(F6, 4)>>
      BY <2>2, <<A, B>>[1] = A, <<A, B>>[2] = B DEF parseTouchEvent
    <2> QED BY <2>1, <2>3 DEF EventFields, A, B
  <1>8. Sends(e, g)
    <2>1. ASSUME NEW b \in Seq(Int), NEW k \in {1, 2}, Len(b) = k, NEW w \in {4, 8}
          PROVE  Low(Widen(b, w), k) = b
      BY <2>1, LowWiden, EmptySeq
    <2>2. Low(Widen(F2, 8), 1) = F2 /\ Low(Widen(F3, 4), 2) = F3 /\ Low(Widen(F4, 4), 2) = F4
          /\ Low(Widen(F6, 4), 1) = F6
      BY <1>6, <2>1
    <2>3. Packet([type |-> e.type, fields |-> g])
            = <<2>> \o F1 \o F2 \o F3 \o F4 \o F5 \o F6
      <3>1. /\ g[1] = F1 /\ g[2] = Widen(F2, 8) /\ g[3] = Widen(F3, 4) /\ g[4] = Widen(F4, 4)
            /\ g[7] = F5 /\ g[8] = Widen(F6, 4)
        OBVIOUS
      <3> HIDE DEF g
      <3>2. Packet([type |-> e.type, fields |-> g])
              = <<2>> \o g[1] \o Low(g[2], 1) \o Low(g[3], 2) \o Low(g[4], 2) \o g[7] \o Low(g[8], 1)
        BY <1>1 DEF Packet, LinuxPacket
      <3> QED BY <2>2, <3>1, <3>2
    <2>4. <<2>> \o F1 \o F2 \o F3 \o F4 \o F5 \o F6 = <<2>> \o FlattenSeq(f)
      <3> DEFINE T == <<2>>
                 c == <<T>> \o f
      <3>1. T \in Seq(Int) /\ f \in Seq(Seq(Int)) /\ Len(f) = 6
        BY <1>4, <1>5 DEF Fits
      <3> HIDE DEF T
      <3>2. FlattenSeq(c) = T \o FlattenSeq(f)
        BY <3>1, FlattenFront
      <3>3. c \in Seq(Seq(Int)) /\ Len(c) = 7 /\ c[1] = T /\ \A i \in 1 .. 6 : c[i + 1] = f[i]
        <4>1. c \in Seq(Seq(Int)) /\ Len(c) = Len(f) + 1 /\ c[1] = T
              /\ \A i \in 1 .. Len(f) : c[i + 1] = f[i]
          <5> DEFINE S == Seq(Int)
          <5>1. T \in S /\ f \in Seq(S)
            BY <3>1
          <5> HIDE DEF S
          <5>2. c \in Seq(S) /\ Len(c) = Len(f) + 1 /\ c[1] = T
                /\ \A i \in 1 .. Len(f) : c[i + 1] = f[i]
            BY <5>1, InFrontOf
          <5> QED BY <5>2 DEF S
        <4> HIDE DEF c
        <4> QED BY <3>1, <4>1
      <3> HIDE DEF c
      <3>4. FlattenSeq(c) = c[1] \o c[2] \o c[3] \o c[4] \o c[5] \o c[6] \o c[7]
        BY <3>3, Flattened
      <3>5. c[2] = F1 /\ c[3] = F2 /\ c[4] = F3 /\ c[5] = F4 /\ c[6] = F5 /\ c[7] = F6
        <4>1. c[1 + 1] = f[1] /\ c[2 + 1] = f[2] /\ c[3 + 1] = f[3] /\ c[4 + 1] = f[4]
              /\ c[5 + 1] = f[5] /\ c[6 + 1] = f[6]
          BY <3>3
        <4>2. f[1] = F1 /\ f[2] = F2 /\ f[3] = F3 /\ f[4] = F4 /\ f[5] = F5 /\ f[6] = F6
          BY <1>5
        <4> QED BY <4>1, <4>2
      <3> QED BY <3>2, <3>3, <3>4, <3>5 DEF T
    <2>5. Wanted(e) = <<2>> \o FlattenSeq(f)
      BY <1>2 DEF Wanted, Code
    <2> HIDE DEF g
    <2> QED BY <2>3, <2>4, <2>5 DEF Sends
  <1> HIDE DEF g
  <1>9. /\ e.type \in EventTypes /\ Fill(PageLayout[e.type], v) /\ e.type \in DOMAIN Layouts
        /\ Meant(e).type = e.type /\ Fits(Layouts[e.type], Meant(e).fields)
        /\ Sends(e, EventFields(e.type, InBytes(PageLayout[e.type], v), Size))
    BY <1>1, <1>2, <1>3, <1>4, <1>7, <1>8 DEF f, v
  <1> QED BY <1>9, Delivered DEF v

\* What an Android session has instead.
LEMMA OnAndroid ==
  ASSUME target = "android"
  PROVE  /\ Layouts = ServerLayout /\ Size = <<BE(1080, 2), BE(2400, 2)>>
         /\ DOMAIN ServerLayout = {"key", "touch", "scroll", "get", "set", "rotate", "create",
                                   "input", "destroy"}
         /\ \A p : Packet(p) = ScrcpyPacket(p)
  BY SMT DEF Layouts, ServerLayout, Size, Packet

\* A key of an Android session, with no repetition and no modifier.
LEMMA AndroidKey ==
  ASSUME target = "android", NEW e, e.type = "key", Fill(createKeyPacket, e.values),
         Unsigned(e.values[2], 2)
  PROVE  Delivers(e)
  <1> DEFINE v == e.values
             F1 == BE(v[1], 1)
             F2 == BE(v[2], 4)
             Z == BE(0, 4)
             g == <<F1, F2>>
             f == <<F1, F2, Z, Z>>
  <1>1. /\ v[1] \in Int /\ v[2] \in Int
        /\ InBytes(createKeyPacket, v) = <<F1, BE(v[2], 2)>>
    BY KeyFilled
  <1>2. Layouts = ServerLayout /\ "key" \in DOMAIN ServerLayout
        /\ ServerLayout["key"] = <<1, 4, 4, 4>>
    BY OnAndroid DEF ServerLayout
  <1>3. InBytes(<<1, 4, 4, 4>>, <<v[1], v[2], 0, 0>>) = f
    BY SMT DEF InBytes, Blob
  <1>4. Meant(e) = [type |-> "key", fields |-> f]
    <2>1. Meant(e) = [type |-> "key", fields |-> InBytes(Layouts["key"], <<v[1], v[2], 0, 0>>)]
      <3> HIDE DEF f
      <3> QED BY <1>2 DEF Meant
    <2> QED BY <1>2, <1>3, <2>1
  <1>5. Fits(<<1, 4, 4, 4>>, f)
    <2>1. Counted(<<1, 4, 4, 4>>)
      BY SMT DEF Counted, Blob
    <2>2. Fill(<<1, 4, 4, 4>>, <<v[1], v[2], 0, 0>>)
      BY SMT, <1>1 DEF Fill, Blob
    <2> QED BY <1>3, <2>1, <2>2, FilledFits
  <1>6. F1 \in Seq(Int) /\ F2 \in Seq(Int) /\ Z \in Seq(Int)
    <2>1. ASSUME NEW n \in Int, NEW w \in Nat PROVE BE(n, w) \in Seq(Int)
      BY BEIs
    <2>2. v[1] \in Int /\ v[2] \in Int
      BY <1>1
    <2> HIDE DEF v
    <2>3. F1 \in Seq(Int) /\ F2 \in Seq(Int)
      BY <2>1, <2>2
    <2>4. Z \in Seq(Int)
      <3> DEFINE n == 0
      <3>1. n \in Int
        OBVIOUS
      <3> HIDE DEF n
      <3>2. BE(n, 4) \in Seq(Int)
        BY <2>1, <3>1
      <3> QED BY <3>2 DEF n
    <2> QED BY <2>3, <2>4
  <1>7. EventFields("key", InBytes(createKeyPacket, v), Size) = g
    <2>1. Widen(BE(v[2], 2), 4) = F2
      <3> DEFINE n == v[2]
      <3> HIDE DEF n
      <3>1. n \in Int /\ Unsigned(n, 2)
        BY <1>1 DEF n
      <3>2. Widen(BE(n, 2), 4) = BE(n, 4)
        BY <3>1, WidenBE
      <3> QED BY <3>2 DEF n
    <2> QED BY <1>1, <2>1 DEF EventFields, parseKeyEvent
  <1> HIDE DEF F1, F2, Z
  <1>8. FlattenSeq(g) \o Z \o Z = FlattenSeq(f)
    <2> DEFINE h == Append(g, Z)
    <2>1. g \in Seq(Seq(Int)) /\ f = Append(h, Z)
      BY <1>6
    <2> HIDE DEF g, f
    <2>2. h \in Seq(Seq(Int)) /\ FlattenSeq(h) = FlattenSeq(g) \o Z
      BY <1>6, <2>1, FlattenAppend
    <2> HIDE DEF h
    <2>3. FlattenSeq(f) = FlattenSeq(h) \o Z
      BY <1>6, <2>1, <2>2, FlattenAppend
    <2> QED BY <2>2, <2>3
  <1>9. Sends(e, g)
    <2> HIDE DEF g
    <2>1. Packet([type |-> e.type, fields |-> g]) = <<0>> \o (FlattenSeq(g) \o Z \o Z)
      BY DEF Packet, ScrcpyPacket, SendKeyEvent, Z
    <2>2. Wanted(e) = <<0>> \o FlattenSeq(f)
      <3> HIDE DEF f
      <3> QED BY <1>4 DEF Wanted, Code
    <2> HIDE DEF f
    <2> QED BY <1>8, <2>1, <2>2 DEF Sends
  <1>10. PageLayout["key"] = createKeyPacket /\ "key" \in EventTypes
    BY DEF PageLayout, EventTypes
  <1> HIDE DEF f, g
  <1>11. /\ e.type \in EventTypes /\ Fill(PageLayout[e.type], v) /\ e.type \in DOMAIN Layouts
         /\ Meant(e).type = e.type /\ Fits(Layouts[e.type], Meant(e).fields)
         /\ Sends(e, EventFields(e.type, InBytes(PageLayout[e.type], v), Size))
    BY <1>2, <1>4, <1>5, <1>7, <1>9, <1>10
  <1> QED BY <1>11, Delivered

\* A touch, with the pressed buttons in the field of the button as well.
LEMMA AndroidTouch ==
  ASSUME target = "android", NEW e, e.type = "touch", Fill(createTouchPacket, e.values),
         Unsigned(e.values[2], 1), Unsigned(e.values[3], 2), Unsigned(e.values[4], 2),
         Unsigned(e.values[6], 1)
  PROVE  Delivers(e)
  <1> DEFINE v == e.values
             u == <<v[1], v[2], v[3], v[4], 1080, 2400, v[5], v[6], v[6]>>
             F1 == BE(v[1], 1)
             F2 == BE(v[2], 8)
             F3 == BE(v[3], 4)
             F4 == BE(v[4], 4)
             A == BE(1080, 2)
             B == BE(2400, 2)
             F5 == BE(v[5], 2)
             F6 == BE(v[6], 4)
             g == <<F1, F2, F3, F4, A, B, F5, F6>>
             f == <<F1, F2, F3, F4, A, B, F5, F6, F6>>
             p == InBytes(createTouchPacket, v)
             touch == <<1, 8, 4, 4, 2, 2, 2, 4, 4>>
  <1>1. Layouts = ServerLayout /\ "touch" \in DOMAIN ServerLayout
        /\ ServerLayout["touch"] = touch
    BY OnAndroid DEF ServerLayout
  <1>2. /\ p = <<F1, BE(v[2], 1), BE(v[3], 2), BE(v[4], 2), F5, BE(v[6], 1)>>
        /\ v[1] \in Int /\ v[2] \in Int /\ v[3] \in Int /\ v[4] \in Int /\ v[5] \in Int
        /\ v[6] \in Int
    BY TouchFilled
  <1>3. InBytes(touch, u) = f
    BY SMT DEF InBytes, Blob
  <1>4. Meant(e) = [type |-> "touch", fields |-> f]
    <2>1. Meant(e) = [type |-> "touch", fields |-> InBytes(Layouts["touch"], u)]
      <3> HIDE DEF f
      <3> QED BY <1>1 DEF Meant
    <2> QED BY <1>1, <1>3, <2>1
  <1>5. Fits(touch, f)
    <2>1. Counted(touch)
      BY SMT DEF Counted, Blob
    <2>2. Fill(touch, u)
      <3>1. DOMAIN u = DOMAIN touch
        OBVIOUS
      <3>2. \A i \in DOMAIN touch : touch[i] # 0 /\ u[i] \in Int
        BY SMT, <1>2
      <3> HIDE DEF touch, u
      <3> QED BY <3>1, <3>2 DEF Fill, Blob
    <2> QED BY <1>3, <2>1, <2>2, FilledFits
  <1>6. F1 \in Seq(Int) /\ F2 \in Seq(Int) /\ F3 \in Seq(Int) /\ F4 \in Seq(Int)
        /\ A \in Seq(Int) /\ B \in Seq(Int) /\ F5 \in Seq(Int) /\ F6 \in Seq(Int)
    <2>1. ASSUME NEW n \in Int, NEW w \in Nat PROVE BE(n, w) \in Seq(Int)
      BY BEIs
    <2>2. v[1] \in Int /\ v[2] \in Int /\ v[3] \in Int /\ v[4] \in Int /\ v[5] \in Int
          /\ v[6] \in Int
      BY <1>2
    <2> HIDE DEF v
    <2>3. F1 \in Seq(Int) /\ F2 \in Seq(Int) /\ F3 \in Seq(Int) /\ F4 \in Seq(Int)
      BY <2>1, <2>2
    <2>4. F5 \in Seq(Int) /\ F6 \in Seq(Int)
      BY <2>1, <2>2
    <2>5. A \in Seq(Int) /\ B \in Seq(Int)
      <3> DEFINE n == 1080
                 m == 2400
      <3>1. n \in Int /\ m \in Int
        OBVIOUS
      <3> HIDE DEF n, m
      <3>2. BE(n, 2) \in Seq(Int) /\ BE(m, 2) \in Seq(Int)
        BY <2>1, <3>1
      <3> QED BY <3>2 DEF n, m
    <2> QED BY <2>3, <2>4, <2>5
  <1>7. /\ Widen(BE(v[2], 1), 8) = F2 /\ Widen(BE(v[3], 2), 4) = F3
        /\ Widen(BE(v[4], 2), 4) = F4 /\ Widen(BE(v[6], 1), 4) = F6
    <2>1. ASSUME NEW n \in Int, NEW w \in 1 .. 2, NEW k \in 4 .. 8, Unsigned(n, w)
          PROVE  Widen(BE(n, w), k) = BE(n, k)
      BY <2>1, WidenBE
    <2>2. Unsigned(v[2], 1) /\ Unsigned(v[3], 2) /\ Unsigned(v[4], 2) /\ Unsigned(v[6], 1)
      OBVIOUS
    <2> HIDE DEF v
    <2> QED BY <1>2, <2>1, <2>2
  <1> HIDE DEF p, v
  <1>8. EventFields("touch", p, Size) = g
    <2> HIDE DEF F1, F2, F3, F4, F5, F6
    <2>1. Size = <<A, B>>
      BY OnAndroid
    <2> HIDE DEF A, B
    <2>2. parseTouchEvent(p, <<A, B>>) = g
      BY <1>2, <1>7, <<A, B>>[1] = A, <<A, B>>[2] = B DEF parseTouchEvent
    <2> QED BY <2>1, <2>2 DEF EventFields
  <1> HIDE DEF F1, F2, F3, F4, F5, F6, A, B
  <1>9. FlattenSeq(g) \o g[8] = FlattenSeq(f)
    <2>1. g \in Seq(Seq(Int)) /\ f = Append(g, F6) /\ g[8] = F6
      <3> DEFINE S == Seq(Int)
      <3>1. F1 \in S /\ F2 \in S /\ F3 \in S /\ F4 \in S /\ A \in S /\ B \in S /\ F5 \in S /\ F6 \in S
        BY <1>6
      <3> HIDE DEF S
      <3>2. g \in Seq(S)
        BY SMTT(30), <3>1
      <3>3. f = Append(g, F6)
        BY SMTT(30)
      <3> QED BY <3>2, <3>3 DEF S
    <2> HIDE DEF g, f
    <2> QED BY <1>6, <2>1, FlattenAppend
  <1>10. Sends(e, g)
    <2> HIDE DEF g, f
    <2>1. Packet([type |-> e.type, fields |-> g]) = <<2>> \o (FlattenSeq(g) \o g[8])
      BY DEF Packet, ScrcpyPacket, SendTouchEvent
    <2>2. Wanted(e) = <<2>> \o FlattenSeq(f)
      BY <1>4 DEF Wanted, Code
    <2> QED BY <1>9, <2>1, <2>2 DEF Sends
  <1>11. PageLayout["touch"] = createTouchPacket /\ "touch" \in EventTypes
    BY DEF PageLayout, EventTypes
  <1> HIDE DEF f, g
  <1>12. /\ e.type \in EventTypes /\ Fill(PageLayout[e.type], v) /\ e.type \in DOMAIN Layouts
         /\ Meant(e).type = e.type /\ Fits(Layouts[e.type], Meant(e).fields)
         /\ Sends(e, EventFields(e.type, InBytes(PageLayout[e.type], v), Size))
    BY <1>1, <1>4, <1>5, <1>8, <1>10, <1>11 DEF p, v
  <1> QED BY <1>12, Delivered DEF v

\* A turn of the wheel.
LEMMA AndroidScroll ==
  ASSUME target = "android", NEW e, e.type = "scroll", Fill(createScrollPacket, e.values),
         Unsigned(e.values[1], 2), Unsigned(e.values[2], 2), Unsigned(e.values[5], 1)
  PROVE  Delivers(e)
  <1> DEFINE v == e.values
             u == <<v[1], v[2], 1080, 2400, v[3], v[4], v[5]>>
             F1 == BE(v[1], 4)
             F2 == BE(v[2], 4)
             A == BE(1080, 2)
             B == BE(2400, 2)
             F3 == BE(v[3], 2)
             F4 == BE(v[4], 2)
             F5 == BE(v[5], 4)
             f == <<F1, F2, A, B, F3, F4, F5>>
             p == InBytes(createScrollPacket, v)
             scroll == <<4, 4, 2, 2, 2, 2, 4>>
  <1>1. Layouts = ServerLayout /\ "scroll" \in DOMAIN ServerLayout
        /\ ServerLayout["scroll"] = scroll
    BY OnAndroid DEF ServerLayout
  <1>2. /\ p = <<BE(v[1], 2), BE(v[2], 2), F3, F4, BE(v[5], 1)>>
        /\ v[1] \in Int /\ v[2] \in Int /\ v[3] \in Int /\ v[4] \in Int /\ v[5] \in Int
    BY ScrollFilled
  <1>3. InBytes(scroll, u) = f
    BY SMT DEF InBytes, Blob
  <1>4. Meant(e) = [type |-> "scroll", fields |-> f]
    <2>1. Meant(e) = [type |-> "scroll", fields |-> InBytes(Layouts["scroll"], u)]
      <3> HIDE DEF f
      <3> QED BY <1>1 DEF Meant
    <2> QED BY <1>1, <1>3, <2>1
  <1>5. Fits(scroll, f)
    <2>1. Counted(scroll)
      BY SMT DEF Counted, Blob
    <2>2. Fill(scroll, u)
      BY SMT, <1>2 DEF Fill, Blob
    <2> QED BY <1>3, <2>1, <2>2, FilledFits
  <1>6. Widen(BE(v[1], 2), 4) = F1 /\ Widen(BE(v[2], 2), 4) = F2 /\ Widen(BE(v[5], 1), 4) = F5
    <2>1. ASSUME NEW n \in Int, NEW w \in 1 .. 2, NEW k \in 4 .. 8, Unsigned(n, w)
          PROVE  Widen(BE(n, w), k) = BE(n, k)
      BY <2>1, WidenBE
    <2>2. Unsigned(v[1], 2) /\ Unsigned(v[2], 2) /\ Unsigned(v[5], 1)
      OBVIOUS
    <2> HIDE DEF v
    <2> QED BY <1>2, <2>1, <2>2
  <1> HIDE DEF p, v
  <1>7. EventFields("scroll", p, Size) = f
    <2> HIDE DEF F1, F2, F3, F4, F5
    <2>1. Size = <<A, B>>
      BY OnAndroid
    <2> HIDE DEF A, B
    <2>2. parseScrollEvent(p, <<A, B>>) = f
      BY <1>2, <1>6, <<A, B>>[1] = A, <<A, B>>[2] = B DEF parseScrollEvent
    <2> QED BY <2>1, <2>2 DEF EventFields
  <1> HIDE DEF f
  <1>8. Sends(e, f)
    <2>1. Packet([type |-> e.type, fields |-> f]) = <<3>> \o FlattenSeq(f)
      BY DEF Packet, ScrcpyPacket, SendScrollEvent
    <2>2. Wanted(e) = <<3>> \o FlattenSeq(f)
      BY <1>4 DEF Wanted, Code
    <2> QED BY <2>1, <2>2 DEF Sends
  <1>9. PageLayout["scroll"] = createScrollPacket /\ "scroll" \in EventTypes
    BY DEF PageLayout, EventTypes
  <1>10. /\ e.type \in EventTypes /\ Fill(PageLayout[e.type], v) /\ e.type \in DOMAIN Layouts
         /\ Meant(e).type = e.type /\ Fits(Layouts[e.type], Meant(e).fields)
         /\ Sends(e, EventFields(e.type, InBytes(PageLayout[e.type], v), Size))
    BY <1>1, <1>4, <1>5, <1>7, <1>8, <1>9 DEF p, v
  <1> QED BY <1>10, Delivered DEF v

\* A number in a single byte.
LEMMA OneByte ==
  ASSUME NEW n \in Int, Unsigned(n, 1)
  PROVE  BE(n, 1) = <<n>> /\ n % 256 = n
  <1>1. Shifted(n)[1] = n /\ n \in Nat /\ n < 256
    BY ShiftedOf DEF Unsigned
  <1>2. n % 256 = n
    BY <1>1
  <1>3. BE(n, 1) \in Seq(Int) /\ Len(BE(n, 1)) = 1
        /\ BE(n, 1)[1] = Shifted(n)[1] % 256
    <2> DEFINE w == 1
    <2>1. w \in Nat /\ w = 1 /\ 1 \in 1 .. w /\ ~(w - 1 > 3) /\ w - 1 + 1 = 1
      OBVIOUS
    <2> HIDE DEF w
    <2>2. /\ BE(n, w) \in Seq(Int) /\ Len(BE(n, w)) = w
          /\ \A i \in 1 .. w : BE(n, w)[i] = ByteOf(n, w, i)
      BY <2>1, BytesOfNumber
    <2>3. BE(n, w)[1] = Shifted(n)[1] % 256
      BY <2>1, <2>2 DEF ByteOf
    <2> QED BY <2>1, <2>2, <2>3
  <1>4. BE(n, 1)[1] = n
    BY <1>1, <1>2, <1>3
  <1> HIDE DEF BE
  <1>5. BE(n, 1) = <<n>>
    BY <1>3, <1>4
  <1> QED BY <1>2, <1>5

\* The types that the driver of a phone passes on as they are.
LEMMA AndroidPlain ==
  ASSUME target = "android", NEW e, e.type \in {"get", "rotate", "input", "destroy"},
         Fill(PageLayout[e.type], e.values)
  PROVE  Delivers(e)
  <1> DEFINE v == e.values
             t == e.type
             f == InBytes(PageLayout[t], v)
  <1>1. /\ Layouts = ServerLayout /\ t \in DOMAIN ServerLayout /\ t \in EventTypes
        /\ ServerLayout[t] = PageLayout[t]
    <2>1. t \in DOMAIN ServerLayout /\ t \in EventTypes
      BY OnAndroid DEF EventTypes
    <2>2. ServerLayout[t] = PageLayout[t]
      BY DEF ServerLayout, PageLayout, getClipboard, createRotatePacket, createUHIDInputPacket,
             createUHIDDestroyPacket
    <2> QED BY <2>1, <2>2, OnAndroid
  <1>2. Meant(e) = [type |-> t, fields |-> f]
    BY <1>1 DEF Meant
  <1>3. Fits(PageLayout[t], f)
    BY <1>1, PageCounted, FilledFits
  <1> HIDE DEF f
  <1>4. EventFields(t, f, Size) = f
    BY DEF EventFields, parseUHIDInputEvent
  <1>5. Sends(e, f)
    <2>1. Packet([type |-> e.type, fields |-> f]) = <<Code[t]>> \o FlattenSeq(f)
      BY DEF Packet, ScrcpyPacket, SendUHIDInputEvent, Code
    <2>2. Wanted(e) = <<Code[t]>> \o FlattenSeq(f)
      BY <1>2 DEF Wanted
    <2> QED BY <2>1, <2>2 DEF Sends
  <1>6. /\ e.type \in EventTypes /\ Fill(PageLayout[e.type], v) /\ e.type \in DOMAIN Layouts
        /\ Meant(e).type = e.type /\ Fits(Layouts[e.type], Meant(e).fields)
        /\ Sends(e, EventFields(e.type, InBytes(PageLayout[e.type], v), Size))
    BY <1>1, <1>2, <1>3, <1>4, <1>5 DEF f
  <1> QED BY <1>6, Delivered

\* What is written of a virtual device is what its fields say.
LEMMA AndroidCreate ==
  ASSUME target = "android", NEW e, e.type = "create", Fill(createUHIDCreatePacket, e.values),
         Unsigned(Len(NamePrefix) + e.values[4], 1)
  PROVE  Delivers(e)
  <1> DEFINE v == e.values
             name == NamePrefix \o v[5]
             size == v[4] + 10
             u == <<v[1], v[2], v[3], size, name, v[6], v[7]>>
             F1 == BE(v[1], 2)
             F2 == BE(v[2], 2)
             F3 == BE(v[3], 2)
             F4 == BE(size, 1)
             F6 == BE(v[6], 2)
             f == <<F1, F2, F3, F4, name, F6, v[7]>>
             p == InBytes(createUHIDCreatePacket, v)
  <1>1. Layouts = ServerLayout /\ "create" \in DOMAIN ServerLayout
        /\ ServerLayout["create"] = createUHIDCreatePacket
    BY OnAndroid DEF ServerLayout, createUHIDCreatePacket
  <1>2. /\ p = <<F1, F2, F3, BE(v[4], 1), v[5], F6, v[7]>>
        /\ v[1] \in Int /\ v[2] \in Int /\ v[3] \in Int /\ v[4] \in Int /\ v[6] \in Int
        /\ v[5] \in Seq(Int) /\ Len(v[5]) = v[4] /\ v[7] \in Seq(Int) /\ Len(v[7]) = v[6]
        /\ Unsigned(v[6], 2)
    BY CreateFilled
  <1>3. name \in Seq(Int) /\ Len(name) = size /\ size \in Int /\ Unsigned(size, 1)
    <2>1. NamePrefix \in Seq(Int) /\ Len(NamePrefix) = 10
      BY SMT DEF NamePrefix
    <2> DEFINE a == NamePrefix
               b == v[5]
    <2>2. b \in Seq(Int) /\ Len(b) = v[4] /\ v[4] \in Int
      BY <1>2
    <2> HIDE DEF b
    <2>3. a \o b \in Seq(Int) /\ Len(a \o b) = Len(a) + Len(b)
      BY <2>1, <2>2, ConcatOf
    <2>4. Len(NamePrefix) + v[4] = size
      BY <2>1, <2>2
    <2>5. Unsigned(size, 1)
      BY <2>4
    <2> QED BY <2>1, <2>2, <2>3, <2>5 DEF b
  <1> HIDE DEF name, size
  <1>4. InBytes(createUHIDCreatePacket, u) = f
    BY SMT DEF createUHIDCreatePacket, InBytes, Blob
  <1>5. Meant(e) = [type |-> "create", fields |-> f]
    <2>1. Meant(e) = [type |-> "create", fields |-> InBytes(Layouts["create"], u)]
      <3> HIDE DEF f
      <3> QED BY <1>1 DEF Meant, name, size
    <2> QED BY <1>1, <1>4, <2>1
  <1>6. Fits(createUHIDCreatePacket, f)
    <2>1. Counted(createUHIDCreatePacket)
      BY SMT DEF Counted, Blob, createUHIDCreatePacket
    <2>2. Fill(createUHIDCreatePacket, u)
      <3> DEFINE l == createUHIDCreatePacket
      <3>1. DOMAIN l = 1 .. 7 /\ DOMAIN u = 1 .. 7
        BY DEF createUHIDCreatePacket
      <3>2. l[1] = 2 /\ l[2] = 2 /\ l[3] = 2 /\ l[4] = 1 /\ l[5] = 0 /\ l[6] = 2 /\ l[7] = 0
        BY DEF createUHIDCreatePacket, Blob
      <3>3. \A i \in {1, 2, 3, 4, 6} : u[i] \in Int
        <4>1. v[1] \in Int /\ v[2] \in Int /\ v[3] \in Int /\ size \in Int /\ v[6] \in Int
          BY <1>2, <1>3
        <4>2. u[1] = v[1] /\ u[2] = v[2] /\ u[3] = v[3] /\ u[4] = size /\ u[6] = v[6]
          OBVIOUS
        <4> HIDE DEF u, v, size
        <4> QED BY <4>1, <4>2
      <3>4. u[5] \in Seq(Int) /\ Len(u[5]) = u[4] /\ Unsigned(u[4], 1)
            /\ u[7] \in Seq(Int) /\ Len(u[7]) = u[6] /\ Unsigned(u[6], 2)
        BY <1>2, <1>3
      <3> HIDE DEF l, u
      <3>5. \A i \in 1 .. 7 : i \in {1, 2, 3, 4, 6} \/ i = 5 \/ i = 7
        OBVIOUS
      <3>6. Fill(l, u)
        <4>1. \A i \in {1, 2, 3, 4, 6} : l[i] # 0
          BY <3>2
        <4> QED BY <3>1, <3>2, <3>3, <3>4, <3>5, <4>1 DEF Fill, Blob
      <3> QED BY <3>6 DEF l
    <2> QED BY <1>4, <2>1, <2>2, FilledFits
  <1>7. BE(size, 1) = <<size>> /\ size % 256 = size
    BY <1>3, OneByte
  <1>8. F1 \in Seq(Int) /\ F2 \in Seq(Int) /\ F3 \in Seq(Int) /\ F4 \in Seq(Int) /\ F6 \in Seq(Int)
    <2>1. ASSUME NEW n \in Int, NEW w \in Nat PROVE BE(n, w) \in Seq(Int)
      BY BEIs
    <2>2. v[1] \in Int /\ v[2] \in Int /\ v[3] \in Int /\ v[6] \in Int /\ size \in Int
      BY <1>2, <1>3
    <2> HIDE DEF v
    <2> QED BY <2>1, <2>2
  <1> HIDE DEF p, v
  <1>9. EventFields("create", p, Size) = f
    <2> HIDE DEF F1, F2, F3, F6
    <2>1. p[1] = F1 /\ p[2] = F2 /\ p[3] = F3 /\ p[5] = v[5] /\ p[6] = F6 /\ p[7] = v[7]
      BY <1>2
    <2>2. NamePrefix \o p[5] = name
      BY <2>1 DEF name
    <2>3. parseUHIDCreateEvent(p) = f
      BY <1>3, <2>1, <2>2 DEF parseUHIDCreateEvent
    <2> QED BY <2>3 DEF EventFields
  <1>10. FlattenSeq(f) = F1 \o F2 \o F3 \o F4 \o name \o F6 \o v[7]
    <2> DEFINE F7 == v[7]
               S == Seq(Int)
    <2>1. F1 \in S /\ F2 \in S /\ F3 \in S /\ F4 \in S /\ name \in S /\ F6 \in S /\ F7 \in S
      BY <1>2, <1>3, <1>8
    <2> HIDE DEF F1, F2, F3, F4, F6, F7, S
    <2>2. f \in Seq(S) /\ Len(f) = 7
      BY SMTT(30), <2>1 DEF F7
    <2>3. f[1] = F1 /\ f[2] = F2 /\ f[3] = F3 /\ f[4] = F4 /\ f[5] = name /\ f[6] = F6 /\ f[7] = F7
      BY DEF F7
    <2> HIDE DEF f
    <2>4. FlattenSeq(f) = f[1] \o f[2] \o f[3] \o f[4] \o f[5] \o f[6] \o f[7]
      BY <2>2, Flattened DEF S
    <2> QED BY <2>3, <2>4 DEF F7
  <1>11. SubSeq(name, 1, size) = name
    <2>1. Len(name) \in Nat
      BY <1>3, LenProperties
    <2> DEFINE s == SubSeq(name, 1, size)
    <2>2. s \in Seq(Int) /\ Len(s) = Len(name) /\ \A i \in 1 .. Len(name) : s[i] = name[i]
      BY <1>3, <2>1, SubSeqProperties
    <2> HIDE DEF s
    <2>3. s = name
      BY <1>3, <2>2, SeqEqual
    <2> QED BY <2>3 DEF s
  <1>12. Sends(e, f)
    <2>1. SendUHIDCreateEvent(f) = F1 \o F2 \o F3 \o F4 \o name \o F6 \o v[7]
      <3>1. f[1] = F1 /\ f[2] = F2 /\ f[3] = F3 /\ f[5] = name /\ f[6] = F6 /\ f[7] = v[7]
        OBVIOUS
      <3>2. Len(f[5]) % 256 = size
        BY <1>3, <1>7, <3>1
      <3>3. F4 = <<size>>
        BY <1>7
      <3> HIDE DEF f, F1, F2, F3, F4, F6
      <3>4. SendUHIDCreateEvent(f)
              = f[1] \o f[2] \o f[3] \o <<size>> \o SubSeq(f[5], 1, size) \o f[6] \o f[7]
        BY <3>2 DEF SendUHIDCreateEvent
      <3> QED BY <1>11, <3>1, <3>3, <3>4
    <2> HIDE DEF f, F1, F2, F3, F4, F6
    <2>2. Packet([type |-> e.type, fields |-> f]) = <<12>> \o SendUHIDCreateEvent(f)
      BY DEF Packet, ScrcpyPacket
    <2>3. Wanted(e) = <<12>> \o FlattenSeq(f)
      BY <1>5 DEF Wanted, Code
    <2> QED BY <1>10, <2>1, <2>2, <2>3 DEF Sends
  <1>13. PageLayout["create"] = createUHIDCreatePacket /\ "create" \in EventTypes
    BY DEF PageLayout, EventTypes
  <1> HIDE DEF f
  <1>14. /\ e.type \in EventTypes /\ Fill(PageLayout[e.type], v) /\ e.type \in DOMAIN Layouts
         /\ Meant(e).type = e.type /\ Fits(Layouts[e.type], Meant(e).fields)
         /\ Sends(e, EventFields(e.type, InBytes(PageLayout[e.type], v), Size))
    BY <1>1, <1>5, <1>6, <1>9, <1>12, <1>13 DEF p, v
  <1> QED BY <1>14, Delivered DEF v

\* What is written of the clipboard is what its fields say.
LEMMA AndroidSet ==
  ASSUME target = "android", NEW e, e.type = "set", Fill(setClipboard, e.values),
         e.values[2] \in 0 .. 1
  PROVE  Delivers(e)
  <1> DEFINE v == e.values
             F1 == BE(v[1], 8)
             F2 == BE(v[2], 1)
             F3 == BE(v[3], 4)
             f == <<F1, F2, F3, v[4]>>
             g == <<F1, F2, v[4]>>
             p == InBytes(setClipboard, v)
  <1>1. Layouts = ServerLayout /\ "set" \in DOMAIN ServerLayout
        /\ ServerLayout["set"] = setClipboard
    BY OnAndroid DEF ServerLayout, setClipboard
  <1>2. /\ p = f
        /\ v[1] \in Int /\ v[2] \in Int /\ v[3] \in Int /\ v[4] \in Seq(Int) /\ Len(v[4]) = v[3]
    BY SetFilled
  <1>3. Meant(e) = [type |-> "set", fields |-> f]
    <2>1. Meant(e) = [type |-> "set", fields |-> InBytes(Layouts["set"], v)]
      BY <1>1 DEF Meant
    <2> HIDE DEF f, p
    <2> QED BY <1>1, <1>2, <2>1 DEF p
  <1>4. PageLayout["set"] = setClipboard /\ "set" \in EventTypes
    BY DEF PageLayout, EventTypes
  <1>5. Fits(setClipboard, f)
    BY <1>2, <1>4, PageCounted, FilledFits
  <1>6. F2 = <<0>> \/ F2 = <<1>>
    <2>1. ASSUME NEW n \in 0 .. 1 PROVE BE(n, 1) = <<n>>
      <3>1. Shifted(n)[1] = n
        BY ShiftedOf
      <3>2. n \in Int /\ Unsigned(n, 1)
        BY <3>1 DEF Unsigned
      <3> QED BY <3>2, OneByte
    <2> DEFINE n == v[2]
    <2>2. n \in 0 .. 1
      OBVIOUS
    <2> HIDE DEF n
    <2>3. n = 0 \/ n = 1
      BY <2>2
    <2>4. BE(n, 1) = <<n>>
      BY <2>1, <2>2
    <2> QED BY <2>3, <2>4 DEF n
  <1>7. F1 \in Seq(Int) /\ F2 \in Seq(Int) /\ F3 \in Seq(Int)
    <2>1. ASSUME NEW n \in Int, NEW w \in Nat PROVE BE(n, w) \in Seq(Int)
      BY BEIs
    <2>2. v[1] \in Int /\ v[2] \in Int /\ v[3] \in Int
      BY <1>2
    <2> HIDE DEF v
    <2> QED BY <2>1, <2>2
  <1> HIDE DEF p, v
  <1>8. EventFields("set", p, Size) = g
    <2> HIDE DEF F1, F2, F3
    <2>1. p[1] = F1 /\ p[2] = F2 /\ p[4] = v[4]
      BY <1>2
    <2>2. (IF F2 = <<0>> THEN <<0>> ELSE <<1>>) = F2
      BY <1>6
    <2>3. parseSetClipboardEvent(p) = g
      BY <2>1, <2>2 DEF parseSetClipboardEvent
    <2> QED BY <2>3 DEF EventFields
  <1>9. FlattenSeq(f) = F1 \o F2 \o F3 \o v[4]
    <2> DEFINE F4 == v[4]
               S == Seq(Int)
    <2>1. F1 \in S /\ F2 \in S /\ F3 \in S /\ F4 \in S
      BY <1>2, <1>7
    <2> HIDE DEF F1, F2, F3, F4, S
    <2>2. f \in Seq(S) /\ Len(f) = 4
      BY SMTT(30), <2>1 DEF F4
    <2>3. f[1] = F1 /\ f[2] = F2 /\ f[3] = F3 /\ f[4] = F4
      BY DEF F4
    <2> HIDE DEF f
    <2>4. FlattenSeq(f) = f[1] \o f[2] \o f[3] \o f[4]
      BY <2>2, Flattened DEF S
    <2> QED BY <2>3, <2>4 DEF F4
  <1>10. Sends(e, g)
    <2>1. SendSetClipboardEvent(g) = F1 \o F2 \o F3 \o v[4]
      <3>1. g[1] = F1 /\ g[2] = F2 /\ g[3] = v[4]
        OBVIOUS
      <3>2. BE(Len(g[3]), 4) = F3
        BY <1>2, <3>1
      <3> HIDE DEF g, F1, F2, F3
      <3> QED BY <3>1, <3>2 DEF SendSetClipboardEvent
    <2> HIDE DEF f, g, F1, F2, F3
    <2>2. Packet([type |-> e.type, fields |-> g]) = <<9>> \o SendSetClipboardEvent(g)
      BY DEF Packet, ScrcpyPacket
    <2>3. Wanted(e) = <<9>> \o FlattenSeq(f)
      BY <1>3 DEF Wanted, Code
    <2> QED BY <1>9, <2>1, <2>2, <2>3 DEF Sends
  <1> HIDE DEF f, g
  <1>11. /\ e.type \in EventTypes /\ Fill(PageLayout[e.type], v) /\ e.type \in DOMAIN Layouts
         /\ Meant(e).type = e.type /\ Fits(Layouts[e.type], Meant(e).fields)
         /\ Sends(e, EventFields(e.type, InBytes(PageLayout[e.type], v), Size))
    BY <1>1, <1>3, <1>4, <1>5, <1>8, <1>10 DEF p, v
  <1> QED BY <1>11, Delivered DEF v

\* Every event that the page of a session can cause becomes one packet, whose bytes are
\* those the device has to read: whatever is widened, cut, counted or filled in on the way.
THEOREM EventsArriveAsMeant ==
  ASSUME target \in {"x11", "wayland", "android"}, NEW e, Possible(e, target)
  PROVE  Delivers(e)
  <1>1. e.type \in EventTypes /\ Fill(PageLayout[e.type], e.values)
    BY DEF Possible, EventTypes, Code
  <1>2. CASE target = "android"
    <2>1. /\ e.type # "mouse"
          /\ e.type = "key" => Unsigned(e.values[2], 2)
          /\ e.type = "touch" => Unsigned(e.values[2], 1) /\ Unsigned(e.values[3], 2)
                                 /\ Unsigned(e.values[4], 2) /\ Unsigned(e.values[6], 1)
          /\ e.type = "scroll" => Unsigned(e.values[1], 2) /\ Unsigned(e.values[2], 2)
                                  /\ Unsigned(e.values[5], 1)
          /\ e.type = "set" => e.values[2] \in 0 .. 1
          /\ e.type = "create" => Unsigned(Len(NamePrefix) + e.values[4], 1)
      BY <1>2 DEF Possible
    <2>2. CASE e.type = "key"
      BY <1>1, <1>2, <2>1, <2>2, AndroidKey DEF PageLayout
    <2>3. CASE e.type = "touch"
      BY <1>1, <1>2, <2>1, <2>3, AndroidTouch DEF PageLayout
    <2>4. CASE e.type = "scroll"
      BY <1>1, <1>2, <2>1, <2>4, AndroidScroll DEF PageLayout
    <2>5. CASE e.type = "set"
      BY <1>1, <1>2, <2>1, <2>5, AndroidSet DEF PageLayout
    <2>6. CASE e.type = "create"
      BY <1>1, <1>2, <2>1, <2>6, AndroidCreate DEF PageLayout
    <2>7. CASE e.type \in {"get", "rotate", "input", "destroy"}
      BY <1>1, <1>2, <2>7, AndroidPlain
    <2> QED BY <1>1, <2>1, <2>2, <2>3, <2>4, <2>5, <2>6, <2>7 DEF EventTypes
  <1>3. CASE target \in {"x11", "wayland"}
    <2>1. /\ e.type \in {"key", "mouse", "touch"}
          /\ e.type = "key" => Unsigned(e.values[2], 2)
      BY <1>3 DEF Possible
    <2>2. CASE e.type = "key"
      BY <1>1, <1>3, <2>1, <2>2, LinuxKey DEF PageLayout
    <2>3. CASE e.type = "mouse"
      BY <1>1, <1>3, <2>3, LinuxMouse DEF PageLayout
    <2>4. CASE e.type = "touch"
      BY <1>1, <1>3, <2>4, LinuxTouch DEF PageLayout
    <2> QED BY <2>1, <2>2, <2>3, <2>4
  <1> QED BY <1>2, <1>3

-----------------------------------------------------------------------------
(* The invariant of the control path                                       *)

\* What a goroutine has to write of event number i: one packet, at once.
ToWrite(i) == <<[event |-> i, bytes |-> Wanted(sent[i]), ends |-> TRUE]>>

\* An event of the channel that keeps the order.
Ordered(i) == ChannelOf(sent[i]) = "ordered"

\* The types, and what is not a number of an event.
ControlTypeOK ==
  /\ target \in {"x11", "wayland", "android"}
  /\ \A e \in user : Possible(e, target)
  /\ sent \in Seq(user)
  /\ pending \subseteq 1 .. Len(sent)
  /\ DOMAIN out = Channels
  /\ \A c \in Channels :
       out[c] = << >> \/ \E i \in 1 .. Len(sent) : ChannelOf(sent[i]) = c /\ out[c] = ToWrite(i)
  /\ written \in Seq(1 .. Len(sent))
  /\ got \in Seq(ToSet(got))

\* The events that are written and not yet read.
Unread == [i \in 1 .. Len(written) - Len(got) |-> sent[written[Len(got) + i]]]

\* The bytes of events, one behind the other.
BytesOfEvents(events) == FlattenSeq([i \in DOMAIN events |-> Wanted(events[i])])

\* The reader is at the beginning of a packet, and has read those before.
AtPacket ==
  /\ Len(got) <= Len(written)
  /\ \A i \in 1 .. Len(got) : got[i] = Meant(sent[written[i]])
  /\ conn = BytesOfEvents(Unread)

\* The events of the ordered channel are written in their order, none of them
\* twice, and those before one that is written or about to be are written.
OrderedWritten ==
  /\ \A m, n \in 1 .. Len(written) :
       m < n /\ Ordered(written[m]) /\ Ordered(written[n]) => written[m] < written[n]
  /\ \A n \in 1 .. Len(written), i \in 1 .. Len(sent) :
       Ordered(written[n]) /\ Ordered(i) /\ (i \in pending \/ out["ordered"] = ToWrite(i))
         => written[n] < i
  /\ \A i, p \in 1 .. Len(sent) :
       Ordered(i) /\ Ordered(p) /\ out["ordered"] = ToWrite(i) /\ p \in pending => i < p

\* On an open connection none of them is lost.
NoneLost ==
  \A i \in 1 .. Len(sent) :
    Ordered(i) => i \in pending \/ out["ordered"] = ToWrite(i)
                  \/ \E n \in 1 .. Len(written) : written[n] = i

\* The keys whose last event that was read is a press.
ReadDown ==
  {k \in DOMAIN Kernel :
     \E i \in 1 .. Len(got) :
       /\ sent[written[i]] = KeyEvent(0, k)
       /\ \A j \in i + 1 .. Len(got) : sent[written[j]] # KeyEvent(1, k)}

\* What the device has for them.
CodesOf(down) ==
  IF target = "x11" THEN {Kernel[k] + 8 : k \in down} ELSE {Kernel[k] : k \in down \ Missing}

\* The one key for which the tables do not agree does not come.
NoMetaLeft == target = "x11" => \A i \in DOMAIN sent : \A a \in 0 .. 1 : sent[i] # KeyEvent(a, "MetaLeft")

\* The keys that are down on the device are those that were read.
KeysOfRead == target # "android" /\ NoMetaLeft => keys = CodesOf(ReadDown)

\* The reader runs as long as the connection is open.
ControlSafe ==
  /\ ControlTypeOK /\ AtPacket /\ OrderedWritten /\ KeysOfRead
  /\ open => serving /\ NoneLost

-----------------------------------------------------------------------------
(* Packets on the connection                                               *)

\* What has to be read does not depend on anything but the target.
LEMMA MeantSame ==
  ASSUME target' = target, NEW e
  PROVE  Meant(e)' = Meant(e) /\ Wanted(e)' = Wanted(e) /\ Layouts' = Layouts
  <1>1. Layouts' = Layouts
    BY DEF Layouts
  <1>2. Meant(e)' = Meant(e)
    BY <1>1 DEF Meant
  <1> QED BY <1>1, <1>2 DEF Wanted

\* The reader of a packet, at its beginning, finds its type and its fields, and then
\* the beginning of the next.
LEMMA PacketRead ==
  ASSUME target \in {"x11", "wayland", "android"}, NEW e, Possible(e, target), NEW rest \in Seq(Int)
  PROVE  /\ Wanted(e) \in Seq(Int) /\ Wanted(e) # << >>
         /\ Wanted(e) \o rest # << >>
         /\ Types((Wanted(e) \o rest)[1]) = {e.type} /\ e.type \in DOMAIN Layouts
         /\ Fields(Layouts[e.type], Tail(Wanted(e) \o rest))
              = [fields |-> Meant(e).fields, rest |-> rest, whole |-> TRUE]
         /\ Meant(e) = [type |-> e.type, fields |-> Meant(e).fields]
  <1> DEFINE fs == Meant(e).fields
             b == FlattenSeq(fs)
             x == Code[e.type]
             head == <<x>>
             w == head \o b
             d == b \o rest
             c == w \o rest
  <1>1. e.type \in DOMAIN Layouts /\ e.type \in EventTypes /\ Fits(Layouts[e.type], fs)
    BY EventsArriveAsMeant DEF Delivers
  <1>2. x \in Int /\ Types(x) = {e.type}
    BY <1>1, TypesOf
  <1>3. fs \in Seq(Seq(Int)) /\ << >> \in Seq(Int)
    BY <1>1, EmptySeq DEF Fits
  <1>4. Meant(e) = [type |-> e.type, fields |-> fs]
    BY DEF Meant
  <1> HIDE DEF fs
  <1>5. b \in Seq(Int)
    BY <1>3, FlattenAppend
  <1>6. Wanted(e) = w
    BY DEF Wanted, fs
  <1>7. Fields(Layouts[e.type], d) = [fields |-> fs, rest |-> rest, whole |-> TRUE]
    BY <1>1, FieldsRead
  <1> HIDE DEF b, x
  <1>8. w \in Seq(Int) /\ w # << >>
    BY <1>2, <1>5, TypeInFront
  <1>9. d \in Seq(Int)
    BY <1>5, ConcatOf
  <1>10. c = head \o d
    <2>1. head \in Seq(Int)
      BY <1>2
    <2> HIDE DEF head
    <2>2. b \in Seq(Int) /\ rest \in Seq(Int)
      BY <1>5
    <2>3. (head \o b) \o rest = head \o (b \o rest)
      BY <2>1, <2>2, BytesJoin
    <2> QED BY <2>3
  <1>11. c # << >> /\ c[1] = x /\ Tail(c) = d
    <2> HIDE DEF d, c
    <2> QED BY <1>2, <1>9, <1>10, TypeInFront
  <1> HIDE DEF c, d, w
  <1>12. w \o rest = c
    BY DEF c
  <1> QED BY <1>1, <1>2, <1>4, <1>6, <1>7, <1>8, <1>11, <1>12 DEF fs

\* One event more behind the others, or in front of them.
LEMMA OneMoreEvent ==
  ASSUME target \in {"x11", "wayland", "android"}, NEW U, \A e \in U : Possible(e, target),
         NEW es \in Seq(U), NEW e \in U
  PROVE  /\ BytesOfEvents(es) \in Seq(Int)
         /\ BytesOfEvents(Append(es, e)) = BytesOfEvents(es) \o Wanted(e)
         /\ BytesOfEvents(<<e>> \o es) = Wanted(e) \o BytesOfEvents(es)
  <1> DEFINE n == Len(es)
             s == [i \in 1 .. n |-> Wanted(es[i])]
             x == Wanted(e)
             more == Append(es, e)
             front == <<e>> \o es
  <1>1. n \in Nat /\ DOMAIN es = 1 .. n /\ \A i \in 1 .. n : es[i] \in U
    BY LenProperties, ElementOfSeq
  <1>2. ASSUME NEW y \in U PROVE Wanted(y) \in Seq(Int)
    <2>1. << >> \in Seq(Int)
      BY EmptySeq
    <2> QED BY <2>1, PacketRead
  <1>3. x \in Seq(Int)
    BY <1>2
  <1>4. s \in Seq(Seq(Int)) /\ Len(s) = n /\ \A i \in 1 .. n : s[i] = Wanted(es[i])
    <2>1. \A i \in 1 .. n : Wanted(es[i]) \in Seq(Int)
      BY <1>1, <1>2
    <2> DEFINE S == Seq(Int)
    <2>2. s \in [1 .. n -> S]
      BY <2>1
    <2> HIDE DEF S
    <2>3. s \in Seq(S)
      BY <1>1, <2>2, SeqDef
    <2>4. Len(s) = n
      BY <1>1, <2>3, LenProperties
    <2> QED BY <2>3, <2>4 DEF S
  <1>5. BytesOfEvents(es) = FlattenSeq(s)
    BY <1>1 DEF BytesOfEvents
  <1>6. /\ FlattenSeq(s) \in Seq(Int)
        /\ FlattenSeq(Append(s, x)) = FlattenSeq(s) \o x
        /\ FlattenSeq(<<x>> \o s) = x \o FlattenSeq(s)
    <2> HIDE DEF s, x
    <2> QED BY <1>3, <1>4, FlattenAppend, FlattenFront
  <1>7. [i \in DOMAIN more |-> Wanted(more[i])] = Append(s, x)
    <2> DEFINE t == Append(s, x)
    <2>1. DOMAIN more = 1 .. n + 1 /\ more[n + 1] = e /\ \A i \in 1 .. n : more[i] = es[i]
      BY <1>1
    <2>2. t \in Seq(Seq(Int)) /\ Len(t) = n + 1 /\ t[n + 1] = x /\ \A i \in 1 .. n : t[i] = s[i]
      <3> DEFINE S == Seq(Int)
      <3>1. s \in Seq(S) /\ x \in S /\ Len(s) = n
        BY <1>3, <1>4
      <3> HIDE DEF s, x, S
      <3>2. t \in Seq(S) /\ Len(t) = Len(s) + 1 /\ t[Len(s) + 1] = x
            /\ \A i \in 1 .. Len(s) : t[i] = s[i]
        BY <3>1, AppendProperties
      <3> QED BY <3>1, <3>2 DEF S
    <2> HIDE DEF t, more, s, n
    <2>3. \A i \in 1 .. n + 1 : t[i] = Wanted(more[i])
      <3> SUFFICES ASSUME NEW i \in 1 .. n + 1 PROVE t[i] = Wanted(more[i])
        OBVIOUS
      <3>1. CASE i = n + 1
        BY <2>1, <2>2, <3>1
      <3>2. CASE i \in 1 .. n
        BY <1>4, <2>1, <2>2, <3>2
      <3> QED BY <1>1, <3>1, <3>2
    <2>4. t = [i \in 1 .. n + 1 |-> t[i]]
      <3>1. DOMAIN t = 1 .. Len(t) /\ t = [i \in DOMAIN t |-> t[i]]
        BY <2>2, LenProperties
      <3> QED BY <2>2, <3>1
    <2>5. [i \in 1 .. n + 1 |-> t[i]] = [i \in 1 .. n + 1 |-> Wanted(more[i])]
      BY <2>3
    <2> QED BY <2>1, <2>4, <2>5 DEF t
  <1>8. [i \in DOMAIN front |-> Wanted(front[i])] = <<x>> \o s
    <2> DEFINE t == <<x>> \o s
    <2>1. DOMAIN front = 1 .. n + 1 /\ front[1] = e /\ \A i \in 1 .. n : front[i + 1] = es[i]
      <3>1. /\ front \in Seq(U) /\ Len(front) = Len(es) + 1 /\ front[1] = e
            /\ \A i \in 1 .. Len(es) : front[i + 1] = es[i]
        BY InFrontOf
      <3> HIDE DEF front
      <3> QED BY <3>1, LenProperties
    <2>2. t \in Seq(Seq(Int)) /\ Len(t) = n + 1 /\ t[1] = x /\ \A i \in 1 .. n : t[i + 1] = s[i]
      <3> DEFINE S == Seq(Int)
      <3>1. s \in Seq(S) /\ x \in S /\ Len(s) = n
        BY <1>3, <1>4
      <3> HIDE DEF s, x, S
      <3>2. t \in Seq(S) /\ Len(t) = Len(s) + 1 /\ t[1] = x
            /\ \A i \in 1 .. Len(s) : t[i + 1] = s[i]
        BY <3>1, InFrontOf
      <3> QED BY <3>1, <3>2 DEF S
    <2> HIDE DEF t, front, s, n
    <2>3. \A i \in 1 .. n + 1 : t[i] = Wanted(front[i])
      <3> SUFFICES ASSUME NEW i \in 1 .. n + 1 PROVE t[i] = Wanted(front[i])
        OBVIOUS
      <3>1. CASE i = 1
        BY <2>1, <2>2, <3>1
      <3>2. CASE i # 1
        <4> DEFINE j == i - 1
        <4>1. j \in 1 .. n /\ i = j + 1
          BY <1>1, <3>2
        <4> HIDE DEF j
        <4> QED BY <1>4, <2>1, <2>2, <4>1
      <3> QED BY <3>1, <3>2
    <2>4. t = [i \in 1 .. n + 1 |-> t[i]]
      <3>1. DOMAIN t = 1 .. Len(t) /\ t = [i \in DOMAIN t |-> t[i]]
        BY <2>2, LenProperties
      <3> QED BY <2>2, <3>1
    <2>5. [i \in 1 .. n + 1 |-> t[i]] = [i \in 1 .. n + 1 |-> Wanted(front[i])]
      BY <2>3
    <2> QED BY <2>1, <2>4, <2>5 DEF t
  <1>9. BytesOfEvents(more) = FlattenSeq(Append(s, x))
    BY <1>7 DEF BytesOfEvents
  <1>10. BytesOfEvents(front) = FlattenSeq(<<x>> \o s)
    BY <1>8 DEF BytesOfEvents
  <1> QED BY <1>5, <1>6, <1>9, <1>10

\* No event, no byte.
LEMMA NoEvent == BytesOfEvents(<< >>) = << >>
  <1>1. [i \in DOMAIN << >> |-> Wanted(<< >>[i])] = << >>
    <2> DEFINE f == [i \in DOMAIN << >> |-> Wanted(<< >>[i])]
    <2>1. f \in Seq({}) /\ Len(f) = 0
      <3>1. f \in [1 .. 0 -> {}]
        BY EmptySeq, LenProperties
      <3>2. f \in Seq({})
        BY <3>1, SeqDef
      <3> QED BY <3>1, <3>2, LenProperties
    <2> HIDE DEF f
    <2>2. f = << >>
      BY <2>1, EmptySeq
    <2> QED BY <2>2 DEF f
  <1> QED BY <1>1, FlattenNone DEF BytesOfEvents

-----------------------------------------------------------------------------
(* What the steps of the control path keep                                 *)

\* The same for the next state, the target being the same.
LEMMA AtPacketNext ==
  ASSUME target' = target
  PROVE  AtPacket' <=> /\ Len(got') <= Len(written')
                       /\ \A i \in 1 .. Len(got') : got'[i] = Meant(sent'[written'[i]])
                       /\ conn' = BytesOfEvents(Unread')
  <1>1. Layouts' = Layouts
    BY DEF Layouts
  <1>2. BytesOfEvents(Unread)' = BytesOfEvents(Unread')
    BY <1>1 DEF BytesOfEvents, Wanted, Meant
  <1>3. \A x : Meant(x)' = Meant(x)
    BY MeantSame
  <1>4. (\A i \in 1 .. Len(got) : got[i] = Meant(sent[written[i]]))'
          <=> \A i \in 1 .. Len(got') : got'[i] = Meant(sent'[written'[i]])
    BY <1>1 DEF Meant
  <1> QED BY <1>2, <1>4 DEF AtPacket

\* What is to be written of different events is different.
LEMMA ToWriteOf ==
  /\ \A i : ToWrite(i) # << >> /\ Tail(ToWrite(i)) = << >>
            /\ Head(ToWrite(i)) = [event |-> i, bytes |-> Wanted(sent[i]), ends |-> TRUE]
  /\ \A i, j : ToWrite(i) = ToWrite(j) => i = j
  <1>1. ASSUME NEW x PROVE <<x>> # << >> /\ Tail(<<x>>) = << >> /\ Head(<<x>>) = x
    OBVIOUS
  <1>2. ASSUME NEW x, NEW y, <<x>> = <<y>> PROVE x = y
    BY <1>2
  <1>3. ASSUME NEW i, NEW j, ToWrite(i) = ToWrite(j) PROVE i = j
    <2> DEFINE x == [event |-> i, bytes |-> Wanted(sent[i]), ends |-> TRUE]
               y == [event |-> j, bytes |-> Wanted(sent[j]), ends |-> TRUE]
    <2>1. <<x>> = <<y>>
      BY <1>3 DEF ToWrite
    <2>2. x.event = i /\ y.event = j
      OBVIOUS
    <2> HIDE DEF x, y
    <2>3. x = y
      BY <1>2, <2>1
    <2> QED BY <2>2, <2>3
  <1> QED BY <1>1, <1>3 DEF ToWrite

\* What is known of the events, the numbers and the sequences.
LEMMA ControlTyped ==
  ASSUME ControlTypeOK
  PROVE  /\ Len(sent) \in Nat /\ Len(written) \in Nat /\ Len(got) \in Nat
         /\ DOMAIN sent = 1 .. Len(sent) /\ DOMAIN got = 1 .. Len(got)
         /\ \A i \in 1 .. Len(sent) : sent[i] \in user /\ Possible(sent[i], target)
         /\ \A n \in 1 .. Len(written) : written[n] \in 1 .. Len(sent)
  <1>1. sent \in Seq(user) /\ written \in Seq(1 .. Len(sent)) /\ got \in Seq(ToSet(got))
        /\ \A e \in user : Possible(e, target)
    BY DEF ControlTypeOK
  <1>2. Len(sent) \in Nat /\ DOMAIN sent = 1 .. Len(sent) /\ Len(written) \in Nat
        /\ Len(got) \in Nat /\ DOMAIN got = 1 .. Len(got)
    BY <1>1, LenProperties
  <1>3. \A i \in 1 .. Len(sent) : sent[i] \in user
    BY <1>1, ElementOfSeq
  <1>4. \A n \in 1 .. Len(written) : written[n] \in 1 .. Len(sent)
    BY <1>1, ElementOfSeq
  <1> QED BY <1>1, <1>2, <1>3, <1>4

\* The events that are not yet read.
LEMMA UnreadIs ==
  ASSUME ControlTypeOK, Len(got) <= Len(written)
  PROVE  /\ Unread \in Seq(user) /\ Len(Unread) = Len(written) - Len(got)
         /\ \A i \in 1 .. Len(Unread) : Unread[i] = sent[written[Len(got) + i]]
  <1> DEFINE n == Len(written) - Len(got)
  <1>1. n \in Nat /\ Len(got) \in Nat /\ Len(written) \in Nat
    BY ControlTyped
  <1>2. \A i \in 1 .. n : sent[written[Len(got) + i]] \in user
    <2>1. \A i \in 1 .. n : Len(got) + i \in 1 .. Len(written)
      BY <1>1
    <2> QED BY <2>1, ControlTyped
  <1>3. Unread \in [1 .. n -> user] /\ \A i \in 1 .. n : Unread[i] = sent[written[Len(got) + i]]
    BY <1>2 DEF Unread
  <1> HIDE DEF n
  <1>4. Unread \in Seq(user)
    BY <1>1, <1>3, SeqDef
  <1>5. Len(Unread) = n
    BY <1>1, <1>3, <1>4, LenProperties
  <1> QED BY <1>3, <1>4, <1>5 DEF n

\* What leaves the keys and what was read alone.
LEMMA KeysSame ==
  ASSUME ControlTypeOK, Len(got) <= Len(written), KeysOfRead,
         target' = target, keys' = keys, got' = got,
         \A i \in 1 .. Len(got) : sent'[written'[i]] = sent[written[i]],
         NoMetaLeft' => NoMetaLeft
  PROVE  KeysOfRead'
  <1>1. Len(got) \in Nat
    BY ControlTyped
  <1>2. ReadDown' = ReadDown
    <2>1. ASSUME NEW k, NEW i \in 1 .. Len(got)
          PROVE  (\A j \in i + 1 .. Len(got) : sent'[written'[j]] # KeyEvent(1, k))
                   <=> \A j \in i + 1 .. Len(got) : sent[written[j]] # KeyEvent(1, k)
      <3>1. \A j \in i + 1 .. Len(got) : j \in 1 .. Len(got)
        BY <1>1
      <3> QED BY <3>1
    <2> QED BY <2>1 DEF ReadDown
  <1>3. CodesOf(ReadDown)' = CodesOf(ReadDown)
    BY <1>2 DEF CodesOf
  <1> QED BY <1>3 DEF KeysOfRead

\* The user causes an event.
LEMMA PageSendsKeeps ==
  ASSUME ControlSafe, NEW e \in user, PageSends(e), open' = open
  PROVE  ControlSafe'
  <1> DEFINE L == Len(sent)
  <1>1. /\ sent' = Append(sent, e) /\ pending' = pending \cup {L + 1}
        /\ target' = target /\ user' = user /\ out' = out /\ written' = written /\ conn' = conn
        /\ serving' = serving /\ got' = got /\ keys' = keys
    BY DEF PageSends
  <1>2. /\ sent \in Seq(user) /\ Len(got) <= Len(written) /\ written \in Seq(1 .. L)
        /\ pending \subseteq 1 .. L
    BY DEF ControlSafe, ControlTypeOK, AtPacket
  <1>3. /\ L \in Nat /\ Len(written) \in Nat /\ Len(got) \in Nat /\ DOMAIN sent = 1 .. L
        /\ \A n \in 1 .. Len(written) : written[n] \in 1 .. L
    BY ControlTyped DEF ControlSafe
  <1>4. /\ sent' \in Seq(user) /\ Len(sent') = L + 1 /\ sent'[L + 1] = e
        /\ DOMAIN sent' = 1 .. L + 1
        /\ \A i \in 1 .. L : sent'[i] = sent[i]
    BY <1>1, <1>2, AppendProperties, LenProperties
  <1> HIDE DEF L
  <1>5. \A i \in 1 .. L : ToWrite(i)' = ToWrite(i)
    <2> SUFFICES ASSUME NEW i \in 1 .. L PROVE ToWrite(i)' = ToWrite(i)
      OBVIOUS
    <2>1. Layouts' = Layouts
      BY <1>1 DEF Layouts
    <2>2. sent'[i] = sent[i]
      BY <1>4
    <2> QED BY <1>1, <2>1, <2>2 DEF ToWrite, Wanted, Meant
  <1>6. \A i \in 1 .. L : Ordered(i)' <=> Ordered(i)
    BY <1>4 DEF Ordered
  <1>7. ControlTypeOK'
    <2>1. \A x \in user' : Possible(x, target')
      BY <1>1 DEF ControlSafe, ControlTypeOK
    <2>2. pending' \subseteq 1 .. Len(sent')
      BY <1>1, <1>2, <1>3, <1>4
    <2>3. \A c \in Channels :
            out'[c] = << >> \/ \E i \in 1 .. Len(sent') : ChannelOf(sent'[i]) = c /\ out'[c] = ToWrite(i)'
      <3> SUFFICES ASSUME NEW c \in Channels, out[c] # << >>
                   PROVE  \E i \in 1 .. Len(sent') : ChannelOf(sent'[i]) = c /\ out'[c] = ToWrite(i)'
        BY <1>1
      <3>1. PICK i \in 1 .. L : ChannelOf(sent[i]) = c /\ out[c] = ToWrite(i)
        BY DEF ControlSafe, ControlTypeOK, L
      <3>2. i \in 1 .. Len(sent') /\ ChannelOf(sent'[i]) = c
        BY <1>3, <1>4, <3>1
      <3> QED BY <1>1, <1>5, <3>1, <3>2
    <2>4. written' \in Seq(1 .. Len(sent'))
      <3>1. written \in [1 .. Len(written) -> 1 .. L + 1]
        <4>1. \A n \in 1 .. Len(written) : written[n] \in 1 .. L + 1
          BY <1>3
        <4>2. DOMAIN written = 1 .. Len(written) /\ written = [n \in DOMAIN written |-> written[n]]
          BY <1>2, LenProperties
        <4> QED BY <4>1, <4>2
      <3> QED BY <1>1, <1>3, <1>4, <3>1, SeqDef
    <2>5. DOMAIN out' = Channels /\ got' \in Seq(ToSet(got'))
          /\ target' \in {"x11", "wayland", "android"}
      BY <1>1 DEF ControlSafe, ControlTypeOK
    <2> QED BY <1>1, <1>4, <2>1, <2>2, <2>3, <2>4, <2>5 DEF ControlTypeOK
  <1>8. \A i \in 1 .. Len(got) : i \in 1 .. Len(written)
    BY <1>2, <1>3
  <1>9. AtPacket'
    <2>1. \A i \in 1 .. Len(got') : got'[i] = Meant(sent'[written'[i]])
      BY <1>1, <1>3, <1>4, <1>8 DEF ControlSafe, AtPacket
    <2>2. Unread' = Unread
      <3>1. \A i \in 1 .. Len(written) - Len(got) : Len(got) + i \in 1 .. Len(written)
        BY <1>3
      <3> QED BY <1>1, <1>3, <1>4, <3>1 DEF Unread
    <2> QED BY <1>1, <1>2, <2>1, <2>2, AtPacketNext DEF ControlSafe, AtPacket
  <1>10. \A i \in 1 .. L + 1 : out["ordered"] = ToWrite(i)' => i \in 1 .. L /\ out["ordered"] = ToWrite(i)
    <2> SUFFICES ASSUME NEW i \in 1 .. L + 1, out["ordered"] = ToWrite(i)' PROVE i \in 1 .. L
      BY <1>5
    <2>1. out["ordered"][1].event = i
      BY DEF ToWrite
    <2>2. out["ordered"] # << >>
      BY DEF ToWrite
    <2>3. PICK j \in 1 .. L : out["ordered"] = ToWrite(j)
      BY <2>2 DEF ControlSafe, ControlTypeOK, Channels, L
    <2>4. out["ordered"][1].event = j
      BY <2>3 DEF ToWrite
    <2> QED BY <2>1, <2>4
  <1>11. OrderedWritten'
    <2> USE DEF ControlSafe, OrderedWritten
    <2>1. \A m, n \in 1 .. Len(written') :
            m < n /\ Ordered(written[m])' /\ Ordered(written[n])' => written'[m] < written'[n]
      BY <1>1, <1>3, <1>4 DEF Ordered
    <2>2. \A n \in 1 .. Len(written'), i \in 1 .. Len(sent') :
            Ordered(written[n])' /\ Ordered(i)' /\ (i \in pending' \/ out'["ordered"] = ToWrite(i)')
              => written'[n] < i
      <3> SUFFICES ASSUME NEW n \in 1 .. Len(written), NEW i \in 1 .. L + 1, Ordered(written[n])',
                          Ordered(i)', i \in pending' \/ out["ordered"] = ToWrite(i)'
                   PROVE  written[n] < i
        BY <1>1, <1>4
      <3>1. written[n] \in 1 .. L
        BY <1>3
      <3>2. Ordered(written[n])
        BY <1>1, <1>4, <3>1 DEF Ordered
      <3>3. CASE i = L + 1
        BY <1>3, <3>1, <3>3
      <3>4. CASE i \in 1 .. L
        <4>1. Ordered(i) /\ (i \in pending \/ out["ordered"] = ToWrite(i))
          BY <1>1, <1>3, <1>6, <1>10, <3>4
        <4> QED BY <3>2, <3>4, <4>1 DEF L
      <3> QED BY <1>3, <3>3, <3>4
    <2>3. \A i, p \in 1 .. Len(sent') :
            Ordered(i)' /\ Ordered(p)' /\ out'["ordered"] = ToWrite(i)' /\ p \in pending' => i < p
      <3> SUFFICES ASSUME NEW i \in 1 .. L + 1, NEW p \in 1 .. L + 1, Ordered(i)', Ordered(p)',
                          out["ordered"] = ToWrite(i)', p \in pending'
                   PROVE  i < p
        BY <1>1, <1>4
      <3>1. i \in 1 .. L /\ out["ordered"] = ToWrite(i) /\ Ordered(i)
        BY <1>6, <1>10
      <3>2. CASE p = L + 1
        BY <1>3, <3>1, <3>2
      <3>3. CASE p \in 1 .. L
        <4>1. Ordered(p) /\ p \in pending
          BY <1>1, <1>3, <1>6, <3>3
        <4> QED BY <3>1, <3>3, <4>1 DEF L
      <3> QED BY <1>3, <3>2, <3>3
    <2> QED BY <2>1, <2>2, <2>3
  <1>12. NoneLost => NoneLost'
    <2> SUFFICES ASSUME NoneLost, NEW i \in 1 .. L + 1, Ordered(i)'
                 PROVE  i \in pending' \/ out'["ordered"] = ToWrite(i)'
                        \/ \E n \in 1 .. Len(written') : written'[n] = i
      BY <1>4 DEF NoneLost
    <2>1. CASE i = L + 1
      BY <1>1, <2>1
    <2>2. CASE i \in 1 .. L
      BY <1>1, <1>5, <1>6, <2>2 DEF NoneLost, L
    <2> QED BY <1>3, <2>1, <2>2
  <1>13. KeysOfRead'
    <2>1. NoMetaLeft' => NoMetaLeft
      <3> SUFFICES ASSUME NoMetaLeft', target = "x11", NEW i \in 1 .. L, NEW a \in 0 .. 1
                   PROVE  sent[i] # KeyEvent(a, "MetaLeft")
        BY <1>3 DEF NoMetaLeft
      <3>1. i \in DOMAIN sent' /\ sent'[i] = sent[i]
        BY <1>3, <1>4
      <3> QED BY <1>1, <3>1 DEF NoMetaLeft
    <2>2. \A i \in 1 .. Len(got) : sent'[written'[i]] = sent[written[i]]
      BY <1>1, <1>3, <1>4, <1>8
    <2> QED BY <1>1, <1>2, <2>1, <2>2, KeysSame DEF ControlSafe
  <1> QED BY <1>1, <1>7, <1>9, <1>11, <1>12, <1>13 DEF ControlSafe

\* A goroutine that takes an event has its packet to write, at once.
LEMMA OnePacket ==
  ASSUME ControlTypeOK, NEW i \in 1 .. Len(sent)
  PROVE  LET packets == {Packet(e) : e \in ParseEvent(PagePacket(sent[i]), Size)} \ {<< >>}
         IN  FlattenSeq([n \in DOMAIN SetToSeq(packets) |->
                           LET parts == Writes(SetToSeq(packets)[n])
                           IN  [k \in DOMAIN parts |-> [event |-> i, bytes |-> parts[k],
                                                        ends |-> k = Len(parts)]]])
             = ToWrite(i)
  <1> DEFINE e == sent[i]
             b == Wanted(e)
             packets == {Packet(p) : p \in ParseEvent(PagePacket(e), Size)} \ {<< >>}
             x == [event |-> i, bytes |-> b, ends |-> TRUE]
             PiecesOf(p) == [k \in DOMAIN Writes(p) |-> [event |-> i, bytes |-> Writes(p)[k],
                                                        ends |-> k = Len(Writes(p))]]
  <1>1. target \in {"x11", "wayland", "android"} /\ Possible(e, target)
    BY ControlTyped DEF ControlTypeOK
  <1>2. {Packet(p) : p \in ParseEvent(PagePacket(e), Size)} = {b}
    BY <1>1, EventsArriveAsMeant DEF Delivers
  <1>3. b # << >>
    <2>1. << >> \in Seq(Int)
      BY EmptySeq
    <2> QED BY <1>1, <2>1, PacketRead
  <1>4. SetToSeq(packets) = <<b>>
    <2>1. packets = {b}
      BY <1>2, <1>3
    <2> QED BY <2>1, AsSeq
  <1>5. PiecesOf(b) = <<x>>
    <2> HIDE DEF b
    <2>1. Writes(b) = <<b>>
      BY DEF Writes
    <2>2. [k \in DOMAIN <<b>> |-> [event |-> i, bytes |-> <<b>>[k], ends |-> k = Len(<<b>>)]] = <<x>>
      <3> DEFINE R(k) == [event |-> i, bytes |-> <<b>>[k], ends |-> k = Len(<<b>>)]
      <3>1. R(1) = x
        <4>1. (1 = Len(<<b>>)) = TRUE /\ <<b>>[1] = b
          OBVIOUS
        <4> QED BY <4>1
      <3> HIDE DEF R, x
      <3>2. [k \in DOMAIN <<b>> |-> R(k)] = <<R(1)>>
        BY SMT
      <3> QED BY <3>1, <3>2 DEF R
    <2> QED BY <2>1, <2>2
  <1>6. [n \in DOMAIN SetToSeq(packets) |-> PiecesOf(SetToSeq(packets)[n])] = << <<x>> >>
    <2> DEFINE s == SetToSeq(packets)
               y == <<x>>
    <2>1. s = <<b>> /\ PiecesOf(b) = y
      BY <1>4, <1>5
    <2> HIDE DEF PiecesOf, b, y, s
    <2>2. [n \in DOMAIN <<b>> |-> PiecesOf(<<b>>[n])] = <<y>>
      <3>1. [n \in DOMAIN <<b>> |-> PiecesOf(<<b>>[n])] = <<PiecesOf(b)>>
        BY SMT
      <3> QED BY <2>1, <3>1
    <2>3. [n \in DOMAIN s |-> PiecesOf(s[n])] = <<y>>
      BY <2>1, <2>2
    <2> QED BY <2>3 DEF s, y
  <1>7. FlattenSeq(<< <<x>> >>) = <<x>>
    <2> DEFINE S == {x}
               y == <<x>>
               s == << >>
    <2>1. y \in Seq(S) /\ s \in Seq(Seq(S)) /\ << >> \in Seq(S)
      BY EmptySeq
    <2>2. FlattenSeq(s) = << >>
      BY FlattenNone
    <2>3. Append(s, y) = <<y>>
      OBVIOUS
    <2> HIDE DEF S, y, s
    <2>4. FlattenSeq(Append(s, y)) = FlattenSeq(s) \o y
      BY <2>1, FlattenAppend
    <2>5. << >> \o y = y
      BY <2>1, ConcatOf
    <2> QED BY <2>2, <2>3, <2>4, <2>5 DEF y
  <1>8. <<x>> = ToWrite(i)
    BY DEF ToWrite
  <1> QED BY <1>6, <1>7, <1>8

\* The next packet of a channel is taken.
LEMMA HandleEventKeeps ==
  ASSUME ControlSafe, NEW c \in Channels, HandleEvent(c), open' = open
  PROVE  ControlSafe'
  <1>1. PICK i \in Arrived(c) :
          /\ c = "ordered" => i = Min(Arrived(c))
          /\ pending' = pending \ {i}
          /\ LET packets == {Packet(e) : e \in ParseEvent(PagePacket(sent[i]), Size)} \ {<< >>}
             IN  out' = [out EXCEPT ![c] =
                FlattenSeq([n \in DOMAIN SetToSeq(packets) |->
                              LET parts == Writes(SetToSeq(packets)[n])
                              IN  [k \in DOMAIN parts |-> [event |-> i, bytes |-> parts[k],
                                                           ends |-> k = Len(parts)]]])]
    BY DEF HandleEvent
  <1>2. /\ target' = target /\ user' = user /\ sent' = sent /\ written' = written /\ conn' = conn
        /\ serving' = serving /\ got' = got /\ keys' = keys /\ out[c] = << >>
    BY DEF HandleEvent
  <1>3. /\ pending \subseteq 1 .. Len(sent) /\ DOMAIN out = Channels /\ Len(got) <= Len(written)
        /\ i \in pending /\ ChannelOf(sent[i]) = c /\ i \in 1 .. Len(sent)
    BY DEF ControlSafe, ControlTypeOK, AtPacket, Arrived
  <1>4. out' = [out EXCEPT ![c] = ToWrite(i)]
    BY <1>1, <1>3, OnePacket DEF ControlSafe
  <1>5. out'[c] = ToWrite(i) /\ DOMAIN out' = Channels
        /\ \A d \in Channels \ {c} : out'[d] = out[d]
    BY <1>3, <1>4
  <1>6. pending' = pending \ {i}
    BY <1>1
  <1>7. /\ Len(sent) \in Nat /\ Len(written) \in Nat /\ Len(got) \in Nat
        /\ \A n \in 1 .. Len(written) : written[n] \in 1 .. Len(sent)
    BY ControlTyped DEF ControlSafe
  <1>8. \A j : ToWrite(j)' = ToWrite(j)
    <2>1. Layouts' = Layouts
      BY <1>2 DEF Layouts
    <2> QED BY <1>2, <2>1 DEF ToWrite, Wanted, Meant
  <1>9. \A j : Ordered(j)' <=> Ordered(j)
    BY <1>2 DEF Ordered
  <1>10. ControlTypeOK'
    <2>1. \A d \in Channels :
            out'[d] = << >> \/ \E j \in 1 .. Len(sent') : ChannelOf(sent'[j]) = d /\ out'[d] = ToWrite(j)'
      <3> SUFFICES ASSUME NEW d \in Channels, out'[d] # << >>
                   PROVE  \E j \in 1 .. Len(sent) : ChannelOf(sent[j]) = d /\ out'[d] = ToWrite(j)
        BY <1>2, <1>8
      <3>1. CASE d = c
        BY <1>3, <1>5, <3>1
      <3>2. CASE d # c
        BY <1>5, <3>2 DEF ControlSafe, ControlTypeOK
      <3> QED BY <3>1, <3>2
    <2>2. /\ sent' \in Seq(user') /\ pending' \subseteq 1 .. Len(sent') /\ written' \in Seq(1 .. Len(sent'))
          /\ got' \in Seq(ToSet(got'))
          /\ target' \in {"x11", "wayland", "android"}
          /\ \A x \in user' : Possible(x, target')
      BY <1>2, <1>6 DEF ControlSafe, ControlTypeOK
    <2> QED BY <1>5, <2>1, <2>2 DEF ControlTypeOK
  <1>11. AtPacket'
    <2>1. Unread' = Unread
      BY <1>2 DEF Unread
    <2> QED BY <1>2, <2>1, AtPacketNext DEF ControlSafe, AtPacket
  <1>12. OrderedWritten' /\ (NoneLost => NoneLost')
    <2>1. CASE c = "unordered"
      <3>1. out'["ordered"] = out["ordered"] /\ ~Ordered(i)
        BY <1>3, <1>5, <2>1 DEF Channels, Ordered
      <3>2. OrderedWritten'
        BY <1>2, <1>6, <1>8, <1>9, <3>1 DEF ControlSafe, OrderedWritten
      <3>3. NoneLost => NoneLost'
        BY <1>2, <1>6, <1>8, <1>9, <3>1 DEF NoneLost
      <3> QED BY <3>2, <3>3
    <2>2. CASE c = "ordered"
      <3>1. out'["ordered"] = ToWrite(i) /\ Ordered(i) /\ out["ordered"] = << >>
        BY <1>2, <1>3, <1>5, <2>2 DEF Ordered
      <3>2. \A j : out'["ordered"] = ToWrite(j) => j = i
        BY <3>1, ToWriteOf
      <3>3. \A p \in pending \ {i} : Ordered(p) => i < p
        <4> SUFFICES ASSUME NEW p \in pending \ {i}, Ordered(p) PROVE i < p
          OBVIOUS
        <4> DEFINE A == Arrived(c)
        <4>1. p \in A /\ i \in A /\ i = Min(A)
          BY <1>1, <1>3, <2>2 DEF Arrived, Ordered
        <4>2. A \subseteq Nat /\ A \subseteq Int
          <5>1. A \subseteq pending
            BY DEF Arrived
          <5>2. pending \subseteq Nat
            BY <1>3, <1>7
          <5> HIDE DEF A
          <5>3. A \subseteq Nat
            BY <5>1, <5>2
          <5> QED BY <5>3
        <4>3. A # {} /\ \E m \in A : \A n \in A : m <= n
          <5> HIDE DEF A
          <5> QED BY <4>1, <4>2, LeastOf
        <4> HIDE DEF A
        <4>4. PICK m \in A : \A n \in A : m <= n
          BY <4>3
        <4>5. Min(A) = m
          BY <4>2, <4>4, MinIs
        <4> QED BY <4>1, <4>2, <4>4, <4>5
      <3>4. OrderedWritten'
        <4>1. \A m, n \in 1 .. Len(written') :
                m < n /\ Ordered(written[m])' /\ Ordered(written[n])' => written'[m] < written'[n]
          BY <1>2 DEF ControlSafe, OrderedWritten, Ordered
        <4>2. \A n \in 1 .. Len(written'), j \in 1 .. Len(sent') :
                Ordered(written[n])' /\ Ordered(j)' /\ (j \in pending' \/ out'["ordered"] = ToWrite(j)')
                  => written'[n] < j
          <5> SUFFICES ASSUME NEW n \in 1 .. Len(written), NEW j \in 1 .. Len(sent),
                              Ordered(written[n])', Ordered(j)',
                              j \in pending' \/ out'["ordered"] = ToWrite(j)'
                       PROVE  written[n] < j
            BY <1>2
          <5>1. Ordered(written[n]) /\ Ordered(j)
            BY <1>2 DEF Ordered
          <5>2. j \in pending
            BY <1>3, <1>6, <1>8, <3>2
          <5> QED BY <5>1, <5>2 DEF ControlSafe, OrderedWritten
        <4>3. \A j, p \in 1 .. Len(sent') :
                Ordered(j)' /\ Ordered(p)' /\ out'["ordered"] = ToWrite(j)' /\ p \in pending' => j < p
          BY <1>2, <1>6, <1>8, <1>9, <3>2, <3>3
        <4> QED BY <4>1, <4>2, <4>3 DEF OrderedWritten
      <3>5. NoneLost => NoneLost'
        <4> SUFFICES ASSUME NoneLost, NEW j \in 1 .. Len(sent), Ordered(j)
                     PROVE  j \in pending' \/ out'["ordered"] = ToWrite(j)
                            \/ \E n \in 1 .. Len(written) : written[n] = j
          BY <1>2, <1>8, <1>9 DEF NoneLost
        <4>1. out["ordered"] # ToWrite(j)
          BY <3>1, ToWriteOf
        <4> QED BY <1>6, <3>1, <4>1 DEF NoneLost
      <3> QED BY <3>4, <3>5
    <2> QED BY <2>1, <2>2 DEF Channels
  <1>13. KeysOfRead'
    <2>1. NoMetaLeft' => NoMetaLeft
      BY <1>2 DEF NoMetaLeft
    <2> QED BY <1>2, <1>3, <2>1, KeysSame DEF ControlSafe
  <1> QED BY <1>2, <1>10, <1>11, <1>12, <1>13 DEF ControlSafe

\* One more in a sequence of any kind.
LEMMA OneMoreOf ==
  ASSUME NEW S, NEW s \in Seq(S), NEW x
  PROVE  /\ Append(s, x) \in Seq(S \cup {x}) /\ Append(s, x) \in Seq(ToSet(Append(s, x)))
         /\ Len(Append(s, x)) = Len(s) + 1 /\ Append(s, x)[Len(s) + 1] = x
         /\ \A i \in 1 .. Len(s) : Append(s, x)[i] = s[i]
  <1> DEFINE T == S \cup {x}
             t == Append(s, x)
  <1>1. s \in Seq(T) /\ x \in T
    <2>1. Len(s) \in Nat /\ s \in [1 .. Len(s) -> S]
      BY LenProperties
    <2>2. s \in [1 .. Len(s) -> T]
      BY <2>1
    <2> HIDE DEF T
    <2>3. s \in Seq(T)
      BY <2>1, <2>2, SeqDef
    <2> QED BY <2>3 DEF T
  <1> HIDE DEF T
  <1>2. /\ t \in Seq(T) /\ Len(t) = Len(s) + 1 /\ t[Len(s) + 1] = x
        /\ \A i \in 1 .. Len(s) : t[i] = s[i]
    BY <1>1, AppendProperties
  <1> HIDE DEF t
  <1>3. t \in Seq(ToSet(t))
    BY <1>2, OfItsOwn
  <1> QED BY <1>2, <1>3 DEF t, T

\* A packet goes onto the connection, or is lost with it.
LEMMA SendEventKeeps ==
  ASSUME ControlSafe, NEW c \in Channels, SendEvent(c, open), open' = open
  PROVE  ControlSafe'
  <1>1. /\ target' = target /\ user' = user /\ sent' = sent /\ pending' = pending
        /\ serving' = serving /\ got' = got /\ keys' = keys
        /\ out[c] # << >> /\ out' = [out EXCEPT ![c] = Tail(@)]
    BY DEF SendEvent
  <1>2. DOMAIN out = Channels /\ Len(got) <= Len(written) /\ conn = BytesOfEvents(Unread)
        /\ sent \in Seq(user) /\ written \in Seq(1 .. Len(sent)) /\ got \in Seq(ToSet(got))
        /\ pending \subseteq 1 .. Len(sent)
    BY DEF ControlSafe, ControlTypeOK, AtPacket
  <1>3. PICK i \in 1 .. Len(sent) : ChannelOf(sent[i]) = c /\ out[c] = ToWrite(i)
    BY <1>1 DEF ControlSafe, ControlTypeOK
  <1>4. out'[c] = << >> /\ DOMAIN out' = Channels
        /\ \A d \in Channels \ {c} : out'[d] = out[d]
    BY <1>1, <1>2, <1>3, ToWriteOf
  <1>5. Head(out[c]).event = i /\ Head(out[c]).bytes = Wanted(sent[i]) /\ Head(out[c]).ends = TRUE
    <2> DEFINE x == Head(out[c])
    <2>1. x = [event |-> i, bytes |-> Wanted(sent[i]), ends |-> TRUE]
      BY <1>3, ToWriteOf
    <2> HIDE DEF x
    <2> QED BY <2>1 DEF x
  <1>6. IF open THEN conn' = conn \o Wanted(sent[i]) /\ written' = Append(written, i)
        ELSE conn' = conn /\ written' = written
    BY <1>5 DEF SendEvent
  <1>7. /\ Len(sent) \in Nat /\ Len(written) \in Nat /\ Len(got) \in Nat
        /\ \A n \in 1 .. Len(sent) : sent[n] \in user
        /\ \A n \in 1 .. Len(written) : written[n] \in 1 .. Len(sent)
    BY ControlTyped DEF ControlSafe
  <1>8. \A j : ToWrite(j)' = ToWrite(j)
    <2>1. Layouts' = Layouts
      BY <1>1 DEF Layouts
    <2> QED BY <1>1, <2>1 DEF ToWrite, Wanted, Meant
  <1>9. \A j : Ordered(j)' <=> Ordered(j)
    BY <1>1 DEF Ordered
  <1>10. \A j : out'["ordered"] = ToWrite(j) => out["ordered"] = ToWrite(j)
    <2>1. CASE c = "ordered"
      BY <1>4, <2>1, ToWriteOf
    <2>2. CASE c # "ordered"
      BY <1>4, <2>2 DEF Channels
    <2> QED BY <2>1, <2>2
  <1>11. ASSUME written' \in Seq(1 .. Len(sent))
         PROVE  ControlTypeOK'
    <2>1. \A d \in Channels :
            out'[d] = << >> \/ \E j \in 1 .. Len(sent') : ChannelOf(sent'[j]) = d /\ out'[d] = ToWrite(j)'
      BY <1>1, <1>4, <1>8 DEF ControlSafe, ControlTypeOK
    <2>2. /\ sent' \in Seq(user') /\ pending' \subseteq 1 .. Len(sent') /\ written' \in Seq(1 .. Len(sent'))
          /\ got' \in Seq(ToSet(got'))
          /\ target' \in {"x11", "wayland", "android"}
          /\ \A x \in user' : Possible(x, target')
      BY <1>1, <1>11 DEF ControlSafe, ControlTypeOK
    <2> QED BY <1>4, <2>1, <2>2 DEF ControlTypeOK
  <1>12. NoMetaLeft' => NoMetaLeft
    BY <1>1 DEF NoMetaLeft
  <1>13. CASE ~open
    <2>1. conn' = conn /\ written' = written
      BY <1>6, <1>13
    <2>2. ControlTypeOK'
      BY <1>2, <1>11, <2>1
    <2>3. AtPacket'
      <3>1. Unread' = Unread
        BY <1>1, <2>1 DEF Unread
      <3> QED BY <1>1, <2>1, <3>1, AtPacketNext DEF ControlSafe, AtPacket
    <2>4. OrderedWritten'
      BY <1>1, <1>8, <1>9, <1>10, <2>1 DEF ControlSafe, OrderedWritten
    <2>5. KeysOfRead'
      BY <1>1, <1>2, <1>12, <2>1, KeysSame DEF ControlSafe
    <2> QED BY <1>13, <2>2, <2>3, <2>4, <2>5 DEF ControlSafe
  <1>14. CASE open
    <2> DEFINE W == Len(written)
    <2>1. conn' = conn \o Wanted(sent[i]) /\ written' = Append(written, i)
      BY <1>6, <1>14
    <2>2. /\ written' \in Seq(1 .. Len(sent)) /\ Len(written') = W + 1 /\ written'[W + 1] = i
          /\ \A n \in 1 .. W : written'[n] = written[n]
      BY <1>2, <1>3, <2>1, AppendProperties
    <2>3. ControlTypeOK'
      BY <1>11, <2>2
    <2>4. W \in Nat /\ \A n \in 1 .. Len(got) : n \in 1 .. W
      BY <1>2, <1>7
    <2> HIDE DEF W
    <2>5. \A n \in 1 .. W + 1 : n \in 1 .. W \/ n = W + 1
      BY <2>4
    <2>6. AtPacket'
      <3> DEFINE n == W - Len(got)
                 u == Unread
                 more == Append(u, sent[i])
      <3>1. u \in Seq(user) /\ Len(u) = n /\ \A k \in 1 .. n : u[k] = sent[written[Len(got) + k]]
        BY <1>2, UnreadIs DEF ControlSafe, W
      <3>2. n \in Nat /\ sent[i] \in user /\ (W + 1) - Len(got) = n + 1
        BY <1>2, <1>7, <2>4 DEF W
      <3>3. Unread' = [k \in 1 .. n + 1 |-> sent[written'[Len(got) + k]]]
        BY <1>1, <2>2, <3>2 DEF Unread
      <3> HIDE DEF u
      <3>4. more \in Seq(user) /\ Len(more) = n + 1 /\ more[n + 1] = sent[i]
            /\ \A k \in 1 .. n : more[k] = u[k]
        BY <3>1, <3>2, AppendProperties
      <3>5. more = [k \in 1 .. n + 1 |-> more[k]]
        <4>1. DOMAIN more = 1 .. Len(more) /\ more = [k \in DOMAIN more |-> more[k]]
          BY <3>4, LenProperties
        <4> QED BY <3>4, <4>1
      <3>6. \A k \in 1 .. n + 1 : more[k] = sent[written'[Len(got) + k]]
        <4> SUFFICES ASSUME NEW k \in 1 .. n + 1 PROVE more[k] = sent[written'[Len(got) + k]]
          OBVIOUS
        <4>1. CASE k = n + 1
          <5>1. Len(got) + k = W + 1
            BY <1>7, <2>4, <4>1
          <5> QED BY <2>2, <3>4, <4>1, <5>1
        <4>2. CASE k \in 1 .. n
          <5>1. Len(got) + k \in 1 .. W
            BY <1>7, <2>4, <3>2, <4>2
          <5> QED BY <2>2, <3>1, <3>4, <4>2, <5>1
        <4>3. k = n + 1 \/ k \in 1 .. n
          <5> HIDE DEF n
          <5> QED BY <3>2
        <4> QED BY <4>1, <4>2, <4>3
      <3> HIDE DEF more, n
      <3>7. Unread' = more
        BY <3>3, <3>5, <3>6
      <3>8. conn' = BytesOfEvents(more)
        <4>1. BytesOfEvents(Append(u, sent[i])) = BytesOfEvents(u) \o Wanted(sent[i])
          <5> DEFINE e == sent[i]
          <5>1. e \in user /\ u \in Seq(user) /\ \A x \in user : Possible(x, target)
                /\ target \in {"x11", "wayland", "android"}
            BY <3>1, <3>2 DEF ControlSafe, ControlTypeOK
          <5> HIDE DEF e
          <5>2. BytesOfEvents(Append(u, e)) = BytesOfEvents(u) \o Wanted(e)
            BY <5>1, OneMoreEvent
          <5> QED BY <5>2 DEF e
        <4> QED BY <1>2, <2>1, <4>1 DEF more, u
      <3>9. Len(got') <= Len(written')
        BY <1>1, <1>2, <1>7, <2>2 DEF W
      <3>10. \A k \in 1 .. Len(got') : got'[k] = Meant(sent'[written'[k]])
        BY <1>1, <2>2, <2>4 DEF ControlSafe, AtPacket
      <3> QED BY <1>1, <3>7, <3>8, <3>9, <3>10, AtPacketNext
    <2>7. OrderedWritten'
      <3>1. Ordered(i) => c = "ordered" /\ out'["ordered"] = << >>
        BY <1>3, <1>4 DEF Ordered
      <3>2. \A m, n \in 1 .. W :
              m < n /\ Ordered(written[m]) /\ Ordered(written[n]) => written[m] < written[n]
        BY DEF ControlSafe, OrderedWritten, W
      <3>3. \A n \in 1 .. W, j \in 1 .. Len(sent) :
              Ordered(written[n]) /\ Ordered(j) /\ (j \in pending \/ out["ordered"] = ToWrite(j))
                => written[n] < j
        BY DEF ControlSafe, OrderedWritten, W
      <3>4. \A j, p \in 1 .. Len(sent) :
              Ordered(j) /\ Ordered(p) /\ out["ordered"] = ToWrite(j) /\ p \in pending => j < p
        BY DEF ControlSafe, OrderedWritten
      <3>5. \A m, n \in 1 .. Len(written') :
              m < n /\ Ordered(written[m])' /\ Ordered(written[n])' => written'[m] < written'[n]
        <4> SUFFICES ASSUME NEW m \in 1 .. W + 1, NEW n \in 1 .. W + 1, m < n,
                            Ordered(written'[m]), Ordered(written'[n])
                     PROVE  written'[m] < written'[n]
          BY <1>1, <2>2 DEF Ordered
        <4>1. m \in 1 .. W
          BY <2>4
        <4>2. CASE n \in 1 .. W
          BY <2>2, <3>2, <4>1, <4>2
        <4>3. CASE n = W + 1
          <5>1. written'[n] = i /\ written'[m] = written[m] /\ out["ordered"] = ToWrite(i) /\ Ordered(i)
            BY <1>3, <2>2, <3>1, <4>1, <4>3
          <5> QED BY <3>3, <4>1, <5>1
        <4> QED BY <2>5, <4>2, <4>3
      <3>6. \A n \in 1 .. Len(written'), j \in 1 .. Len(sent') :
              Ordered(written[n])' /\ Ordered(j)' /\ (j \in pending' \/ out'["ordered"] = ToWrite(j)')
                => written'[n] < j
        <4> SUFFICES ASSUME NEW n \in 1 .. W + 1, NEW j \in 1 .. Len(sent),
                            Ordered(written'[n]), Ordered(j),
                            j \in pending \/ out'["ordered"] = ToWrite(j)
                     PROVE  written'[n] < j
          BY <1>1, <1>8, <2>2 DEF Ordered
        <4>1. CASE n \in 1 .. W
          BY <1>10, <2>2, <3>3, <4>1
        <4>2. CASE n = W + 1
          <5>1. written'[n] = i /\ out["ordered"] = ToWrite(i) /\ Ordered(i) /\ out'["ordered"] = << >>
            BY <1>3, <2>2, <3>1, <4>2
          <5>2. j \in pending
            BY <5>1, ToWriteOf
          <5> QED BY <3>4, <5>1, <5>2
        <4> QED BY <2>5, <4>1, <4>2
      <3>7. \A j, p \in 1 .. Len(sent') :
              Ordered(j)' /\ Ordered(p)' /\ out'["ordered"] = ToWrite(j)' /\ p \in pending' => j < p
        BY <1>1, <1>8, <1>9, <1>10, <3>4
      <3> QED BY <3>5, <3>6, <3>7 DEF OrderedWritten
    <2>8. NoneLost'
      <3> SUFFICES ASSUME NEW j \in 1 .. Len(sent), Ordered(j)
                   PROVE  j \in pending \/ out'["ordered"] = ToWrite(j)
                          \/ \E n \in 1 .. W + 1 : written'[n] = j
        BY <1>1, <1>8, <1>9, <2>2 DEF NoneLost
      <3>1. j \in pending \/ out["ordered"] = ToWrite(j) \/ \E n \in 1 .. W : written[n] = j
        BY <1>14 DEF ControlSafe, NoneLost, W
      <3>2. CASE j = i
        BY <2>2, <2>4, <3>2
      <3>3. CASE j # i
        <4>1. CASE out["ordered"] = ToWrite(j)
          <5>1. c # "ordered"
            BY <1>3, <3>3, <4>1, ToWriteOf
          <5> QED BY <1>4, <4>1, <5>1 DEF Channels
        <4>2. CASE \E n \in 1 .. W : written[n] = j
          <5>1. PICK n \in 1 .. W : written[n] = j
            BY <4>2
          <5>2. n \in 1 .. W + 1 /\ written'[n] = j
            BY <2>2, <2>4, <5>1
          <5> QED BY <5>2
        <4> QED BY <3>1, <4>1, <4>2
      <3> QED BY <3>2, <3>3
    <2>9. KeysOfRead'
      <3>1. \A n \in 1 .. Len(got) : sent'[written'[n]] = sent[written[n]]
        BY <1>1, <2>2, <2>4
      <3> QED BY <1>1, <1>2, <1>12, <3>1, KeysSame DEF ControlSafe
    <2> QED BY <1>1, <2>3, <2>6, <2>7, <2>8, <2>9 DEF ControlSafe
  <1> QED BY <1>13, <1>14

-----------------------------------------------------------------------------
(* Keys                                                                    *)

\* Two keys have different codes, and the code of a key is what the device has for it.
LEMMA KeysDiffer ==
  /\ \A k, m \in DOMAIN Kernel :
       /\ Kernel[k] \in Nat /\ (Kernel[k] = Kernel[m] => k = m)
       /\ \A a, b : KeyEvent(a, k) = KeyEvent(b, m) => a = b /\ k = m
  /\ \A a, k : KeyEvent(a, k).type = "key"
  <1>1. ASSUME NEW a, NEW k, NEW b, NEW m, KeyEvent(a, k) = KeyEvent(b, m)
        PROVE  a = b /\ ANDROID_KEYCODES[k] = ANDROID_KEYCODES[m]
    <2> DEFINE x == ANDROID_KEYCODES[k]
               y == ANDROID_KEYCODES[m]
    <2> HIDE DEF x, y
    <2>1. KeyEvent(a, k) = [type |-> "key", values |-> <<a, x>>]
          /\ KeyEvent(b, m) = [type |-> "key", values |-> <<b, y>>]
      BY DEF KeyEvent, Event, x, y
    <2>2. <<a, x>> = <<b, y>>
      <3> DEFINE p == <<a, x>>
                 q == <<b, y>>
      <3> HIDE DEF p, q
      <3>1. KeyEvent(a, k).values = p /\ KeyEvent(b, m).values = q
        BY <2>1 DEF p, q
      <3> QED BY <1>1, <3>1 DEF p, q
    <2> QED BY <2>2 DEF x, y
  <1>2. \A a, k : KeyEvent(a, k).type = "key"
    BY DEF KeyEvent, Event
  <1>3. \A k \in DOMAIN Kernel :
          /\ Kernel[k] \in Nat
          /\ \A m \in DOMAIN Kernel \ {k} :
               Kernel[m] # Kernel[k] /\ ANDROID_KEYCODES[m] # ANDROID_KEYCODES[k]
    BY KeyTablesAssumption DEF TablesAgree
  <1> QED BY <1>1, <1>2, <1>3

\* The event of a key, as the recorder reads it.
LEMMA KeyRead ==
  ASSUME target \in {"x11", "wayland"}, NEW e, Possible(e, target), e.type = "key"
  PROVE  \E a \in 0 .. 1, k \in DOMAIN Kernel :
           /\ e = KeyEvent(a, k) /\ ANDROID_KEYCODES[k] # 0
           /\ Num(Meant(e).fields[1]) = a /\ Num(Meant(e).fields[2]) = ANDROID_KEYCODES[k]
  <1>1. target # "android"
    OBVIOUS
  <1>2. PICK a \in 0 .. 1, k \in DOMAIN ANDROID_KEYCODES : e = KeyEvent(a, k)
    BY <1>1 DEF Possible
  <1>3. k \in DOMAIN Kernel /\ ANDROID_KEYCODES[k] # 0 /\ Unsigned(ANDROID_KEYCODES[k], 2)
    <2>1. DOMAIN ANDROID_KEYCODES = DOMAIN Kernel
          /\ \A x \in DOMAIN Kernel : ANDROID_KEYCODES[x] # 0 /\ Unsigned(ANDROID_KEYCODES[x], 2)
      BY KeyTablesAssumption DEF TablesAgree
    <2> QED BY <2>1
  <1> DEFINE c == ANDROID_KEYCODES[k]
  <1> HIDE DEF c
  <1>4. e.values = <<a, c>> /\ Unsigned(c, 2) /\ c # 0
    BY <1>2, <1>3 DEF KeyEvent, Event, c
  <1>5. Meant(e).fields = <<BE(a, 1), BE(c, 4)>>
    <2>1. Fill(createKeyPacket, e.values) /\ e.values[1] = a /\ e.values[2] = c
      BY <1>4 DEF Possible, PageLayout
    <2>2. Meant(e) = [type |-> "key", fields |-> <<BE(a, 1), BE(c, 4)>>]
      BY <1>4, <2>1, LinuxKey
    <2> DEFINE f == <<BE(a, 1), BE(c, 4)>>
    <2> HIDE DEF f
    <2>3. Meant(e).fields = f
      BY <2>2 DEF f
    <2> QED BY <2>3 DEF f
  <1>6. Num(BE(a, 1)) = a
    <2>1. Shifted(a)[1] = a
      BY ShiftedOf
    <2>2. a \in Int /\ Unsigned(a, 1)
      BY <2>1 DEF Unsigned
    <2> QED BY <2>2, NumBE
  <1>7. Num(BE(c, 4)) = c
    <2>1. c \in Int /\ c \in Nat
      BY <1>4 DEF Unsigned
    <2>2. Shifted(c)[4] = 0
      <3> DEFINE w == 2
      <3>1. w \in 1 .. 3 /\ Unsigned(c, w) /\ 4 \in w + 1 .. 4
        BY <1>4
      <3> HIDE DEF w
      <3> QED BY <2>1, <3>1, NothingLeft
    <2>3. Unsigned(c, 4)
      BY <2>1, <2>2 DEF Unsigned
    <2> QED BY <2>1, <2>3, NumBE
  <1>8. Num(Meant(e).fields[1]) = a /\ Num(Meant(e).fields[2]) = c
    <2> DEFINE A == BE(a, 1)
               C == BE(c, 4)
    <2>1. Meant(e).fields = <<A, C>>
      BY <1>5
    <2> HIDE DEF A, C
    <2>2. Meant(e).fields[1] = A /\ Meant(e).fields[2] = C
      BY <2>1
    <2> QED BY <1>6, <1>7, <2>2 DEF A, C
  <1> QED BY <1>2, <1>3, <1>4, <1>8 DEF c

\* The keys whose last event of the first n is a press.
DownOf(events, n) ==
  {k \in DOMAIN Kernel :
     \E i \in 1 .. n : /\ events[i] = KeyEvent(0, k)
                       /\ \A j \in i + 1 .. n : events[j] # KeyEvent(1, k)}

\* One event more: of key k, or of none.
LEMMA DownNext ==
  ASSUME NEW n \in Nat, NEW s
  PROVE  /\ \A m \in DOMAIN Kernel :
              /\ s[n + 1] = KeyEvent(0, m) => DownOf(s, n + 1) = DownOf(s, n) \cup {m}
              /\ s[n + 1] = KeyEvent(1, m) => DownOf(s, n + 1) = DownOf(s, n) \ {m}
         /\ s[n + 1].type # "key" => DownOf(s, n + 1) = DownOf(s, n)
  <1> DEFINE Down(k, N) == \E i \in 1 .. N : /\ s[i] = KeyEvent(0, k)
                                             /\ \A j \in i + 1 .. N : s[j] # KeyEvent(1, k)
  <1>1. ASSUME NEW k \in DOMAIN Kernel, s[n + 1] # KeyEvent(0, k), s[n + 1] # KeyEvent(1, k)
        PROVE  Down(k, n + 1) <=> Down(k, n)
    <2>1. ASSUME Down(k, n) PROVE Down(k, n + 1)
      <3>1. PICK i \in 1 .. n : s[i] = KeyEvent(0, k) /\ \A j \in i + 1 .. n : s[j] # KeyEvent(1, k)
        BY <2>1
      <3>2. \A j \in i + 1 .. n + 1 : j \in i + 1 .. n \/ j = n + 1
        OBVIOUS
      <3>3. i \in 1 .. n + 1
        OBVIOUS
      <3> QED BY <1>1, <3>1, <3>2, <3>3
    <2>2. ASSUME Down(k, n + 1) PROVE Down(k, n)
      <3>1. PICK i \in 1 .. n + 1 : s[i] = KeyEvent(0, k) /\ \A j \in i + 1 .. n + 1 : s[j] # KeyEvent(1, k)
        BY <2>2
      <3>2. i # n + 1
        BY <1>1, <3>1
      <3>3. i \in 1 .. n /\ \A j \in i + 1 .. n : j \in i + 1 .. n + 1
        BY <3>2
      <3> QED BY <3>1, <3>3
    <2> QED BY <2>1, <2>2
  <1>2. ASSUME NEW m \in DOMAIN Kernel, s[n + 1] = KeyEvent(0, m)
        PROVE  DownOf(s, n + 1) = DownOf(s, n) \cup {m}
    <2>1. Down(m, n + 1)
      <3>1. n + 1 \in 1 .. n + 1 /\ \A j \in (n + 1) + 1 .. n + 1 : FALSE
        OBVIOUS
      <3> QED BY <1>2, <3>1
    <2>2. ASSUME NEW k \in DOMAIN Kernel, k # m PROVE Down(k, n + 1) <=> Down(k, n)
      <3>1. s[n + 1] # KeyEvent(0, k) /\ s[n + 1] # KeyEvent(1, k)
        BY <1>2, <2>2, KeysDiffer
      <3> HIDE DEF Down
      <3> QED BY <1>1, <3>1
    <2>3. \A N : DownOf(s, N) = {k \in DOMAIN Kernel : Down(k, N)}
      BY DEF DownOf
    <2> HIDE DEF Down
    <2> QED BY <2>1, <2>2, <2>3
  <1>3. ASSUME NEW m \in DOMAIN Kernel, s[n + 1] = KeyEvent(1, m)
        PROVE  DownOf(s, n + 1) = DownOf(s, n) \ {m}
    <2>1. ~Down(m, n + 1)
      <3> SUFFICES ASSUME NEW i \in 1 .. n + 1, s[i] = KeyEvent(0, m),
                          \A j \in i + 1 .. n + 1 : s[j] # KeyEvent(1, m)
                   PROVE  FALSE
        OBVIOUS
      <3>1. CASE i = n + 1
        <4>1. KeyEvent(0, m) = KeyEvent(1, m)
          BY <1>3, <3>1
        <4>2. 0 = 1
          BY <4>1, KeysDiffer
        <4> QED BY <4>2
      <3>2. CASE i # n + 1
        <4>1. n + 1 \in i + 1 .. n + 1
          BY <3>2
        <4> QED BY <1>3, <4>1
      <3> QED BY <3>1, <3>2
    <2>2. ASSUME NEW k \in DOMAIN Kernel, k # m PROVE Down(k, n + 1) <=> Down(k, n)
      <3>1. s[n + 1] # KeyEvent(0, k) /\ s[n + 1] # KeyEvent(1, k)
        BY <1>3, <2>2, KeysDiffer
      <3> HIDE DEF Down
      <3> QED BY <1>1, <3>1
    <2>3. \A N : DownOf(s, N) = {k \in DOMAIN Kernel : Down(k, N)}
      BY DEF DownOf
    <2> HIDE DEF Down
    <2> QED BY <2>1, <2>2, <2>3
  <1>4. ASSUME s[n + 1].type # "key" PROVE DownOf(s, n + 1) = DownOf(s, n)
    <2>1. ASSUME NEW k \in DOMAIN Kernel PROVE Down(k, n + 1) <=> Down(k, n)
      <3>1. s[n + 1] # KeyEvent(0, k) /\ s[n + 1] # KeyEvent(1, k)
        BY <1>4, KeysDiffer
      <3> HIDE DEF Down
      <3> QED BY <1>1, <3>1
    <2>2. \A N : DownOf(s, N) = {k \in DOMAIN Kernel : Down(k, N)}
      BY DEF DownOf
    <2> HIDE DEF Down
    <2> QED BY <2>1, <2>2
  <1> QED BY <1>2, <1>3, <1>4

\* The codes that are down when one key more is, or one less.
LEMMA CodesNext ==
  ASSUME target \in {"x11", "wayland"}, NEW D \in SUBSET DOMAIN Kernel, NEW m \in DOMAIN Kernel,
         target = "x11" => m # "MetaLeft"
  PROVE  /\ CodesOf(D \cup {m}) = CodesOf(D) \cup DeviceCodes(target, ANDROID_KEYCODES[m])
         /\ CodesOf(D \ {m}) = CodesOf(D) \ DeviceCodes(target, ANDROID_KEYCODES[m])
  <1> DEFINE c == ANDROID_KEYCODES[m]
  <1>1. /\ DeviceCodes("wayland", c) = {Kernel[m]} \ {Kernel[q] : q \in Missing}
        /\ m # "MetaLeft" => DeviceCodes("x11", c) = {Kernel[m] + 8}
        /\ Missing \subseteq DOMAIN Kernel
    BY KeyTablesAssumption DEF TablesAgree
  <1> HIDE DEF c
  <1>2. \A k \in DOMAIN Kernel : Kernel[k] \in Nat /\ (Kernel[k] = Kernel[m] => k = m)
    BY KeysDiffer
  <1>3. CASE target = "x11"
    <2>1. DeviceCodes(target, c) = {Kernel[m] + 8}
      BY <1>1, <1>3
    <2>2. \A d : CodesOf(d) = {Kernel[k] + 8 : k \in d}
      BY <1>3 DEF CodesOf
    <2>3. \A k \in D : Kernel[k] + 8 = Kernel[m] + 8 => k = m
      BY <1>2
    <2>4. CodesOf(D \cup {m}) = CodesOf(D) \cup {Kernel[m] + 8}
      BY <2>2
    <2>5. CodesOf(D \ {m}) = CodesOf(D) \ {Kernel[m] + 8}
      <3> DEFINE F(k) == Kernel[k] + 8
      <3>1. \A k \in D : F(k) = F(m) => k = m
        BY <2>3
      <3>2. \A d : CodesOf(d) = {F(k) : k \in d}
        BY <2>2
      <3> HIDE DEF F
      <3>3. {F(k) : k \in D \ {m}} = {F(k) : k \in D} \ {F(m)}
        BY <3>1
      <3> QED BY <3>2, <3>3 DEF F
    <2> QED BY <2>1, <2>4, <2>5 DEF c
  <1>4. CASE target = "wayland"
    <2>1. DeviceCodes(target, c) = {Kernel[m]} \ {Kernel[q] : q \in Missing}
      BY <1>1, <1>4
    <2>2. \A d : CodesOf(d) = {Kernel[k] : k \in d \ Missing}
      BY <1>4 DEF CodesOf
    <2>3. CASE m \in Missing
      <3>1. DeviceCodes(target, c) = {}
        BY <2>1, <2>3
      <3>2. (D \cup {m}) \ Missing = D \ Missing /\ (D \ {m}) \ Missing = D \ Missing
        BY <2>3
      <3>3. CodesOf(D \cup {m}) = CodesOf(D) /\ CodesOf(D \ {m}) = CodesOf(D)
        BY <2>2, <3>2
      <3> QED BY <3>1, <3>3 DEF c
    <2>4. CASE m \notin Missing
      <3>1. Kernel[m] \notin {Kernel[q] : q \in Missing}
        BY <1>1, <1>2, <2>4
      <3>2. DeviceCodes(target, c) = {Kernel[m]}
        BY <2>1, <3>1
      <3>3. CodesOf(D \cup {m}) = CodesOf(D) \cup {Kernel[m]}
        BY <2>2, <2>4
      <3>4. CodesOf(D \ {m}) = CodesOf(D) \ {Kernel[m]}
        <4>1. \A k \in D : Kernel[k] = Kernel[m] => k = m
          BY <1>2
        <4> QED BY <2>2, <4>1
      <3> QED BY <3>2, <3>3, <3>4 DEF c
    <2> QED BY <2>3, <2>4
  <1> QED BY <1>3, <1>4

-----------------------------------------------------------------------------
(* The reader of the control path                                          *)

\* The bytes on the connection begin with the first event that is not yet read.
LEMMA FirstUnread ==
  ASSUME ControlSafe, conn # << >>
  PROVE  LET n == Len(Unread)
             e == Unread[1]
             rest == [k \in 1 .. n - 1 |-> Unread[k + 1]]
         IN  /\ n \in Nat /\ n > 0 /\ e \in user
             /\ Types(conn[1]) = {e.type} /\ e.type \in DOMAIN Layouts
             /\ Fields(Layouts[e.type], Tail(conn))
                  = [fields |-> Meant(e).fields, rest |-> BytesOfEvents(rest), whole |-> TRUE]
             /\ Meant(e) = [type |-> e.type, fields |-> Meant(e).fields]
  <1> DEFINE u == Unread
             n == Len(u)
             rest == [k \in 1 .. n - 1 |-> u[k + 1]]
             e == u[1]
  <1>1. /\ target \in {"x11", "wayland", "android"} /\ \A x \in user : Possible(x, target)
        /\ u \in Seq(user) /\ conn = BytesOfEvents(u) /\ n \in Nat
    <2>1. u \in Seq(user)
      BY UnreadIs DEF ControlSafe, AtPacket
    <2> QED BY <2>1, LenProperties DEF ControlSafe, ControlTypeOK, AtPacket
  <1> HIDE DEF u
  <1>2. u # << >>
    BY <1>1, NoEvent
  <1>3. n > 0 /\ \A k \in 1 .. n : u[k] \in user
    BY <1>1, <1>2, EmptySeq, ElementOfSeq
  <1>4. e \in user
    <2>1. 1 \in 1 .. n
      BY <1>1, <1>3
    <2> QED BY <1>3, <2>1
  <1> HIDE DEF n, e
  <1>5. rest \in Seq(user) /\ Len(rest) = n - 1 /\ \A k \in 1 .. n - 1 : rest[k] = u[k + 1]
    <2>1. \A k \in 1 .. n - 1 : u[k + 1] \in user
      BY <1>1, <1>3
    <2>2. rest \in [1 .. n - 1 -> user] /\ n - 1 \in Nat
      BY <1>1, <1>3, <2>1
    <2> HIDE DEF rest
    <2>3. rest \in Seq(user)
      BY <2>2, SeqDef
    <2>4. Len(rest) = n - 1
      BY <2>2, <2>3, LenProperties
    <2>5. \A k \in 1 .. n - 1 : rest[k] = u[k + 1]
      BY DEF rest
    <2> QED BY <2>3, <2>4, <2>5
  <1> HIDE DEF rest
  <1>6. u = <<e>> \o rest
    <2> DEFINE t == <<e>> \o rest
    <2>1. t \in Seq(user) /\ Len(t) = Len(rest) + 1 /\ t[1] = e
          /\ \A k \in 1 .. Len(rest) : t[k + 1] = rest[k]
      BY <1>4, <1>5, InFrontOf
    <2> HIDE DEF t
    <2>2. Len(t) = n
      BY <1>1, <1>5, <2>1
    <2>3. \A k \in 1 .. n : t[k] = u[k]
      <3> SUFFICES ASSUME NEW k \in 1 .. n PROVE t[k] = u[k]
        OBVIOUS
      <3>1. CASE k = 1
        BY <2>1, <3>1 DEF e
      <3>2. CASE k # 1
        <4> DEFINE j == k - 1
        <4>1. j \in 1 .. n - 1 /\ k = j + 1
          BY <1>1, <3>2
        <4> HIDE DEF j
        <4> QED BY <1>5, <2>1, <4>1
      <3> QED BY <3>1, <3>2
    <2>4. t = u
      BY <1>1, <2>1, <2>2, <2>3, SeqEqual DEF n
    <2> QED BY <2>4 DEF t
  <1> DEFINE b == BytesOfEvents(rest)
  <1>7. conn = Wanted(e) \o b /\ b \in Seq(Int)
    BY <1>1, <1>4, <1>5, <1>6, OneMoreEvent
  <1> HIDE DEF b
  <1>8. /\ Types(conn[1]) = {e.type} /\ e.type \in DOMAIN Layouts
        /\ Fields(Layouts[e.type], Tail(conn)) = [fields |-> Meant(e).fields, rest |-> b, whole |-> TRUE]
        /\ Meant(e) = [type |-> e.type, fields |-> Meant(e).fields]
    BY <1>1, <1>4, <1>7, PacketRead
  <1> QED BY <1>1, <1>3, <1>4, <1>8 DEF u, n, e, rest, b

\* What the reader does with the bytes there are: it reads the first event that is
\* written and not yet read, and is at the beginning of the next.
LEMMA ReadsNext ==
  ASSUME ControlSafe, ServeControlConn
  PROVE  LET i == Len(got) + 1
             e == sent[written[i]]
         IN  /\ i \in 1 .. Len(written)
             /\ got' = Append(got, Meant(e))
             /\ conn' = BytesOfEvents(Unread')
             /\ IF e.type = "key" /\ target # "android"
                THEN HandleKeyboardEvent(Num(Meant(e).fields[1]), Num(Meant(e).fields[2]))
                ELSE keys' = keys
  <1> DEFINE i == Len(got) + 1
             e == sent[written[i]]
             u == Unread
             n == Len(u)
             rest == [k \in 1 .. n - 1 |-> u[k + 1]]
             r == Fields(Layouts[e.type], Tail(conn))
             fs == Meant(e).fields
             b == BytesOfEvents(rest)
  <1>1. /\ ControlTypeOK /\ Len(got) <= Len(written) /\ got \in Seq(ToSet(got))
    BY DEF ControlSafe, AtPacket, ControlTypeOK
  <1>2. /\ n = Len(written) - Len(got) /\ \A k \in 1 .. n : u[k] = sent[written[Len(got) + k]]
        /\ Len(written) \in Nat /\ Len(got) \in Nat
    BY <1>1, UnreadIs, ControlTyped
  <1>3. conn # << >> /\ target' = target /\ sent' = sent /\ written' = written
    BY DEF ServeControlConn
  <1>4. /\ n \in Nat /\ n > 0
        /\ Types(conn[1]) = {u[1].type} /\ u[1].type \in DOMAIN Layouts
        /\ Fields(Layouts[u[1].type], Tail(conn))
             = [fields |-> Meant(u[1]).fields, rest |-> b, whole |-> TRUE]
        /\ Meant(u[1]) = [type |-> u[1].type, fields |-> Meant(u[1]).fields]
    BY <1>3, FirstUnread
  <1> HIDE DEF u, n, rest
  <1>5. i \in 1 .. Len(written) /\ u[1] = e
    <2>1. 1 \in 1 .. n
      BY <1>4
    <2> QED BY <1>2, <1>4, <2>1
  <1>6. Unread' = rest
    <2>1. Len(got') = Len(got) + 1
      <3>1. \E x : got' = Append(got, x)
        BY DEF ServeControlConn
      <3> QED BY <1>1, <3>1, OneMoreOf
    <2>2. Len(written') - Len(got') = n - 1
      BY <1>2, <1>3, <2>1
    <2>3. \A k \in 1 .. n - 1 : sent'[written'[Len(got') + k]] = u[k + 1]
      <3> SUFFICES ASSUME NEW k \in 1 .. n - 1 PROVE sent[written[Len(got) + 1 + k]] = u[k + 1]
        BY <1>3, <2>1
      <3>1. k + 1 \in 1 .. n /\ Len(got) + 1 + k = Len(got) + (k + 1)
        BY <1>2, <1>4
      <3> QED BY <1>2, <3>1
    <2> QED BY <2>2, <2>3 DEF Unread, rest
  <1> HIDE DEF e
  <1>7. PICK t \in Types(conn[1]) \cap DOMAIN Layouts :
           LET q == Fields(Layouts[t], Tail(conn)) IN
           /\ conn' = q.rest
           /\ got' = Append(got, [type |-> t, fields |-> q.fields])
           /\ IF t = "key" /\ target # "android"
              THEN HandleKeyboardEvent(Num(q.fields[1]), Num(q.fields[2]))
              ELSE keys' = keys
    BY DEF ServeControlConn
  <1>8. t = e.type
    BY <1>4, <1>5, <1>7
  <1>9. r.rest = b /\ r.fields = fs
    <2>1. r = [fields |-> fs, rest |-> b, whole |-> TRUE]
      BY <1>4, <1>5
    <2> HIDE DEF r, fs, b
    <2> QED BY <2>1
  <1>10. /\ conn' = r.rest
         /\ got' = Append(got, [type |-> t, fields |-> r.fields])
         /\ IF t = "key" /\ target # "android"
            THEN HandleKeyboardEvent(Num(r.fields[1]), Num(r.fields[2]))
            ELSE keys' = keys
    BY <1>7, <1>8
  <1>11. Meant(e) = [type |-> e.type, fields |-> fs]
    BY <1>4, <1>5
  <1> HIDE DEF r, fs, b, i
  <1>12. got' = Append(got, Meant(e)) /\ conn' = b
    BY <1>8, <1>9, <1>10, <1>11
  <1>13. IF e.type = "key" /\ target # "android"
         THEN HandleKeyboardEvent(Num(fs[1]), Num(fs[2]))
         ELSE keys' = keys
    BY <1>8, <1>9, <1>10
  <1> QED BY <1>5, <1>6, <1>12, <1>13 DEF b, fs, e, i

\* The keys that are down by what was read.
LEMMA ReadDownIs ==
  ASSUME ControlTypeOK, Len(got) <= Len(written)
  PROVE  ReadDown = DownOf([i \in 1 .. Len(written) |-> sent[written[i]]], Len(got))
  <1> DEFINE s == [i \in 1 .. Len(written) |-> sent[written[i]]]
  <1>1. Len(got) \in Nat /\ Len(written) \in Nat
    BY ControlTyped
  <1>2. \A i \in 1 .. Len(got) : i \in 1 .. Len(written)
    BY <1>1
  <1>3. \A i \in 1 .. Len(got) : s[i] = sent[written[i]]
    BY <1>2
  <1>4. \A i \in 1 .. Len(got) : \A j \in i + 1 .. Len(got) : j \in 1 .. Len(got)
    BY <1>1
  <1> HIDE DEF s
  <1>5. \A k : (\E i \in 1 .. Len(got) : /\ sent[written[i]] = KeyEvent(0, k)
                                         /\ \A j \in i + 1 .. Len(got) : sent[written[j]] # KeyEvent(1, k))
               <=> (\E i \in 1 .. Len(got) : /\ s[i] = KeyEvent(0, k)
                                             /\ \A j \in i + 1 .. Len(got) : s[j] # KeyEvent(1, k))
    BY <1>3, <1>4
  <1>6. ReadDown = DownOf(s, Len(got))
    BY <1>5 DEF ReadDown, DownOf
  <1> QED BY <1>6 DEF s

\* What a key that is read does to the keys of the device.
LEMMA KeysFollowRead ==
  ASSUME ControlSafe, ServeControlConn, target # "android", NoMetaLeft
  PROVE  keys' = CodesOf(ReadDown')
  <1> DEFINE g == Len(got)
             i == g + 1
             e == sent[written[i]]
             s == [k \in 1 .. Len(written) |-> sent[written[k]]]
             D == DownOf(s, g)
  <1>1. /\ i \in 1 .. Len(written)
        /\ got' = Append(got, Meant(e))
        /\ IF e.type = "key"
           THEN HandleKeyboardEvent(Num(Meant(e).fields[1]), Num(Meant(e).fields[2]))
           ELSE keys' = keys
    BY ReadsNext
  <1>2. /\ ControlTypeOK /\ g <= Len(written) /\ target \in {"x11", "wayland"}
        /\ got \in Seq(ToSet(got))
    BY DEF ControlSafe, ControlTypeOK, AtPacket
  <1>3. g \in Nat /\ Len(written) \in Nat /\ written[i] \in 1 .. Len(sent)
        /\ DOMAIN sent = 1 .. Len(sent) /\ Possible(e, target)
    BY <1>1, <1>2, ControlTyped
  <1>4. sent' = sent /\ written' = written /\ target' = target
    BY DEF ServeControlConn
  <1>5. Len(got') = i
    BY <1>1, <1>2, OneMoreOf
  <1>6. ReadDown = D
    BY <1>2, ReadDownIs
  <1>7. ReadDown' = DownOf(s, i)
    <2>1. \A k \in 1 .. i : s[k] = sent[written[k]]
      <3>1. \A k \in 1 .. i : k \in 1 .. Len(written)
        BY <1>1, <1>3
      <3> QED BY <3>1
    <2>2. \A k \in 1 .. i : \A j \in k + 1 .. i : j \in 1 .. i
      BY <1>3
    <2>3. ReadDown' = {k \in DOMAIN Kernel :
                         \E m \in 1 .. i : /\ sent[written[m]] = KeyEvent(0, k)
                                           /\ \A j \in m + 1 .. i : sent[written[j]] # KeyEvent(1, k)}
      BY <1>4, <1>5 DEF ReadDown
    <2> HIDE DEF s, i
    <2>4. \A k : (\E m \in 1 .. i : /\ sent[written[m]] = KeyEvent(0, k)
                                    /\ \A j \in m + 1 .. i : sent[written[j]] # KeyEvent(1, k))
                 <=> (\E m \in 1 .. i : /\ s[m] = KeyEvent(0, k)
                                        /\ \A j \in m + 1 .. i : s[j] # KeyEvent(1, k))
      BY <2>1, <2>2
    <2> QED BY <2>3, <2>4 DEF DownOf
  <1>8. s[i] = e
    BY <1>1
  <1>9. keys = CodesOf(D) /\ D \in SUBSET DOMAIN Kernel
    <2>1. D \in SUBSET DOMAIN Kernel
      BY DEF DownOf
    <2> QED BY <1>6, <2>1 DEF ControlSafe, KeysOfRead
  <1>10. /\ \A m \in DOMAIN Kernel :
              /\ e = KeyEvent(0, m) => DownOf(s, i) = D \cup {m}
              /\ e = KeyEvent(1, m) => DownOf(s, i) = D \ {m}
         /\ e.type # "key" => DownOf(s, i) = D
    <2> HIDE DEF s, e
    <2> QED BY <1>3, <1>8, DownNext
  <1>11. ASSUME NEW m \in DOMAIN Kernel, NEW a \in 0 .. 1, e = KeyEvent(a, m)
         PROVE  target = "x11" => m # "MetaLeft"
    BY <1>3, <1>11 DEF NoMetaLeft
  <1> HIDE DEF s, e, D, i, g
  <1>12. CASE e.type # "key"
    BY <1>1, <1>7, <1>9, <1>10, <1>12
  <1>13. CASE e.type = "key"
    <2>1. PICK a \in 0 .. 1, m \in DOMAIN Kernel :
            /\ e = KeyEvent(a, m) /\ ANDROID_KEYCODES[m] # 0
            /\ Num(Meant(e).fields[1]) = a /\ Num(Meant(e).fields[2]) = ANDROID_KEYCODES[m]
      BY <1>2, <1>3, <1>13, KeyRead
    <2> DEFINE c == ANDROID_KEYCODES[m]
    <2>2. keys' = IF a = 0 THEN keys \cup DeviceCodes(target, c) ELSE keys \ DeviceCodes(target, c)
      <3>1. HandleKeyboardEvent(a, c) /\ c # 0
        BY <1>1, <1>13, <2>1
      <3> HIDE DEF c
      <3> QED BY <3>1 DEF HandleKeyboardEvent
    <2>3. /\ CodesOf(D \cup {m}) = CodesOf(D) \cup DeviceCodes(target, c)
          /\ CodesOf(D \ {m}) = CodesOf(D) \ DeviceCodes(target, c)
      BY <1>2, <1>9, <1>11, <2>1, CodesNext
    <2> HIDE DEF c
    <2>4. CASE a = 0
      <3>1. ReadDown' = D \cup {m}
        BY <1>7, <1>10, <2>1, <2>4
      <3> QED BY <1>9, <2>2, <2>3, <2>4, <3>1
    <2>5. CASE a = 1
      <3>1. ReadDown' = D \ {m}
        BY <1>7, <1>10, <2>1, <2>5
      <3>2. keys' = keys \ DeviceCodes(target, c)
        BY <2>2, <2>5
      <3> QED BY <1>9, <2>3, <3>1, <3>2
    <2> QED BY <2>4, <2>5
  <1> QED BY <1>12, <1>13

\* What was read, and one more.
LEMMA GotMore ==
  ASSUME NEW g, g \in Seq(ToSet(g)), NEW x
  PROVE  /\ Append(g, x) \in Seq(ToSet(Append(g, x)))
         /\ Len(Append(g, x)) = Len(g) + 1 /\ Append(g, x)[Len(g) + 1] = x
         /\ \A k \in 1 .. Len(g) : Append(g, x)[k] = g[k]
  <1>1. PICK S : S = ToSet(g)
    OBVIOUS
  <1>2. g \in Seq(S)
    BY <1>1
  <1> DEFINE t == Append(g, x)
  <1>3. t \in Seq(ToSet(t))
    BY <1>2, OneMoreOf
  <1>4. Len(t) = Len(g) + 1 /\ t[Len(g) + 1] = x
    BY <1>2, OneMoreOf
  <1>5. \A k \in 1 .. Len(g) : t[k] = g[k]
    BY <1>2, OneMoreOf
  <1> QED BY <1>3, <1>4, <1>5

\* A turn of the reader.
LEMMA ServeKeeps ==
  ASSUME ControlSafe, ServeControlConn, open' = open
  PROVE  ControlSafe'
  <1> DEFINE g == Len(got)
             i == g + 1
             e == sent[written[i]]
  <1>1. i \in 1 .. Len(written) /\ got' = Append(got, Meant(e)) /\ conn' = BytesOfEvents(Unread')
    BY ReadsNext
  <1>2. /\ target' = target /\ user' = user /\ sent' = sent /\ pending' = pending /\ out' = out
        /\ written' = written /\ serving' = serving
    BY DEF ServeControlConn
  <1>3. got \in Seq(ToSet(got)) /\ g <= Len(written)
    BY DEF ControlSafe, ControlTypeOK, AtPacket
  <1>4. g \in Nat /\ Len(written) \in Nat
    BY ControlTyped DEF ControlSafe
  <1>5. /\ got' \in Seq(ToSet(got')) /\ Len(got') = i /\ got'[i] = Meant(e)
        /\ \A k \in 1 .. g : got'[k] = got[k]
    <2> DEFINE x == Meant(e)
    <2> HIDE DEF x
    <2>1. /\ Append(got, x) \in Seq(ToSet(Append(got, x)))
          /\ Len(Append(got, x)) = Len(got) + 1 /\ Append(got, x)[Len(got) + 1] = x
          /\ \A k \in 1 .. Len(got) : Append(got, x)[k] = got[k]
      BY <1>3, GotMore
    <2>2. got' = Append(got, x)
      BY <1>1 DEF x
    <2> QED BY <2>1, <2>2 DEF x
  <1>6. \A j : ToWrite(j)' = ToWrite(j)
    <2>1. Layouts' = Layouts
      BY <1>2 DEF Layouts
    <2> QED BY <1>2, <2>1 DEF ToWrite, Wanted, Meant
  <1>7. \A j : Ordered(j)' <=> Ordered(j)
    BY <1>2 DEF Ordered
  <1>8. ControlTypeOK'
    <2>1. \A d \in Channels :
            out'[d] = << >> \/ \E j \in 1 .. Len(sent') : ChannelOf(sent'[j]) = d /\ out'[d] = ToWrite(j)'
      BY <1>2, <1>6 DEF ControlSafe, ControlTypeOK
    <2>2. /\ sent' \in Seq(user') /\ pending' \subseteq 1 .. Len(sent') /\ written' \in Seq(1 .. Len(sent'))
          /\ got' \in Seq(ToSet(got')) /\ DOMAIN out' = Channels
          /\ target' \in {"x11", "wayland", "android"}
          /\ \A x \in user' : Possible(x, target')
      BY <1>2, <1>5 DEF ControlSafe, ControlTypeOK
    <2> QED BY <2>1, <2>2 DEF ControlTypeOK
  <1>9. AtPacket'
    <2>1. Len(got') <= Len(written')
      BY <1>1, <1>2, <1>4, <1>5
    <2>2. \A k \in 1 .. Len(got') : got'[k] = Meant(sent'[written'[k]])
      <3> SUFFICES ASSUME NEW k \in 1 .. i PROVE got'[k] = Meant(sent[written[k]])
        BY <1>2, <1>5
      <3>1. CASE k = i
        BY <1>5, <3>1
      <3>2. CASE k \in 1 .. g
        <4>1. got[k] = Meant(sent[written[k]])
          BY <3>2 DEF ControlSafe, AtPacket
        <4> QED BY <1>5, <3>2, <4>1
      <3>3. k = i \/ k \in 1 .. g
        <4> HIDE DEF g
        <4> QED BY <1>4
      <3> QED BY <3>1, <3>2, <3>3
    <2> QED BY <1>1, <1>2, <2>1, <2>2, AtPacketNext
  <1>10. OrderedWritten'
    BY <1>2, <1>6, <1>7 DEF ControlSafe, OrderedWritten
  <1>11. NoneLost => NoneLost'
    BY <1>2, <1>6, <1>7 DEF NoneLost
  <1>12. KeysOfRead'
    <2>1. NoMetaLeft' => NoMetaLeft
      BY <1>2 DEF NoMetaLeft
    <2>2. ASSUME target # "android", NoMetaLeft PROVE keys' = CodesOf(ReadDown)'
      <3>1. keys' = CodesOf(ReadDown')
        BY <2>2, KeysFollowRead
      <3>2. CodesOf(ReadDown)' = CodesOf(ReadDown')
        BY <1>2 DEF CodesOf
      <3> QED BY <3>1, <3>2
    <2> QED BY <1>2, <2>1, <2>2 DEF KeysOfRead
  <1> QED BY <1>2, <1>8, <1>9, <1>10, <1>11, <1>12 DEF ControlSafe

\* Where nothing changes but whether the reader runs.
LEMMA SameControls ==
  ASSUME ControlTypeOK, AtPacket, OrderedWritten, KeysOfRead,
         target' = target, user' = user, sent' = sent, pending' = pending, out' = out,
         written' = written, conn' = conn, got' = got, keys' = keys
  PROVE  /\ ControlTypeOK' /\ AtPacket' /\ OrderedWritten' /\ KeysOfRead'
         /\ NoneLost => NoneLost'
  <1>1. \A j : ToWrite(j)' = ToWrite(j)
    <2>1. Layouts' = Layouts
      BY DEF Layouts
    <2> QED BY <2>1 DEF ToWrite, Wanted, Meant
  <1>2. \A j : Ordered(j)' <=> Ordered(j)
    BY DEF Ordered
  <1>3. ControlTypeOK'
    <2>1. \A d \in Channels :
            out'[d] = << >> \/ \E j \in 1 .. Len(sent') : ChannelOf(sent'[j]) = d /\ out'[d] = ToWrite(j)'
      BY <1>1 DEF ControlTypeOK
    <2>2. /\ sent' \in Seq(user') /\ pending' \subseteq 1 .. Len(sent') /\ written' \in Seq(1 .. Len(sent'))
          /\ got' \in Seq(ToSet(got')) /\ DOMAIN out' = Channels
          /\ target' \in {"x11", "wayland", "android"}
          /\ \A x \in user' : Possible(x, target')
      BY DEF ControlTypeOK
    <2> QED BY <2>1, <2>2 DEF ControlTypeOK
  <1>4. OrderedWritten'
    BY <1>1, <1>2 DEF OrderedWritten
  <1>5. AtPacket'
    <2>1. Unread' = Unread
      BY DEF Unread
    <2> QED BY <2>1, AtPacketNext DEF AtPacket
  <1>6. KeysOfRead'
    <2>1. NoMetaLeft' => NoMetaLeft
      BY DEF NoMetaLeft
    <2>2. \A k \in 1 .. Len(got) : sent'[written'[k]] = sent[written[k]]
      OBVIOUS
    <2>3. Len(got) <= Len(written)
      BY DEF AtPacket
    <2> QED BY <2>1, <2>2, <2>3, KeysSame
  <1>7. NoneLost => NoneLost'
    BY <1>1, <1>2 DEF NoneLost
  <1> QED BY <1>3, <1>4, <1>5, <1>6, <1>7

\* The reader never ends over a type it does not know.
LEMMA EndsKeeps ==
  ASSUME ControlSafe, ServeControlEnds(open), open' = open
  PROVE  ControlSafe' /\ ~open
  <1>1. /\ target' = target /\ user' = user /\ sent' = sent /\ pending' = pending /\ out' = out
        /\ written' = written /\ conn' = conn /\ got' = got /\ keys' = keys /\ serving' = FALSE
    BY DEF ServeControlEnds
  <1>2. ~open
    <2> SUFFICES ASSUME conn # << >>, Types(conn[1]) \cap DOMAIN Layouts = {} PROVE FALSE
      BY DEF ServeControlEnds
    <2>1. Types(conn[1]) = {Unread[1].type} /\ Unread[1].type \in DOMAIN Layouts
      BY FirstUnread
    <2> QED BY <2>1
  <1>3. ControlTypeOK' /\ AtPacket' /\ OrderedWritten' /\ KeysOfRead'
    BY <1>1, SameControls DEF ControlSafe
  <1> QED BY <1>2, <1>3 DEF ControlSafe

\* Where there are events there are bytes.
LEMMA SomeBytes ==
  ASSUME target \in {"x11", "wayland", "android"}, NEW U, \A e \in U : Possible(e, target),
         NEW u \in Seq(U), u # << >>
  PROVE  BytesOfEvents(u) # << >>
  <1>1. PICK s \in Seq(U), e \in U : u = Append(s, e)
    BY SequenceEmptyOrAppend
  <1> DEFINE b == BytesOfEvents(s)
             w == Wanted(e)
  <1>2. BytesOfEvents(u) = b \o w /\ b \in Seq(Int)
    BY <1>1, OneMoreEvent
  <1>3. w \in Seq(Int) /\ w # << >>
    <2>1. << >> \in Seq(Int) /\ Possible(e, target)
      BY EmptySeq
    <2> QED BY <2>1, PacketRead
  <1> HIDE DEF b, w
  <1> QED BY <1>2, <1>3, ConcatEqualIffEmpty

\* Nothing changes on the control path, and the connection may be closed.
LEMMA ControlKept ==
  ASSUME ControlSafe, UNCHANGED controls, open' => open
  PROVE  ControlSafe'
  <1>1. /\ target' = target /\ user' = user /\ sent' = sent /\ pending' = pending /\ out' = out
        /\ written' = written /\ conn' = conn /\ got' = got /\ keys' = keys /\ serving' = serving
    BY DEF controls
  <1>2. /\ ControlTypeOK' /\ AtPacket' /\ OrderedWritten' /\ KeysOfRead'
        /\ NoneLost => NoneLost'
    BY <1>1, SameControls DEF ControlSafe
  <1> QED BY <1>1, <1>2 DEF ControlSafe

\* A step of the control path.
LEMMA ControlStep ==
  ASSUME ControlSafe, ControlNext(open), open' = open
  PROVE  ControlSafe'
  <1>1. CASE \E e \in user : PageSends(e)
    BY <1>1, PageSendsKeeps
  <1>2. CASE \E c \in Channels : HandleEvent(c)
    BY <1>2, HandleEventKeeps
  <1>3. CASE \E c \in Channels : SendEvent(c, open)
    BY <1>3, SendEventKeeps
  <1>4. CASE ServeControlConn
    BY <1>4, ServeKeeps
  <1>5. CASE ServeControlEnds(open)
    BY <1>5, EndsKeeps
  <1> QED BY <1>1, <1>2, <1>3, <1>4, <1>5 DEF ControlNext

\* Stop closes the connection, and nothing opens it again.
LEMMA OpenOnlyCloses ==
  ASSUME FramesNext \/ UNCHANGED frames
  PROVE  open' = open \/ open' = FALSE
  BY DEF frames, FramesNext, Encode, EncoderEnds, PushFrame, ScanMore, PushEnds, Receive,
         ReadFails, SendBox, Stop, Take, WriteSample

\* The invariant holds at first.
LEMMA ControlStart ==
  ASSUME Init
  PROVE  ControlSafe
  <1>1. PICK s \in Scenarios : ControlInit(s)
    BY DEF Init
  <1>2. /\ target = s.target /\ user = s.user /\ sent = << >> /\ pending = {}
        /\ out = [c \in Channels |-> << >>] /\ written = << >> /\ conn = << >> /\ serving = TRUE
        /\ got = << >> /\ keys = {}
    BY <1>1 DEF ControlInit
  <1>3. Len(sent) = 0 /\ Len(written) = 0 /\ Len(got) = 0
        /\ sent \in Seq(user) /\ written \in Seq(1 .. Len(sent)) /\ got \in Seq(ToSet(got))
    BY <1>2, EmptySeq
  <1>4. \A i : i \notin 1 .. 0
    OBVIOUS
  <1>5. ControlTypeOK
    <2>1. target \in {"x11", "wayland", "android"} /\ \A e \in user : Possible(e, target)
      BY <1>2, ScenariosAssumption
    <2>2. DOMAIN out = Channels /\ (\A c \in Channels : out[c] = << >>) /\ pending \subseteq 1 .. Len(sent)
      BY <1>2
    <2> QED BY <1>3, <2>1, <2>2 DEF ControlTypeOK
  <1>6. AtPacket
    <2>1. Unread = << >>
      <3>1. Len(got) <= Len(written) /\ Len(written) - Len(got) = 0
        BY <1>3
      <3>2. Unread \in Seq(user) /\ Len(Unread) = 0
        BY <1>3, <1>5, <3>1, UnreadIs
      <3> QED BY <3>2, EmptySeq
    <2>2. \A i \in 1 .. Len(got) : got[i] = Meant(sent[written[i]])
      BY <1>3, <1>4
    <2>3. Len(got) <= Len(written)
      BY <1>3
    <2> QED BY <1>2, <2>1, <2>2, <2>3, NoEvent DEF AtPacket
  <1>7. OrderedWritten /\ NoneLost
    BY <1>3, <1>4 DEF OrderedWritten, NoneLost
  <1>8. KeysOfRead
    <2>1. ReadDown = {}
      BY <1>3, <1>4 DEF ReadDown
    <2>2. CodesOf({}) = {}
      BY DEF CodesOf
    <2> QED BY <1>2, <2>1, <2>2 DEF KeysOfRead
  <1> QED BY <1>2, <1>5, <1>6, <1>7, <1>8 DEF ControlSafe

\* For any scenarios, any events a page can cause and any number of them: the invariant
\* of the control path.
THEOREM ControlInvariant == Spec => []ControlSafe
  <1>1. Init => ControlSafe
    BY ControlStart
  <1>2. ControlSafe /\ [Next]_<<frames, controls, audio>> => ControlSafe'
    <2>1. ASSUME ControlSafe, Control PROVE ControlSafe'
      <3>1. open' = open
        BY <2>1 DEF Control, frames
      <3> QED BY <2>1, <3>1, ControlStep DEF Control
    <2>2. ASSUME ControlSafe, UNCHANGED controls, FramesNext \/ UNCHANGED frames PROVE ControlSafe'
      <3>1. open' => open
        BY <2>2, OpenOnlyCloses
      <3> QED BY <2>2, <3>1, ControlKept
    <2> QED BY <2>1, <2>2 DEF Next, Video, Sound
  <1> QED BY <1>1, <1>2, PTL DEF Spec

\* ServeControlConn and the two goroutines that call SendEvent: the reader reads the
\* events that were written, in that order and as the user meant them, and does not
\* end while the connection is open.
THEOREM PacketsInStep == Spec => []ReaderInStep
  <1>1. ControlSafe => ReaderInStep
    <2> SUFFICES ASSUME ControlSafe PROVE ReaderInStep
      OBVIOUS
    <2>1. DOMAIN got = 1 .. Len(got)
      BY ControlTyped DEF ControlSafe
    <2> QED BY <2>1 DEF ControlSafe, AtPacket, ReaderInStep, InStep
  <1> QED BY <1>1, ControlInvariant, PTL

\* When all has arrived, what was read is what was sent of the ordered channel, in
\* order: the keys that are down by the one are those that are down by the other.
LEMMA AllArrived ==
  ASSUME ControlSafe, open, pending = {}, \A c \in Channels : out[c] = << >>, conn = << >>
  PROVE  ReadDown = PressedKeys
  <1> DEFINE W == Len(written)
             N == Len(sent)
  <1>1. /\ W \in Nat /\ N \in Nat /\ DOMAIN sent = 1 .. N /\ Len(got) \in Nat
        /\ \A n \in 1 .. W : written[n] \in 1 .. N
    BY ControlTyped DEF ControlSafe
  <1>2. Len(got) = W
    <2>1. Len(got) <= Len(written) /\ ControlTypeOK /\ conn = BytesOfEvents(Unread)
      BY DEF ControlSafe, AtPacket
    <2>2. Unread \in Seq(user) /\ Len(Unread) = W - Len(got)
      BY <2>1, UnreadIs
    <2>3. Unread = << >>
      <3> SUFFICES ASSUME Unread # << >> PROVE FALSE
        OBVIOUS
      <3>1. /\ target \in {"x11", "wayland", "android"} /\ \A x \in user : Possible(x, target)
        BY DEF ControlSafe, ControlTypeOK
      <3> DEFINE u == Unread
      <3>2. u \in Seq(user) /\ u # << >> /\ BytesOfEvents(u) = << >>
        BY <2>1, <2>2
      <3> HIDE DEF u
      <3> QED BY <3>1, <3>2, SomeBytes
    <2> QED BY <1>1, <2>2, <2>3, EmptySeq
  <1>3. \A m, n \in 1 .. W :
          m < n /\ Ordered(written[m]) /\ Ordered(written[n]) => written[m] < written[n]
    BY DEF ControlSafe, OrderedWritten
  <1>4. \A i \in 1 .. N : Ordered(i) => \E n \in 1 .. W : written[n] = i
    <2>1. \A i : out["ordered"] # ToWrite(i)
      BY ToWriteOf DEF Channels
    <2> QED BY <2>1 DEF ControlSafe, NoneLost
  <1>5. \A i, a, k : sent[i] = KeyEvent(a, k) => Ordered(i)
    BY KeysDiffer DEF Ordered, ChannelOf
  <1> HIDE DEF W, N
  <1>6. ASSUME NEW k \in DOMAIN Kernel, NEW i \in 1 .. W, sent[written[i]] = KeyEvent(0, k),
               \A j \in i + 1 .. W : sent[written[j]] # KeyEvent(1, k)
        PROVE  k \in PressedKeys
    <2> DEFINE p == written[i]
    <2>1. p \in DOMAIN sent /\ sent[p] = KeyEvent(0, k)
      BY <1>1, <1>6
    <2>2. ASSUME NEW q \in p + 1 .. N, sent[q] = KeyEvent(1, k) PROVE FALSE
      <3>1. q \in 1 .. N /\ p < q
        BY <1>1, <2>1
      <3>2. PICK n \in 1 .. W : written[n] = q
        BY <1>4, <1>5, <2>2, <3>1
      <3>3. Ordered(written[i]) /\ Ordered(written[n])
        BY <1>5, <1>6, <2>2, <3>2
      <3>4. ~(n < i) /\ n # i
        BY <1>1, <1>3, <3>1, <3>2, <3>3
      <3>5. n \in i + 1 .. W
        BY <1>1, <3>4
      <3> QED BY <1>6, <2>2, <3>2, <3>5
    <2> HIDE DEF p
    <2> QED BY <2>1, <2>2 DEF PressedKeys, N
  <1>7. ASSUME NEW k \in PressedKeys PROVE k \in ReadDown
    <2>1. PICK p \in 1 .. N : /\ sent[p] = KeyEvent(0, k)
                              /\ KeyEvent(1, k) \notin {sent[j] : j \in p + 1 .. N}
      BY <1>1 DEF PressedKeys, N
    <2>2. PICK i \in 1 .. W : written[i] = p
      BY <1>4, <1>5, <2>1
    <2>3. ASSUME NEW j \in i + 1 .. W, sent[written[j]] = KeyEvent(1, k) PROVE FALSE
      <3>1. j \in 1 .. W /\ i < j
        BY <1>1
      <3>2. Ordered(written[i]) /\ Ordered(written[j])
        BY <1>5, <2>1, <2>2, <2>3
      <3>3. p < written[j]
        BY <1>3, <2>2, <3>1, <3>2
      <3>4. written[j] \in p + 1 .. N
        BY <1>1, <3>1, <3>3
      <3> QED BY <2>1, <2>3, <3>4
    <2>4. k \in DOMAIN Kernel
      BY DEF PressedKeys
    <2>5. \E n \in 1 .. Len(got) : /\ sent[written[n]] = KeyEvent(0, k)
                                   /\ \A j \in n + 1 .. Len(got) : sent[written[j]] # KeyEvent(1, k)
      BY <1>2, <2>1, <2>2, <2>3
    <2> QED BY <2>4, <2>5 DEF ReadDown
  <1>8. ASSUME NEW k \in ReadDown PROVE k \in PressedKeys
    <2>1. k \in DOMAIN Kernel
      BY DEF ReadDown
    <2>2. PICK i \in 1 .. W : /\ sent[written[i]] = KeyEvent(0, k)
                              /\ \A j \in i + 1 .. W : sent[written[j]] # KeyEvent(1, k)
      BY <1>2 DEF ReadDown
    <2> QED BY <1>6, <2>1, <2>2
  <1> QED BY <1>7, <1>8

\* keyboard.js, keyCodeMaps.go and the virtual keyboard: when all has arrived, the keys
\* that are down on the device are the keys that are down in the page.
THEOREM KeysArrive == Spec => []KeyboardFollows
  <1>1. ControlSafe => KeyboardFollows
    <2> SUFFICES ASSUME ControlSafe, open, target # "android", pending = {},
                        \A c \in Channels : out[c] = << >>, conn = << >>,
                        target = "x11" =>
                          \A i \in DOMAIN sent : \A a \in 0 .. 1 : sent[i] # KeyEvent(a, "MetaLeft")
                 PROVE  keys = IF target = "x11" THEN {Kernel[k] + 8 : k \in PressedKeys}
                               ELSE {Kernel[k] : k \in PressedKeys \ Missing}
      BY DEF KeyboardFollows, KeysFollow
    <2>1. ReadDown = PressedKeys
      BY AllArrived
    <2>2. keys = CodesOf(ReadDown)
      BY DEF ControlSafe, KeysOfRead, NoMetaLeft
    <2> QED BY <2>1, <2>2 DEF CodesOf
  <1> QED BY <1>1, ControlInvariant, PTL
=============================================================================
