-------------------------- MODULE LinuxSessionProofs --------------------------
(***************************************************************************)
(* What is proved of the recorder binary and of the driver that starts it. *)
(* RecorderInvariant is kept by every action of RecorderSession and by the *)
(* steps the driver takes beside it; the three safety properties and the   *)
(* order in which CleanUp kills follow from it.                            *)
(***************************************************************************)
EXTENDS LinuxSession, SequenceTheorems, TLAPS

-----------------------------------------------------------------------------
(* The lists of children                                                   *)

\* A list and what was taken from it, written with their elements.
LEMMA TwoLists ==
  ASSUME NEW s \in Seq(Kids), NEW t \in Seq(Kids)
  PROVE  IsInjective(s \o t) <=>
           /\ \A i, j \in 1 .. Len(s) : s[i] = s[j] => i = j
           /\ \A i, j \in 1 .. Len(t) : t[i] = t[j] => i = j
           /\ \A i \in 1 .. Len(s), j \in 1 .. Len(t) : s[i] # t[j]
  <1> DEFINE u == s \o t
  <1>1. /\ u \in Seq(Kids)
        /\ Len(u) = Len(s) + Len(t)
        /\ DOMAIN u = 1 .. Len(s) + Len(t)
    OBVIOUS
  <1>2. \A i \in 1 .. Len(s) : u[i] = s[i]
    OBVIOUS
  <1>3. \A j \in 1 .. Len(t) : u[Len(s) + j] = t[j]
    OBVIOUS
  <1>4. Len(s) \in Nat /\ Len(t) \in Nat
    OBVIOUS
  <1> HIDE DEF u
  <1>5. IsInjective(u) <=> \A i, j \in 1 .. Len(s) + Len(t) : u[i] = u[j] => i = j
    BY <1>1 DEF IsInjective
  <1>6. ASSUME IsInjective(u)
        PROVE  /\ \A i, j \in 1 .. Len(s) : s[i] = s[j] => i = j
               /\ \A i, j \in 1 .. Len(t) : t[i] = t[j] => i = j
               /\ \A i \in 1 .. Len(s), j \in 1 .. Len(t) : s[i] # t[j]
    <2>1. \A i, j \in 1 .. Len(s) : s[i] = s[j] => i = j
      BY <1>2, <1>4, <1>5, <1>6
    <2>2. ASSUME NEW i \in 1 .. Len(t), NEW j \in 1 .. Len(t), t[i] = t[j]
          PROVE  i = j
      <3>1. Len(s) + i \in 1 .. Len(s) + Len(t) /\ Len(s) + j \in 1 .. Len(s) + Len(t)
        BY <1>4
      <3>2. u[Len(s) + i] = u[Len(s) + j]
        BY <1>3, <2>2
      <3> QED BY <1>4, <1>5, <1>6, <3>1, <3>2
    <2>3. ASSUME NEW i \in 1 .. Len(s), NEW j \in 1 .. Len(t)
          PROVE  s[i] # t[j]
      <3>1. i \in 1 .. Len(s) + Len(t) /\ Len(s) + j \in 1 .. Len(s) + Len(t) /\ i # Len(s) + j
        BY <1>4
      <3>2. u[i] # u[Len(s) + j]
        BY <1>5, <1>6, <3>1
      <3> QED BY <1>2, <1>3, <3>2
    <2> QED BY <2>1, <2>2, <2>3
  <1>7. ASSUME \A i, j \in 1 .. Len(s) : s[i] = s[j] => i = j,
               \A i, j \in 1 .. Len(t) : t[i] = t[j] => i = j,
               \A i \in 1 .. Len(s), j \in 1 .. Len(t) : s[i] # t[j],
               NEW i \in 1 .. Len(s) + Len(t), NEW j \in 1 .. Len(s) + Len(t), u[i] = u[j]
        PROVE  i = j
    <2>1. \A k \in 1 .. Len(s) + Len(t) :
            k \notin 1 .. Len(s) => k - Len(s) \in 1 .. Len(t) /\ u[k] = t[k - Len(s)]
      <3>1. ASSUME NEW k \in 1 .. Len(s) + Len(t), k \notin 1 .. Len(s)
            PROVE  k - Len(s) \in 1 .. Len(t) /\ k = Len(s) + (k - Len(s))
        BY <1>4, <3>1
      <3> QED BY <1>3, <3>1
    <2>2. CASE i \in 1 .. Len(s) /\ j \in 1 .. Len(s)
      BY <1>2, <1>7, <2>2
    <2>3. CASE i \in 1 .. Len(s) /\ j \notin 1 .. Len(s)
      BY <1>2, <1>7, <2>1, <2>3
    <2>4. CASE i \notin 1 .. Len(s) /\ j \in 1 .. Len(s)
      BY <1>2, <1>7, <2>1, <2>4
    <2>5. CASE i \notin 1 .. Len(s) /\ j \notin 1 .. Len(s)
      <3>1. i - Len(s) = j - Len(s)
        BY <1>7, <2>1, <2>5
      <3> QED BY <1>4, <3>1
    <2> QED BY <2>2, <2>3, <2>4, <2>5
  <1> QED BY <1>5, <1>6, <1>7 DEF u

\* The children on a list, and the last of them.
LEMMA ListElements ==
  ASSUME NEW s \in Seq(Kids)
  PROVE  /\ Range(s) \subseteq Kids
         /\ \A p : p \in Range(s) <=> \E i \in 1 .. Len(s) : p = s[i]
         /\ s # << >> => Len(s) \in Nat /\ Len(s) >= 1 /\ Last(s) = s[Len(s)] /\ Last(s) \in Kids
  BY DEF Range, Last

\* PushCleanup of a child that is on neither list.
LEMMA PushListed ==
  ASSUME NEW s \in Seq(Kids), NEW t \in Seq(Kids), NEW p \in Kids,
         IsInjective(s \o t), p \notin Range(s), p \notin Range(t)
  PROVE  /\ Append(s, p) \in Seq(Kids)
         /\ IsInjective(Append(s, p) \o t)
         /\ Range(Append(s, p)) = Range(s) \cup {p}
         /\ Append(s, p)[1] = IF s = << >> THEN p ELSE s[1]
  <1> DEFINE a == Append(s, p)
  <1>1. /\ a \in Seq(Kids) /\ Len(s) \in Nat /\ Len(a) = Len(s) + 1 /\ a[Len(s) + 1] = p
        /\ \A i \in 1 .. Len(s) : a[i] = s[i]
    OBVIOUS
  <1>2. a[1] = IF s = << >> THEN p ELSE s[1]
    <2>1. s # << >> => Len(s) # 0
      OBVIOUS
    <2>2. s = << >> => Len(s) = 0
      OBVIOUS
    <2> HIDE DEF a
    <2> QED BY <1>1, <2>1, <2>2
  <1> HIDE DEF a
  <1>3. \A i \in 1 .. Len(a) : i \in 1 .. Len(s) \/ i = Len(s) + 1
    BY <1>1
  <1>4. (\A i \in 1 .. Len(s) : s[i] # p) /\ (\A i \in 1 .. Len(t) : t[i] # p)
    BY ListElements
  <1>5. /\ \A i, j \in 1 .. Len(s) : s[i] = s[j] => i = j
        /\ \A i, j \in 1 .. Len(t) : t[i] = t[j] => i = j
        /\ \A i \in 1 .. Len(s), j \in 1 .. Len(t) : s[i] # t[j]
    BY TwoLists
  <1>6. /\ \A i, j \in 1 .. Len(a) : a[i] = a[j] => i = j
        /\ \A i \in 1 .. Len(a), j \in 1 .. Len(t) : a[i] # t[j]
    BY <1>1, <1>3, <1>4, <1>5
  <1>7. IsInjective(a \o t)
    BY <1>1, <1>5, <1>6, TwoLists
  <1>8. Range(a) = Range(s) \cup {p}
    <2>1. \A x : x \in Range(a) <=> \E i \in 1 .. Len(a) : x = a[i]
      BY <1>1, ListElements
    <2>2. \A x : x \in Range(s) <=> \E i \in 1 .. Len(s) : x = s[i]
      BY ListElements
    <2>3. 1 .. Len(s) \subseteq 1 .. Len(a) /\ Len(s) + 1 \in 1 .. Len(a)
      BY <1>1
    <2>4. \A x : x \in Range(a) <=> x \in Range(s) \/ x = p
      BY <1>1, <1>3, <2>1, <2>2, <2>3
    <2> QED BY <2>4
  <1> QED BY <1>1, <1>2, <1>7, <1>8 DEF a

\* CleanUp kills the last of what it took.
LEMMA FrontListed ==
  ASSUME NEW s \in Seq(Kids), NEW t \in Seq(Kids), t # << >>, IsInjective(s \o t)
  PROVE  /\ Front(t) \in Seq(Kids)
         /\ IsInjective(s \o Front(t))
         /\ Range(t) = Range(Front(t)) \cup {Last(t)}
         /\ Last(t) \in Kids /\ Last(t) \notin Range(Front(t))
         /\ \A p \in Range(Front(t)) : p \in Range(t) /\ Front(t)[1] = t[1]
         /\ Last(t) = t[1] => Front(t) = << >>
  <1> DEFINE f == Front(t)
  <1>1. Len(t) \in Nat /\ Len(t) >= 1 /\ Last(t) = t[Len(t)] /\ Last(t) \in Kids
    BY ListElements
  <1>2. /\ f \in Seq(Kids) /\ Len(f) = Len(t) - 1
        /\ \A i \in 1 .. Len(t) - 1 : f[i] = t[i]
    <2>1. 1 \in 1 .. Len(t) + 1 /\ Len(t) - 1 \in 1 - 1 .. Len(t)
      BY <1>1
    <2> DEFINE n == Len(t) - 1
               g == SubSeq(t, 1, n)
    <2>2. /\ g \in Seq(Kids)
          /\ Len(g) = IF 1 <= n THEN n - 1 + 1 ELSE 0
          /\ \A i \in 1 .. n - 1 + 1 : g[i] = t[1 + i - 1]
      BY <2>1, SubSeqProperties
    <2> HIDE DEF g
    <2>3. g \in Seq(Kids) /\ Len(g) = n /\ \A i \in 1 .. n : g[i] = t[i]
      <3>1. n \in Nat
        BY <1>1
      <3> HIDE DEF n
      <3>2. n - 1 + 1 = n /\ (1 <= n \/ n = 0) /\ \A i \in 1 .. n : 1 + i - 1 = i
        BY ONLY <3>1
      <3>3. \A i \in 1 .. n : g[i] = t[i]
        BY <2>2, <3>1, <3>2
      <3> QED BY <2>2, <3>2, <3>3
    <2>4. f = g
      BY DEF Front, g
    <2> HIDE DEF f
    <2> QED BY <2>3, <2>4
  <1>3. Len(f) = 0 => f = << >>
    BY <1>2
  <1> HIDE DEF f
  <1>4. /\ \A i, j \in 1 .. Len(s) : s[i] = s[j] => i = j
        /\ \A i, j \in 1 .. Len(t) : t[i] = t[j] => i = j
        /\ \A i \in 1 .. Len(s), j \in 1 .. Len(t) : s[i] # t[j]
    BY TwoLists
  <1>5. 1 .. Len(f) \subseteq 1 .. Len(t) /\ \A i \in 1 .. Len(f) : f[i] = t[i] /\ i # Len(t)
    BY <1>1, <1>2
  <1>6. IsInjective(s \o f)
    <2>1. \A i, j \in 1 .. Len(f) : f[i] = f[j] => i = j
      BY <1>4, <1>5
    <2>2. \A i \in 1 .. Len(s), j \in 1 .. Len(f) : s[i] # f[j]
      BY <1>4, <1>5
    <2> QED BY <1>2, <1>4, <2>1, <2>2, TwoLists
  <1>7. \A x : x \in Range(f) <=> \E i \in 1 .. Len(f) : x = f[i]
    BY <1>2, ListElements
  <1>8. \A x : x \in Range(t) <=> \E i \in 1 .. Len(t) : x = t[i]
    BY ListElements
  <1>9. Len(t) \in 1 .. Len(t) /\ \A i \in 1 .. Len(t) : i \in 1 .. Len(f) \/ i = Len(t)
    BY <1>1, <1>2
  <1>10. Range(t) = Range(f) \cup {Last(t)}
    <2>1. \A x : x \in Range(t) <=> x \in Range(f) \/ x = Last(t)
      BY <1>1, <1>5, <1>7, <1>8, <1>9
    <2> QED BY <2>1
  <1>11. Last(t) \notin Range(f)
    BY <1>1, <1>4, <1>5, <1>7, <1>9
  <1>12. ASSUME NEW p \in Range(f)
         PROVE  p \in Range(t) /\ f[1] = t[1]
    <2>1. 1 \in 1 .. Len(f)
      BY <1>1, <1>2, <1>7
    <2> QED BY <1>5, <1>10, <2>1
  <1>13. Last(t) = t[1] => Len(t) = 1
    BY <1>1, <1>4, 1 \in 1 .. Len(t), Len(t) \in 1 .. Len(t)
  <1>14. Last(t) = t[1] => f = << >>
    BY <1>1, <1>2, <1>3, <1>13
  <1> QED BY <1>1, <1>2, <1>6, <1>10, <1>11, <1>12, <1>14 DEF f

\* CleanUp takes the list.
LEMMA EmptyListed ==
  ASSUME NEW s \in Seq(Kids)
  PROVE  /\ << >> \in Seq(Kids) /\ Range(<< >>) = {}
         /\ IsInjective(s \o << >>) => IsInjective(<< >> \o s)
         /\ Range(s) = {} => s = << >>
  <1>1. << >> \in Seq(Kids) /\ Len(<< >>) = 0
    OBVIOUS
  <1>2. Range(<< >>) = {}
    BY DEF Range
  <1>3. IsInjective(s \o << >>) => IsInjective(<< >> \o s)
    <2>1. s \o << >> = s /\ << >> \o s = s
      OBVIOUS
    <2> QED BY <2>1
  <1>4. Range(s) = {} => s = << >>
    <2>1. s # << >> => Last(s) \in Range(s)
      <3>1. s # << >> => Len(s) \in 1 .. Len(s) /\ Last(s) = s[Len(s)]
        BY ListElements
      <3> QED BY <3>1, ListElements
    <2> QED BY <2>1
  <1> QED BY <1>1, <1>2, <1>3, <1>4
-----------------------------------------------------------------------------
(* The steps of the recorder                                               *)

\* CleanUp has nothing left, or nothing yet.
LEMMA NothingTaken == RecorderInvariant => (once # "busy" => Range(taken) = {})
  BY EmptyListed DEF RecorderInvariant, RecorderTypeOK, CleanUpInOrder

\* No display server is left alive once CleanUp has ended.
LEMMA DisplayIsGone == RecorderInvariant /\ once = "done" => ~Alive("display")
  BY NothingTaken
  DEF RecorderInvariant, RecorderTypeOK, DisplayFirst, CleanUpInOrder, RegisteredIsListed, Alive,
      Kids, BeforeDisplay, BeforeDesktop, BeforeSignals

\* A child that registers before the list is taken is on it, behind the others.
LEMMA PushKeeps ==
  ASSUME NEW p \in Kids, RecorderInvariant, PushCleanup(p), p \notin Listed, UNCHANGED taken
  PROVE  /\ funcs' \in Seq(Kids) /\ IsInjective(funcs' \o taken')
         /\ kid' \in [Kids -> {"none", "started", "registered", "dead"}]
         /\ Listed' = Listed \cup {p}
         /\ Range(funcs') = Range(funcs) \cup {p}
         /\ Range(taken') = Range(taken)
         /\ funcs'[1] = (IF funcs = << >> THEN p ELSE funcs[1])
         /\ RegisteredIsListed'
         /\ \A q \in Kids : kid'[q] = "started" => kid[q] = "started" /\ q # p
  <1>1. funcs \in Seq(Kids) /\ taken \in Seq(Kids) /\ IsInjective(funcs \o taken)
    BY DEF RecorderInvariant, RecorderTypeOK
  <1>2. /\ funcs' \in Seq(Kids) /\ IsInjective(funcs' \o taken)
        /\ Range(funcs') = Range(funcs) \cup {p}
        /\ funcs'[1] = (IF funcs = << >> THEN p ELSE funcs[1])
    BY <1>1, PushListed DEF PushCleanup, Listed
  <1>3. /\ kid' \in [Kids -> {"none", "started", "registered", "dead"}]
        /\ \A q \in Kids : kid'[q] = "registered" => kid[q] = "registered" \/ q = p
        /\ \A q \in Kids : kid'[q] = "started" => kid[q] = "started" /\ q # p
    BY DEF PushCleanup, RecorderInvariant, RecorderTypeOK
  <1>4. RegisteredIsListed'
    BY <1>2, <1>3 DEF RecorderInvariant, RegisteredIsListed
  <1>5. Listed' = Listed \cup {p}
    BY <1>2 DEF Listed
  <1> QED BY <1>2, <1>3, <1>4, <1>5

\* A child that is dead need not be listed any more.
LEMMA DeathKeeps ==
  ASSUME NEW p \in Kids, RecorderInvariant, kid' = [kid EXCEPT ![p] = "dead"],
         UNCHANGED <<funcs, taken>>
  PROVE  /\ kid' \in [Kids -> {"none", "started", "registered", "dead"}]
         /\ RegisteredIsListed'
         /\ kid'["display"] = "started" => kid["display"] = "started"
  BY DEF RecorderInvariant, RecorderTypeOK, RegisteredIsListed, Kids

\* Once.Do lets one caller in, who takes the whole list.
LEMMA EnterKeeps ==
  ASSUME RecorderInvariant, EnterCleanUp, mpc \notin BeforeSignals,
         UNCHANGED <<sessionType, mpc, shpc, spc, files, conn, output, push, cancelled, exit>>
  PROVE  RecorderInvariant'
  <1>1. /\ funcs \in Seq(Kids) /\ taken = << >> /\ IsInjective(funcs \o << >>)
        /\ funcs' = << >> /\ taken' = funcs /\ kid' = kid /\ once' = "busy" /\ once = "fresh"
    BY DEF RecorderInvariant, RecorderTypeOK, CleanUpInOrder, EnterCleanUp
  <1>2. /\ funcs' \in Seq(Kids) /\ taken' \in Seq(Kids) /\ IsInjective(funcs' \o taken')
        /\ Range(funcs') = {} /\ Range(taken') = Range(funcs) /\ Range(taken) = {}
    BY <1>1, EmptyListed
  <1>3. Listed' = Listed
    BY <1>2 DEF Listed
  <1>4. RecorderTypeOK'
    BY <1>1, <1>2 DEF RecorderInvariant, RecorderTypeOK
  <1>5. PushedInTurn'
    BY <1>3 DEF RecorderInvariant, PushedInTurn
  <1>6. DisplayFirst'
    BY <1>1, <1>2 DEF RecorderInvariant, DisplayFirst
  <1>7. CleanUpInOrder'
    BY <1>1 DEF RecorderInvariant, CleanUpInOrder
  <1>8. RegisteredIsListed'
    BY <1>1, <1>2 DEF RecorderInvariant, RegisteredIsListed
  <1> QED BY <1>4, <1>5, <1>6, <1>7, <1>8 DEF RecorderInvariant

\* RegisterDisplay keeps the invariant of the recorder.
LEMMA RegisterDisplayStep == RecorderInvariant /\ RegisterDisplay => RecorderInvariant'
  <1> SUFFICES ASSUME RecorderInvariant, RegisterDisplay
               PROVE  RecorderInvariant'
    OBVIOUS
  <1>1. Listed = {} /\ once = "fresh"
    BY ListElements
    DEF RecorderInvariant, RecorderTypeOK, PushedInTurn, CleanUpInOrder, RegisterDisplay, Listed,
        BeforeDisplay, BeforeDesktop, BeforeSignals, BeforeShell, BeforeRecorder, Kids
  <1>2. funcs = << >>
    BY <1>1, EmptyListed DEF RecorderInvariant, RecorderTypeOK, Listed
  <1>3. /\ funcs' \in Seq(Kids) /\ IsInjective(funcs' \o taken')
        /\ kid' \in [Kids -> {"none", "started", "registered", "dead"}]
        /\ Listed' = {"display"} /\ Range(taken') = {} /\ funcs'[1] = "display"
        /\ RegisteredIsListed' /\ kid'["display"] # "started"
    BY <1>1, <1>2, PushKeeps DEF RegisterDisplay, Kids, Listed
  <1>4. RecorderTypeOK'
    BY <1>3 DEF RecorderInvariant, RecorderTypeOK, RegisterDisplay, MainStates
  <1>5. PushedInTurn'
    BY <1>3 DEF RecorderInvariant, PushedInTurn, RegisterDisplay,
                BeforeDisplay, BeforeDesktop, BeforeSignals, BeforeShell, BeforeRecorder
  <1>6. DisplayFirst'
    BY <1>1, <1>3 DEF RecorderInvariant, DisplayFirst, RegisterDisplay
  <1>7. CleanUpInOrder'
    BY <1>1 DEF RecorderInvariant, CleanUpInOrder, RegisterDisplay,
                BeforeDisplay, BeforeDesktop, BeforeSignals
  <1> QED BY <1>3, <1>4, <1>5, <1>6, <1>7 DEF RecorderInvariant

\* The shell is registered from a goroutine of its own, perhaps long after CleanUp.
LEMMA RunCmdStep == RecorderInvariant /\ RunCmd => RecorderInvariant'
  <1> SUFFICES ASSUME RecorderInvariant, RunCmd
               PROVE  RecorderInvariant'
    OBVIOUS
  <1>1. CASE shpc = "spawn"
    BY <1>1
    DEF RunCmd, X11RunCmd, WaylandRunCmd, Start, RecorderInvariant, RecorderTypeOK, PushedInTurn,
        DisplayFirst, CleanUpInOrder, RegisteredIsListed, Listed, Kids,
        BeforeDisplay, BeforeDesktop, BeforeSignals, BeforeShell, BeforeRecorder
  <1>2. CASE shpc = "push"
    <2>1. "shell" \notin Listed /\ mpc \notin BeforeShell
      BY <1>2 DEF RecorderInvariant, PushedInTurn
    <2>2. PushCleanup("shell") /\ shpc' = "end"
      BY <1>2 DEF RunCmd
    <2>3. /\ funcs' \in Seq(Kids) /\ IsInjective(funcs' \o taken')
          /\ kid' \in [Kids -> {"none", "started", "registered", "dead"}]
          /\ Listed' = Listed \cup {"shell"} /\ RegisteredIsListed'
          /\ Range(funcs') = Range(funcs) \cup {"shell"} /\ Range(taken') = Range(taken)
          /\ funcs # << >> => funcs'[1] = funcs[1]
          /\ kid'["display"] = "started" => kid["display"] = "started"
      BY <2>1, <2>2, PushKeeps DEF RunCmd, Kids
    <2>4. "display" \in Range(funcs) => funcs # << >>
      BY EmptyListed DEF RecorderInvariant, RecorderTypeOK
    <2>5. RecorderTypeOK'
      BY <2>2, <2>3 DEF RecorderInvariant, RecorderTypeOK, RunCmd
    <2>6. PushedInTurn'
      BY <2>1, <2>2, <2>3
      DEF RecorderInvariant, PushedInTurn, RunCmd,
          BeforeDisplay, BeforeDesktop, BeforeSignals, BeforeShell, BeforeRecorder
    <2>7. DisplayFirst'
      BY <2>3, <2>4 DEF RecorderInvariant, DisplayFirst, RunCmd
    <2>8. CleanUpInOrder'
      BY DEF RecorderInvariant, CleanUpInOrder, RunCmd
    <2> QED BY <2>3, <2>5, <2>6, <2>7, <2>8 DEF RecorderInvariant
  <1> QED BY <1>1, <1>2 DEF RunCmd

\* RegisterDesktop keeps the invariant of the recorder.
LEMMA RegisterDesktopStep == RecorderInvariant /\ RegisterDesktop => RecorderInvariant'
  <1> SUFFICES ASSUME RecorderInvariant, RegisterDesktop
               PROVE  RecorderInvariant'
    OBVIOUS
  <1>1. "desktop" \notin Listed
    BY DEF RecorderInvariant, PushedInTurn, RegisterDesktop,
           BeforeDisplay, BeforeDesktop, BeforeSignals, BeforeShell, BeforeRecorder
  <1>2. /\ funcs' \in Seq(Kids) /\ IsInjective(funcs' \o taken')
        /\ kid' \in [Kids -> {"none", "started", "registered", "dead"}]
        /\ Listed' = Listed \cup {"desktop"} /\ RegisteredIsListed'
        /\ Range(funcs') = Range(funcs) \cup {"desktop"} /\ Range(taken') = Range(taken)
        /\ funcs # << >> => funcs'[1] = funcs[1]
        /\ kid'["display"] = "started" => kid["display"] = "started"
    BY <1>1, PushKeeps DEF RegisterDesktop, Kids
  <1>3. "display" \in Range(funcs) => funcs # << >>
    BY EmptyListed DEF RecorderInvariant, RecorderTypeOK
  <1>4. RecorderTypeOK'
    BY <1>2 DEF RecorderInvariant, RecorderTypeOK, RegisterDesktop, MainStates
  <1>5. PushedInTurn'
    BY <1>2 DEF RecorderInvariant, PushedInTurn, RegisterDesktop,
                BeforeDisplay, BeforeDesktop, BeforeSignals, BeforeShell, BeforeRecorder
  <1>6. DisplayFirst'
    BY <1>2, <1>3 DEF RecorderInvariant, DisplayFirst, RegisterDesktop
  <1>7. CleanUpInOrder'
    BY DEF RecorderInvariant, CleanUpInOrder, RegisterDesktop,
           BeforeDisplay, BeforeDesktop, BeforeSignals
  <1> QED BY <1>2, <1>4, <1>5, <1>6, <1>7 DEF RecorderInvariant

\* RegisterRecorder keeps the invariant of the recorder.
LEMMA RegisterRecorderStep == RecorderInvariant /\ RegisterRecorder => RecorderInvariant'
  <1> SUFFICES ASSUME RecorderInvariant, RegisterRecorder
               PROVE  RecorderInvariant'
    OBVIOUS
  <1>1. "recorder" \notin Listed
    BY DEF RecorderInvariant, PushedInTurn, RegisterRecorder,
           BeforeDisplay, BeforeDesktop, BeforeSignals, BeforeShell, BeforeRecorder
  <1>2. /\ funcs' \in Seq(Kids) /\ IsInjective(funcs' \o taken')
        /\ kid' \in [Kids -> {"none", "started", "registered", "dead"}]
        /\ Listed' = Listed \cup {"recorder"} /\ RegisteredIsListed'
        /\ Range(funcs') = Range(funcs) \cup {"recorder"} /\ Range(taken') = Range(taken)
        /\ funcs # << >> => funcs'[1] = funcs[1]
        /\ kid'["display"] = "started" => kid["display"] = "started"
    BY <1>1, PushKeeps DEF RegisterRecorder, Kids
  <1>3. "display" \in Range(funcs) => funcs # << >>
    BY EmptyListed DEF RecorderInvariant, RecorderTypeOK
  <1>4. RecorderTypeOK'
    BY <1>2 DEF RecorderInvariant, RecorderTypeOK, RegisterRecorder, MainStates
  <1>5. PushedInTurn'
    BY <1>2 DEF RecorderInvariant, PushedInTurn, RegisterRecorder,
                BeforeDisplay, BeforeDesktop, BeforeSignals, BeforeShell, BeforeRecorder
  <1>6. DisplayFirst'
    BY <1>2, <1>3 DEF RecorderInvariant, DisplayFirst, RegisterRecorder
  <1>7. CleanUpInOrder'
    BY DEF RecorderInvariant, CleanUpInOrder, RegisterRecorder,
           BeforeDisplay, BeforeDesktop, BeforeSignals
  <1> QED BY <1>2, <1>4, <1>5, <1>6, <1>7 DEF RecorderInvariant

\* CleanupKill keeps the invariant of the recorder.
LEMMA CleanupKillStep == RecorderInvariant /\ CleanupKill => RecorderInvariant'
  <1> SUFFICES ASSUME RecorderInvariant, CleanupKill
               PROVE  RecorderInvariant'
    OBVIOUS
  <1>1. /\ funcs \in Seq(Kids) /\ taken \in Seq(Kids) /\ taken # << >> /\ IsInjective(funcs \o taken)
        /\ funcs' = funcs /\ taken' = Front(taken) /\ kid' = [kid EXCEPT ![Last(taken)] = "dead"]
        /\ once = "busy"
    BY DEF RecorderInvariant, RecorderTypeOK, CleanupKill, KillNext
  <1>2. /\ taken' \in Seq(Kids) /\ IsInjective(funcs' \o taken')
        /\ Range(taken) = Range(taken') \cup {Last(taken)} /\ Last(taken) \in Kids
        /\ \A p \in Range(taken') : p \in Range(taken) /\ taken'[1] = taken[1]
    BY <1>1, FrontListed
  <1>3. kid' \in [Kids -> {"none", "started", "registered", "dead"}]
    BY <1>1 DEF RecorderInvariant, RecorderTypeOK
  <1>4. RecorderTypeOK'
    BY <1>1, <1>2, <1>3 DEF RecorderInvariant, RecorderTypeOK, CleanupKill
  <1>5. PushedInTurn'
    BY <1>1, <1>2 DEF RecorderInvariant, PushedInTurn, CleanupKill, Listed
  <1>6. DisplayFirst'
    <2>1. kid'["display"] = "started" => kid["display"] = "started"
      BY <1>1, <1>2 DEF RecorderInvariant, RecorderTypeOK, Kids
    <2> QED BY <1>1, <1>2, <2>1 DEF RecorderInvariant, DisplayFirst, CleanupKill
  <1>7. CleanUpInOrder'
    BY <1>1 DEF RecorderInvariant, CleanUpInOrder, CleanupKill
  <1>8. RegisteredIsListed'
    <2>1. \A p \in Kids : kid'[p] = "registered" => kid[p] = "registered" /\ p # Last(taken)
      BY <1>1, <1>2 DEF RecorderInvariant, RecorderTypeOK
    <2> QED BY <1>1, <1>2, <2>1 DEF RecorderInvariant, RegisteredIsListed
  <1> QED BY <1>4, <1>5, <1>6, <1>7, <1>8 DEF RecorderInvariant

\* CleanupFiles keeps the invariant of the recorder.
LEMMA CleanupFilesStep == RecorderInvariant /\ CleanupFiles => RecorderInvariant'
  <1> SUFFICES ASSUME RecorderInvariant, CleanupFiles
               PROVE  RecorderInvariant'
    OBVIOUS
  <1>1. files' \subseteq {"config", "socket", "wayland"}
    BY DEF RecorderInvariant, RecorderTypeOK, CleanupFiles
  <1>2. files' \subseteq LeftoversOf(sessionType')
    BY DEF CleanupFiles
  <1>3. once' = "done" /\ taken = << >> /\ once = "busy" /\ UNCHANGED <<kid, funcs, taken>>
    BY DEF CleanupFiles
  <1>4. mpc \notin BeforeSignals
    BY <1>3 DEF RecorderInvariant, CleanUpInOrder
  <1>5. RecorderTypeOK'
    BY <1>1, <1>3 DEF RecorderInvariant, RecorderTypeOK, CleanupFiles
  <1>6. CleanUpInOrder'
    BY <1>2, <1>3, <1>4 DEF RecorderInvariant, CleanUpInOrder, CleanupFiles
  <1>7. PushedInTurn' /\ RegisteredIsListed'
    BY <1>3 DEF RecorderInvariant, PushedInTurn, RegisteredIsListed, Listed, CleanupFiles
  <1>8. DisplayFirst'
    BY <1>3 DEF RecorderInvariant, DisplayFirst, CleanupFiles
  <1> QED BY <1>5, <1>6, <1>7, <1>8 DEF RecorderInvariant

\* The two callers of CleanUp: the first goes in, the second waits.
LEMMA CleanUpStep ==
  RecorderInvariant /\ (MainCleanUp \/ SignalCleanUp) => RecorderInvariant'
  <1> SUFFICES ASSUME RecorderInvariant, MainCleanUp \/ SignalCleanUp
               PROVE  RecorderInvariant'
    OBVIOUS
  <1>1. mpc \notin BeforeSignals
    BY DEF RecorderInvariant, CleanUpInOrder, MainCleanUp, SignalCleanUp,
           BeforeDisplay, BeforeDesktop, BeforeSignals
  <1>2. CASE EnterCleanUp
    <2>1. UNCHANGED <<sessionType, mpc, shpc, spc, files, conn, output, push, cancelled, exit>>
      BY <1>2 DEF MainCleanUp, SignalCleanUp, EnterCleanUp, CleanUpReturned
    <2> QED BY <1>1, <1>2, <2>1, EnterKeeps
  <1>3. CASE ~EnterCleanUp
    <2>1. /\ once = "done" /\ UNCHANGED <<kid, funcs, once, taken>>
          /\ UNCHANGED <<sessionType, shpc, files, conn, output, push, cancelled, exit>>
          /\ mpc' \in {mpc, "cancel"} /\ spc' \in {spc, "exit"}
      BY <1>3 DEF MainCleanUp, SignalCleanUp, CleanUpReturned, session
    <2>2. RecorderTypeOK'
      BY <2>1 DEF RecorderInvariant, RecorderTypeOK, MainStates
    <2>3. PushedInTurn'
      <3>1. mpc = mpc' \/ (mpc = "cleanup" /\ mpc' = "cancel")
        BY <1>3, <2>1 DEF MainCleanUp, SignalCleanUp
      <3> QED BY <2>1, <3>1
              DEF RecorderInvariant, PushedInTurn, Listed,
                  BeforeDisplay, BeforeDesktop, BeforeSignals, BeforeShell, BeforeRecorder
    <2>4. DisplayFirst'
      <3>1. mpc = mpc' \/ mpc = "cleanup"
        BY <1>3, <2>1 DEF MainCleanUp, SignalCleanUp
      <3> QED BY <2>1, <3>1 DEF RecorderInvariant, DisplayFirst
    <2>5. CleanUpInOrder'
      BY <1>1, <2>1 DEF RecorderInvariant, CleanUpInOrder,
                        BeforeDisplay, BeforeDesktop, BeforeSignals
    <2>6. RegisteredIsListed'
      BY <2>1 DEF RecorderInvariant, RegisteredIsListed
    <2> QED BY <2>2, <2>3, <2>4, <2>5, <2>6 DEF RecorderInvariant
  <1> QED BY <1>2, <1>3
\* main, statement by statement.
LEMMA MainKeeps == RecorderInvariant /\ MainStep => RecorderInvariant'
  <1> SUFFICES ASSUME RecorderInvariant, MainStep
               PROVE  RecorderInvariant'
    OBVIOUS
  <1>1. CASE RegisterDisplay
    BY <1>1, RegisterDisplayStep
  <1>2. CASE RegisterDesktop
    BY <1>2, RegisterDesktopStep
  <1>3. CASE RegisterRecorder
    BY <1>3, RegisterRecorderStep
  <1>4. CASE MainCleanUp
    BY <1>4, CleanUpStep
  <1> USE DEF RecorderInvariant, RecorderTypeOK, PushedInTurn, DisplayFirst, CleanUpInOrder,
              RegisteredIsListed, Listed, MainStates, Exits, session,
              BeforeDisplay, BeforeDesktop, BeforeSignals, BeforeShell, BeforeRecorder
  <1>5. CASE NewSession
    BY <1>5 DEF NewSession, InitWaylandEnv
  <1>6. CASE LaunchSession
    <2>1. /\ mpc = "launch" /\ files' \in {files, files \cup {"config"}}
          /\ Launches \/ LaunchFails
          /\ UNCHANGED <<sessionType, shpc, spc, funcs, once, taken, conn, output, push, cancelled>>
      BY <1>6 DEF LaunchSession, LaunchWaylandSession, LaunchXorgSession, LaunchXvfbSession
    <2>2. CASE Launches
      BY <2>1, <2>2 DEF Launches, Start, Kids
    <2>3. CASE LaunchFails
      BY <2>1, <2>3 DEF LaunchFails, Fatal
    <2> QED BY <2>1, <2>2, <2>3
  <1>7. CASE WaitReady
    BY <1>7 DEF WaitReady, WaitX11Ready, WaitWaylandReady, Fatal, Start, Kids
  <1>8. CASE SetupController
    BY <1>8 DEF SetupController
  <1>9. CASE NotifySignals
    BY <1>9 DEF NotifySignals
  <1>10. CASE GoRunCmd
    BY <1>10 DEF GoRunCmd
  <1>11. CASE StartRecord
    BY <1>11 DEF StartRecord, StartFFmpeg, StartWfRecorder, RecorderStarts, RecordFails, Start, Kids
  <1>12. CASE GoServePushFrames
    BY <1>12 DEF GoServePushFrames
  <1>13. CASE MainCancel
    BY <1>13 DEF MainCancel
  <1>14. CASE MainReturns
    BY <1>14 DEF MainReturns
  <1> QED BY <1>1, <1>2, <1>3, <1>4, <1>5, <1>6, <1>7, <1>8, <1>9, <1>10, <1>11, <1>12, <1>13, <1>14 DEF MainStep

\* A child ends by itself, or with the context of main.
LEMMA EndKeeps ==
  ASSUME NEW p \in Kids, RecorderInvariant, CtxKill(p) \/ KidEnds(p)
  PROVE  RecorderInvariant'
  <1>1. /\ kid' = [kid EXCEPT ![p] = "dead"]
        /\ UNCHANGED <<sessionType, mpc, shpc, spc, funcs, once, taken, files, conn, output, push,
                       cancelled, exit>>
    BY DEF CtxKill, KidEnds
  <1>2. /\ kid' \in [Kids -> {"none", "started", "registered", "dead"}]
        /\ RegisteredIsListed'
        /\ kid'["display"] = "started" => kid["display"] = "started"
    BY <1>1, DeathKeeps
  <1> QED BY <1>1, <1>2
          DEF RecorderInvariant, RecorderTypeOK, PushedInTurn, DisplayFirst, CleanUpInOrder, Listed

\* The sockets of a display cannot come back behind CleanUp.
LEMMA DisplayReadyStep == RecorderInvariant /\ DisplayReady => RecorderInvariant'
  <1> SUFFICES ASSUME RecorderInvariant, DisplayReady
               PROVE  RecorderInvariant'
    OBVIOUS
  <1>1. /\ once # "done"
        /\ \E f \in SocketsOf(sessionType) : files' = files \cup {f}
        /\ UNCHANGED <<sessionType, mpc, shpc, spc, kid, funcs, once, taken, conn, output, push,
                       cancelled, exit>>
    BY DisplayIsGone DEF DisplayReady, session
  <1>2. files' \subseteq {"config", "socket", "wayland"}
    BY <1>1 DEF RecorderInvariant, RecorderTypeOK, SocketsOf
  <1> QED BY <1>1, <1>2
          DEF RecorderInvariant, RecorderTypeOK, PushedInTurn, DisplayFirst, CleanUpInOrder,
              RegisteredIsListed, Listed

\* The signal's goroutine, CleanUp, the other goroutines, the user and the children.
LEMMA OtherKeeps == RecorderInvariant /\ (SignalStep \/ CleanupStep \/ OtherStep) => RecorderInvariant'
  <1> SUFFICES ASSUME RecorderInvariant, (SignalStep \/ CleanupStep \/ OtherStep)
               PROVE  RecorderInvariant'
    OBVIOUS
  <1>1. CASE SignalCleanUp
    BY <1>1, CleanUpStep
  <1>2. CASE CleanupKill
    BY <1>2, CleanupKillStep
  <1>3. CASE CleanupFiles
    BY <1>3, CleanupFilesStep
  <1>4. CASE RunCmd
    BY <1>4, RunCmdStep
  <1>5. CASE \E p \in Kids : CtxKill(p) \/ KidEnds(p)
    BY <1>5, EndKeeps
  <1>6. CASE DisplayReady
    BY <1>6, DisplayReadyStep
  <1> USE DEF RecorderInvariant, RecorderTypeOK, PushedInTurn, DisplayFirst, CleanUpInOrder,
              RegisteredIsListed, Listed, MainStates, Exits, session,
              BeforeDisplay, BeforeDesktop, BeforeSignals, BeforeShell, BeforeRecorder
  <1>7. CASE SignalExits
    BY <1>7 DEF SignalExits
  <1>8. CASE ServePushFrames
    BY <1>8 DEF ServePushFrames
  <1>9. CASE Signal
    BY <1>9 DEF Signal
  <1> QED BY <1>1, <1>2, <1>3, <1>4, <1>5, <1>6, <1>7, <1>8, <1>9 DEF SignalStep, CleanupStep, OtherStep

-----------------------------------------------------------------------------
(* The recorder beside its driver                                          *)

\* No time has passed at first.
LEMMA ClocksStart == 0 \in 0 .. GiveUp /\ 0 \in 0 .. AcceptWait
  <1>1. GiveUp \in Nat /\ AcceptWait \in Nat
    BY TimesAssumption
  <1> QED BY <1>1

\* A session before anything was run.
LEMMA InvariantStart == Init => InductiveInv
  <1> SUFFICES ASSUME Init
               PROVE  InductiveInv
    OBVIOUS
  <1>1. /\ funcs \in Seq(Kids) /\ taken \in Seq(Kids) /\ IsInjective(funcs \o taken)
        /\ Range(funcs) = {} /\ Range(taken) = {}
    <2>1. funcs = << >> /\ taken = << >>
      BY DEF Init, RecorderInit
    <2>2. IsInjective(<< >> \o << >>)
      <3>1. << >> \o << >> = << >> /\ DOMAIN << >> = {}
        OBVIOUS
      <3> QED BY <3>1 DEF IsInjective
    <2>3. << >> \in Seq(Kids) /\ Range(<< >>) = {}
      BY DEF Range
    <2> QED BY <2>1, <2>2, <2>3
  <1>2. RecorderTypeOK
    BY <1>1 DEF Init, RecorderInit, RecorderTypeOK, SocketsOf, MainStates, Exits
  <1>3. TypeOK
    BY <1>2, ClocksStart DEF Init, TypeOK
  <1>4. PushedInTurn /\ DisplayFirst /\ CleanUpInOrder /\ RegisteredIsListed
    BY <1>1 DEF Init, RecorderInit, PushedInTurn, DisplayFirst, CleanUpInOrder, RegisteredIsListed,
                Listed, Kids
  <1> QED BY <1>2, <1>3, <1>4 DEF InductiveInv, RecorderInvariant

\* Of the recorder's variables the driver touches its life and its connection.
LEMMA DriverKeeps ==
  ASSUME RecorderInvariant, exit' \in {exit, "running"}, conn' \in BOOLEAN,
         UNCHANGED <<sessionType, mpc, shpc, spc, session, files, output, push, cancelled>>
  PROVE  RecorderInvariant'
  BY DEF RecorderInvariant, RecorderTypeOK, PushedInTurn, DisplayFirst, CleanUpInOrder,
         RegisteredIsListed, Listed, session, Exits

\* WaitTCP.
LEMMA WaitTCPKeeps ==
  ASSUME RecorderInvariant, NEW b \in BOOLEAN, Listen(b) \/ Accept(b) \/ AcceptTimeout
  PROVE  RecorderInvariant'
  <1> USE DEF RecorderInvariant, RecorderTypeOK, PushedInTurn, DisplayFirst, CleanUpInOrder,
              RegisteredIsListed, Listed, MainStates, Exits, session,
              BeforeDisplay, BeforeDesktop, BeforeSignals, BeforeShell, BeforeRecorder
  <1>1. CASE Listen(b)
    BY <1>1 DEF Listen, Fatal
  <1>2. CASE Accept(b)
    BY <1>2 DEF Accept
  <1>3. CASE AcceptTimeout
    BY <1>3 DEF AcceptTimeout, DeadlineEnds, Fatal
  <1> QED BY <1>1, <1>2, <1>3

\* Nobody waits longer than he is willing to.
LEMMA SecondTyped == TypeOK /\ Second => dialed' \in 0 .. GiveUp /\ waited' \in 0 .. AcceptWait
  <1> SUFFICES ASSUME TypeOK, Second
               PROVE  dialed' \in 0 .. GiveUp /\ waited' \in 0 .. AcceptWait
    OBVIOUS
  <1>1. /\ GiveUp \in Nat /\ GiveUp > 0 /\ AcceptWait \in Nat
        /\ dialed \in 0 .. GiveUp /\ waited \in 0 .. AcceptWait
    BY TimesAssumption DEF TypeOK
  <1>2. (dialed + 1) % GiveUp \in 0 .. GiveUp
    BY <1>1
  <1>3. dialed' \in {dialed, 0, (dialed + 1) % GiveUp}
    BY DEF Second
  <1>4. dialed' \in 0 .. GiveUp
    BY <1>1, <1>2, <1>3
  <1>5. waited' = waited \/ (waited # AcceptWait /\ waited' = waited + 1)
    BY DEF Second
  <1> QED BY <1>1, <1>4, <1>5

\* Nothing the driver, the recorder or time does breaks the invariant.
LEMMA InvariantStep == InductiveInv /\ [Next]_vars => InductiveInv'
  <1> SUFFICES ASSUME InductiveInv, [Next]_vars
               PROVE  InductiveInv'
    OBVIOUS
  <1>1. TypeOK /\ RecorderInvariant
    BY DEF InductiveInv
  <1>2. RecorderInvariant'
    <2>1. CASE UNCHANGED recorder
      BY <1>1, <2>1, DriverKeeps DEF recorder, RecorderInvariant, RecorderTypeOK
    <2>2. CASE LocalStartRecorder
      BY <1>1, <2>2, DriverKeeps DEF LocalStartRecorder, RecorderInvariant, RecorderTypeOK
    <2>3. CASE Stop
      <3>1. conn \in BOOLEAN
        BY <1>1 DEF RecorderInvariant, RecorderTypeOK
      <3>2. conn' \in BOOLEAN
        BY <2>3, <3>1 DEF Stop
      <3> QED BY <1>1, <2>3, <3>2, DriverKeeps DEF Stop
    <2>4. CASE RecorderMain
      <3>1. squat \in BOOLEAN /\ (link = "own") \in BOOLEAN
        BY <1>1 DEF TypeOK
      <3>2. CASE MainStep
        BY <1>1, <3>2, MainKeeps
      <3>3. CASE RecorderListens \/ RecorderAccepts \/ RecorderTimesOut
        BY <1>1, <3>1, <3>3, WaitTCPKeeps DEF RecorderListens, RecorderAccepts, RecorderTimesOut
      <3> QED BY <2>4, <3>2, <3>3 DEF RecorderMain
    <2>5. CASE RecorderSignals \/ RecorderCleans \/ OtherStep
      BY <1>1, <2>5, OtherKeeps DEF RecorderSignals, RecorderCleans
    <2>6. WriteBinary \/ Dial \/ Second \/ OldRecorderEnds \/ UNCHANGED vars => UNCHANGED recorder
      BY DEF WriteBinary, Dial, Second, OldRecorderEnds, vars
    <2> QED BY <2>1, <2>2, <2>3, <2>4, <2>5, <2>6 DEF Next, DriverStep
  <1>3. TypeOK'
    <2>1. RecorderTypeOK'
      BY <1>2 DEF RecorderInvariant
    <2> USE DEF TypeOK
    <2>2. CASE UNCHANGED driver
      BY <1>1, <2>1, <2>2 DEF driver
    <2>3. CASE WriteBinary
      BY <1>1, <2>1, <2>3 DEF WriteBinary
    <2>4. CASE LocalStartRecorder
      BY <1>1, <2>1, <2>4 DEF LocalStartRecorder
    <2>5. CASE Dial
      BY <1>1, <2>1, <2>5 DEF Dial
    <2>6. CASE Second
      <3>1. dialed' \in 0 .. GiveUp /\ waited' \in 0 .. AcceptWait
        BY <1>1, <2>6, SecondTyped
      <3> QED BY <1>1, <2>1, <2>6, <3>1 DEF Second
    <2>7. CASE Stop
      BY <1>1, <2>1, <2>7 DEF Stop
    <2>8. CASE RecorderAccepts
      BY <1>1, <2>1, <2>8, ClocksStart DEF RecorderAccepts
    <2>9. CASE OldRecorderEnds
      BY <1>1, <2>1, <2>9 DEF OldRecorderEnds
    <2>10. RecorderMain \/ RecorderSignals \/ RecorderCleans => UNCHANGED driver \/ RecorderAccepts
      BY DEF RecorderMain, RecorderSignals, RecorderCleans, RecorderListens, RecorderTimesOut
    <2>11. UNCHANGED vars => UNCHANGED driver
      BY DEF vars
    <2> QED BY <2>2, <2>3, <2>4, <2>5, <2>6, <2>7, <2>8, <2>9, <2>10, <2>11 DEF Next, DriverStep
  <1> QED BY <1>2, <1>3 DEF InductiveInv

\* Types and the order of main, lists and CleanUp, for any number of seconds.
THEOREM SessionInvariant == Spec => []InductiveInv
  BY InvariantStart, InvariantStep, PTL DEF Spec

\* Driver and recorder keep their types; the driver's and the listener's clocks
\* stay within their limits, and no child is listed twice.
THEOREM SessionTyped == Spec => []TypeOK
  <1>1. InductiveInv => TypeOK
    BY DEF InductiveInv
  <1> QED BY SessionInvariant, <1>1, PTL

\* No registered child is forgotten, whoever enters CleanUp while others push.
THEOREM NoneForgotten == Spec => []RegisteredIsListed
  <1>1. InductiveInv => RegisteredIsListed
    BY DEF InductiveInv, RecorderInvariant
  <1> QED BY SessionInvariant, <1>1, PTL

\* A process that ends after CleanUp, by a signal or by returning, leaves no socket of
\* an X server and no sway-ipc socket (wayland-N and sway's configuration may stay), and
\* no registered child that CleanUp could have known of.
THEOREM CleanExit == Spec => []ExitIsClean
  <1>1. InductiveInv => ExitIsClean
    BY NothingTaken DEF InductiveInv, RecorderInvariant, CleanUpInOrder, RegisteredIsListed, ExitIsClean
  <1> QED BY SessionInvariant, <1>1, PTL

\* When CleanUp kills the display, nothing else it took is left.
THEOREM DisplayLast == Spec => BaseStopsLast
  <1> DEFINE BaseLast ==
        taken # << >> /\ kid["display"] = "registered" /\ kid'["display"] = "dead" /\ taken' # taken =>
          \A p \in Kids \ {"display"} : kid[p] = "registered" => p \in Range(funcs)
  <1>1. InductiveInv /\ [Next]_vars => [BaseLast]_recorder
    <2> SUFFICES ASSUME InductiveInv, [Next]_vars, taken # << >>, kid["display"] = "registered",
                        kid'["display"] = "dead", taken' # taken,
                        NEW p \in Kids \ {"display"}, kid[p] = "registered"
                 PROVE  p \in Range(funcs)
      OBVIOUS
    <2>1. /\ funcs \in Seq(Kids) /\ taken \in Seq(Kids) /\ IsInjective(funcs \o taken)
          /\ kid \in [Kids -> {"none", "started", "registered", "dead"}]
          /\ DisplayFirst /\ RegisteredIsListed
          /\ once = "busy"
      BY DEF InductiveInv, RecorderInvariant, RecorderTypeOK, CleanUpInOrder
    <2>2. KillNext
      BY <2>1 DEF Next, DriverStep, WriteBinary, LocalStartRecorder, Dial, Second, Stop, OldRecorderEnds,
             RecorderMain, RecorderSignals, RecorderCleans, RecorderListens, RecorderAccepts,
             RecorderTimesOut, Listen, Accept, AcceptTimeout, MainStep, SignalStep, CleanupStep, OtherStep,
             NewSession, LaunchSession, RegisterDisplay, WaitReady, RegisterDesktop, SetupController,
             NotifySignals, GoRunCmd, StartRecord, RegisterRecorder, GoServePushFrames, MainCleanUp,
             MainCancel, MainReturns, RunCmd, ServePushFrames, SignalCleanUp, SignalExits, EnterCleanUp,
             CtxKill, KidEnds, Signal, DisplayReady, CleanupKill, CleanupFiles, session, recorder, vars
    <2>3. Last(taken) = "display"
      BY <2>1, <2>2 DEF KillNext, Kids
    <2>4. taken[1] = "display" /\ Range(taken) = {"display"}
      <3>1. Last(taken) \in Range(taken)
        BY <2>1, FrontListed
      <3>2. taken[1] = Last(taken)
        BY <2>1, <2>3, <3>1 DEF DisplayFirst
      <3>3. Front(taken) = << >>
        BY <2>1, <3>2, FrontListed
      <3> QED BY <2>1, <2>3, <3>2, <3>3, FrontListed, EmptyListed
    <2> QED BY <2>1, <2>4 DEF RegisteredIsListed
  <1> QED BY SessionInvariant, <1>1, PTL DEF Spec, BaseStopsLast
=============================================================================
