--------------------------- MODULE ScrcpyStartProofs ---------------------------
(***************************************************************************)
(* What is proved of the starts and stops of scrcpy drivers, for any       *)
(* devices, any number of starts and any number of restarts of the process.*)
(* InductiveInv has one lemma per conjunct; the four properties follow.    *)
(***************************************************************************)
EXTENDS ScrcpyStart, SequenceTheorems, TLAPS

-----------------------------------------------------------------------------
(* Sequences                                                               *)

\* The sockets of a server: the ones New accepts come first and in its order, unless
\* it is misled.
LEMMA RolesInOrder ==
  ASSUME NEW o \in Options
  PROVE  /\ ServerRoles(o) \in Seq(RoleSet) /\ Len(ServerRoles(o)) \in 1 .. 3
         /\ (IF o["audio"] = "true" THEN 2 ELSE 1) + (IF o["control"] = "true" THEN 1 ELSE 0)
              <= Len(ServerRoles(o))
         /\ o["audio"] # "unset" /\ o["control"] # "unset" =>
              Len(ServerRoles(o)) = (IF o["audio"] = "true" THEN 2 ELSE 1)
                                     + (IF o["control"] = "true" THEN 1 ELSE 0)
         /\ ServerRoles(o)[1] = "video"
         /\ o["audio"] = "true" => ServerRoles(o)[2] = "audio"
         /\ o["control"] = "true" /\ ~Misled(o) =>
              ServerRoles(o)[IF o["audio"] = "true" THEN 3 ELSE 2] = "control"
  <1>1. o["audio"] \in {"true", "false", "unset"} /\ o["control"] \in {"true", "false", "unset"}
    BY DEF Options
  <1> USE <1>1 DEF ServerRoles, Asked, RoleSet, Misled
  <1>2. CASE o["audio"] # "false" /\ o["control"] # "false"
    BY <1>2
  <1>3. CASE o["audio"] # "false" /\ o["control"] = "false"
    BY <1>3
  <1>4. CASE o["audio"] = "false" /\ o["control"] # "false"
    BY <1>4
  <1>5. CASE o["audio"] = "false" /\ o["control"] = "false"
    BY <1>5
  <1> QED BY <1>2, <1>3, <1>4, <1>5

\* A function on an interval is a sequence.
LEMMA Mapped ==
  ASSUME NEW S, NEW s \in Seq(S), NEW f \in [1 .. Len(s) -> S]
  PROVE  f \in Seq(S) /\ Len(f) = Len(s)
  <1>1. Len(s) \in Nat
    OBVIOUS
  <1>2. f \in Seq(S)
    BY <1>1, SeqDef
  <1> QED BY <1>1, <1>2, LenProperties

\* The first of a sequence and those after it.
LEMMA HeadAndTail ==
  ASSUME NEW S, NEW s \in Seq(S), s # <<>>
  PROVE  /\ Head(s) = s[1] /\ Head(s) \in S /\ Tail(s) \in Seq(S)
         /\ Len(s) \in Nat /\ Len(s) >= 1 /\ Len(Tail(s)) = Len(s) - 1
         /\ \A i \in 1 .. Len(s) - 1 : Tail(s)[i] = s[i + 1]
  <1>1. Head(s) = s[1] /\ Head(s) \in S /\ Tail(s) \in Seq(S)
    OBVIOUS
  <1>2. Len(s) \in Nat /\ Len(s) >= 1 /\ Len(Tail(s)) = Len(s) - 1
    OBVIOUS
  <1>3. \A i \in 1 .. Len(s) - 1 : Tail(s)[i] = s[i + 1]
    OBVIOUS
  <1> QED BY <1>1, <1>2, <1>3

\* A sequence with one element more.
LEMMA Appended ==
  ASSUME NEW S, NEW s \in Seq(S), NEW e \in S
  PROVE  /\ Append(s, e) \in Seq(S)
         /\ Len(s) \in Nat /\ Len(Append(s, e)) = Len(s) + 1
         /\ Append(s, e)[Len(s) + 1] = e
         /\ \A i \in 1 .. Len(s) : Append(s, e)[i] = s[i]
  OBVIOUS

-----------------------------------------------------------------------------
(* The servers                                                             *)

\* What a step that launches no server and opens no socket leaves alone.
Undisturbed ==
  /\ servers' \in Seq(Launched)
  /\ Len(servers') = Len(servers)
  /\ \A n \in Started :
       /\ servers'[n].dev = servers[n].dev
       /\ servers'[n].roles = servers[n].roles
       /\ servers'[n].opened = servers[n].opened
       /\ servers'[n].state \in {"asleep", "starting"} => servers[n].state \in {"asleep", "starting"}

\* Every number up to the last one launched is a server.
LEMMA ServersTyped ==
  ASSUME TypeOK
  PROVE  Len(servers) \in Nat /\ \A n \in Started : servers[n] \in Launched
  <1>1. servers \in Seq(Launched)
    BY DEF TypeOK
  <1> QED BY <1>1 DEF Started

\* A server whose connections are closed keeps its device and its roles.
LEMMA CutServer ==
  ASSUME NEW s \in Launched, NEW n, NEW cs
  PROVE  /\ Cut(s, n, cs) \in Launched
         /\ Cut(s, n, cs).dev = s.dev /\ Cut(s, n, cs).roles = s.roles
         /\ Cut(s, n, cs).opened = s.opened
         /\ Cut(s, n, cs).state \in {"asleep", "starting"} => s.state \in {"asleep", "starting"}
  BY DEF Cut, Ended, Launched

\* Servers whose connections are closed.
LEMMA CutServers ==
  ASSUME TypeOK, NEW cs, servers' = [n \in Started |-> Cut(servers[n], n, cs)]
  PROVE  Undisturbed
  <1>1. \A n \in Started : servers[n] \in Launched
    BY ServersTyped
  <1>2. servers' \in [1 .. Len(servers) -> Launched]
    BY <1>1, CutServer DEF Started
  <1>3. servers' \in Seq(Launched) /\ Len(servers') = Len(servers)
    BY <1>2, Mapped DEF TypeOK
  <1>4. ASSUME NEW n \in Started
        PROVE  /\ servers'[n].dev = servers[n].dev /\ servers'[n].roles = servers[n].roles
               /\ servers'[n].opened = servers[n].opened
               /\ servers'[n].state \in {"asleep", "starting"} =>
                    servers[n].state \in {"asleep", "starting"}
    <2>1. servers'[n] = Cut(servers[n], n, cs)
      OBVIOUS
    <2> QED BY <1>1, <2>1, CutServer
  <1> QED BY <1>3, <1>4 DEF Undisturbed

\* One server changes its state, and does not start.
LEMMA StateSet ==
  ASSUME TypeOK, NEW n \in Started,
         NEW s \in {"asleep", "starting", "open", "spoke", "mute", "ended", "gone"},
         servers' = [servers EXCEPT ![n].state = s],
         s \in {"asleep", "starting"} => servers[n].state \in {"asleep", "starting"}
  PROVE  Undisturbed
  <1>1. \A m \in Started : servers[m] \in Launched
    BY ServersTyped
  <1>2. servers \in Seq(Launched) /\ DOMAIN servers = 1 .. Len(servers)
    <2>1. servers \in Seq(Launched)
      BY DEF TypeOK
    <2> QED BY <2>1
  <1>3. \A m \in Started : servers'[m] = IF m = n THEN [servers[n] EXCEPT !.state = s] ELSE servers[m]
    BY <1>2 DEF Started
  <1>4. [servers[n] EXCEPT !.state = s] \in Launched
    BY <1>1 DEF Launched
  <1>5. servers' \in [1 .. Len(servers) -> Launched]
    BY <1>1, <1>2, <1>3, <1>4 DEF Started
  <1>6. servers' \in Seq(Launched) /\ Len(servers') = Len(servers)
    BY <1>2, <1>5, Mapped
  <1>7. \A m \in Started :
          /\ servers'[m].dev = servers[m].dev /\ servers'[m].roles = servers[m].roles
          /\ servers'[m].opened = servers[m].opened
          /\ servers'[m].state \in {"asleep", "starting"} => servers[m].state \in {"asleep", "starting"}
    BY <1>1, <1>3 DEF Launched
  <1> QED BY <1>6, <1>7 DEF Undisturbed

\* Servers are launched by Configure, open sockets by Connect, and change in no
\* other way that matters to anybody else.
LEMMA MostUndisturbed ==
  ASSUME InductiveInv, [Next]_vars, ~Configure, ~\E n \in Started : Connect(n)
  PROVE  Undisturbed
  <1>1. TypeOK
    BY DEF InductiveInv
  <1>2. \A n \in Started : servers[n] \in Launched
    BY <1>1, ServersTyped
  <1>3. CASE UNCHANGED servers
    <2>1. servers \in Seq(Launched)
      BY <1>1 DEF TypeOK
    <2> QED BY <1>3, <2>1 DEF Undisturbed
  <1>4. CASE EndProcess
    <2> DEFINE open == ToSet(backlog) \cup {accepted} \cup {held[r] : r \in RoleSet}
                         \cup UNION {{d.held[r] : r \in RoleSet} : d \in drivers}
    <2> HIDE DEF open
    <2>1. servers' = [n \in Started |-> IF servers[n].state = "asleep" THEN [servers[n] EXCEPT !.state = "gone"]
                                       ELSE Cut(servers[n], n, open)]
      BY <1>4 DEF EndProcess, open
    <2>2. ASSUME NEW n \in Started
          PROVE  /\ servers'[n] \in Launched
                 /\ servers'[n].dev = servers[n].dev /\ servers'[n].roles = servers[n].roles
                 /\ servers'[n].opened = servers[n].opened
                 /\ servers'[n].state \in {"asleep", "starting"} =>
                      servers[n].state \in {"asleep", "starting"}
      <3>1. CASE servers[n].state = "asleep"
        <4>1. servers'[n] = [servers[n] EXCEPT !.state = "gone"]
          BY <2>1, <3>1
        <4> QED BY <1>2, <4>1 DEF Launched
      <3>2. CASE servers[n].state # "asleep"
        <4>1. servers'[n] = Cut(servers[n], n, open)
          BY <2>1, <3>2
        <4> QED BY <1>2, <4>1, CutServer
      <3> QED BY <3>1, <3>2
    <2>3. servers' \in [1 .. Len(servers) -> Launched]
      BY <2>1, <2>2 DEF Started
    <2>4. servers' \in Seq(Launched) /\ Len(servers') = Len(servers)
      <3>1. servers \in Seq(Launched)
        BY <1>1 DEF TypeOK
      <3> QED BY <2>3, <3>1, Mapped
    <2> QED BY <2>2, <2>4 DEF Undisturbed
  <1>5. CASE AcceptTimeout \/ Finish
    <2>1. servers' = [n \in Started |-> Cut(servers[n], n, ToSet(backlog))]
      BY <1>5 DEF AcceptTimeout, Finish
    <2> QED BY <1>1, <2>1, CutServers
  <1>6. CASE CloseConns
    <2> DEFINE cs == {held[r] : r \in RoleSet}
    <2>1. servers' = [n \in Started |-> Cut(servers[n], n, cs)]
      BY <1>6 DEF CloseConns
    <2> HIDE DEF cs
    <2> QED BY <1>1, <2>1, CutServers
  <1>7. ASSUME NEW n \in Started, Launch(n) \/ Speak(n) \/ ServerEnds(n)
        PROVE  Undisturbed
    <2>1. PICK s \in {"starting", "spoke", "mute", "ended", "gone"} :
            /\ servers' = [servers EXCEPT ![n].state = s]
            /\ s = "starting" => servers[n].state = "asleep"
      BY <1>7 DEF Launch, Speak, ServerEnds, Ended
    <2> QED BY <1>1, <2>1, StateSet
  <1>8. CASE StopADB
    <2>1. own \in Started
      BY <1>8 DEF InductiveInv, JobInOrder, StopADB
    <2>2. CASE servers' = [servers EXCEPT ![own].state = Ended(servers[own])]
      <3>1. Ended(servers[own]) \in {"ended", "gone"}
        BY DEF Ended
      <3> QED BY <1>1, <2>1, <2>2, <3>1, StateSet
    <2>3. CASE servers' = [servers EXCEPT ![own].state = IF @ = "asleep" THEN "gone" ELSE @]
      <3> DEFINE s == IF servers[own].state = "asleep" THEN "gone" ELSE servers[own].state
      <3>1. servers[own] \in Launched
        BY <1>2, <2>1
      <3>2. /\ s \in {"asleep", "starting", "open", "spoke", "mute", "ended", "gone"}
            /\ s \in {"asleep", "starting"} => servers[own].state \in {"asleep", "starting"}
        BY <3>1 DEF Launched
      <3>3. servers' = [servers EXCEPT ![own].state = s]
        BY <2>3
      <3> HIDE DEF s
      <3> QED BY <1>1, <2>1, <3>2, <3>3, StateSet
    <2> QED BY <1>8, <2>2, <2>3 DEF StopADB
  <1>9. CASE AssignConn
    BY <1>3, <1>4, <1>9 DEF AssignConn, external
  <1>10. Panic \/ Kill => EndProcess
    BY DEF Panic, Kill
  <1>11. \/ \E d \in Devices : BeginStart(d)
         \/ SetUpTunnel \/ SupportOpusAudio \/ PushScrcpyServer \/ Listen
         \/ Accept \/ ReadDeviceMeta
         \/ \E r \in drivers : BeginStop(r)
         \/ Restart \/ UNCHANGED vars
         => UNCHANGED servers
    BY DEF BeginStart, SetUpTunnel, SupportOpusAudio, PushScrcpyServer, Listen, Accept, ReadDeviceMeta,
           BeginStop, Restart, vars, external
  <1> QED BY <1>3, <1>4, <1>5, <1>6, <1>7, <1>8, <1>9, <1>10, <1>11 DEF Next

\* A server opens its next socket, or finds nobody at the other end.
Refused(n) ==
  /\ servers'[n].opened = servers[n].opened
  /\ servers'[n].state = "gone"
  /\ UNCHANGED <<backlog, callers>>

Opened(n) ==
  /\ servers[n].opened < Len(servers[n].roles)
  /\ servers'[n].opened = servers[n].opened + 1
  /\ servers'[n].state # "asleep"
  /\ servers'[n].state = "starting" => servers'[n].opened < Len(servers[n].roles)
  /\ servers[n].dev \in tunnel /\ listening
  /\ servers[n].roles[servers[n].opened + 1] \in RoleSet
  /\ backlog' = Append(backlog, [server |-> n, role |-> servers[n].roles[servers[n].opened + 1]])
  /\ callers' = callers \cup {n}

\* What Connect changes of the servers.
LEMMA ConnectChanges ==
  ASSUME InductiveInv, NEW n \in Started, Connect(n)
  PROVE  /\ servers' \in Seq(Launched) /\ Len(servers') = Len(servers)
         /\ \A m \in Started : servers'[m].dev = servers[m].dev /\ servers'[m].roles = servers[m].roles
         /\ \A m \in Started \ {n} : servers'[m] = servers[m]
         /\ Refused(n) \/ Opened(n)
  <1> DEFINE s == servers[n]
             k == s.opened + 1
  <1>1. TypeOK /\ s.opened <= Len(s.roles) /\ Len(s.roles) <= 3
        /\ (s.state = "starting" => s.opened < Len(s.roles))
    BY DEF InductiveInv, ServersInOrder
  <1>2. \A m \in Started : servers[m] \in Launched
    BY <1>1, ServersTyped
  <1>3. s \in Launched /\ s.opened \in 0 .. 3 /\ s.roles \in Seq(RoleSet) /\ Len(s.roles) \in Nat
    BY <1>2 DEF Launched
  <1>4. servers \in Seq(Launched) /\ DOMAIN servers = 1 .. Len(servers)
    <2>1. servers \in Seq(Launched)
      BY <1>1 DEF TypeOK
    <2> QED BY <2>1
  <1>5. s.state = "starting" /\ s.opened < Len(s.roles) /\ k \in 1 .. 3
    <2>1. s.state = "starting"
      BY DEF Connect
    <2> QED BY <1>1, <1>3, <2>1
  <1>6. s.roles[k] \in RoleSet
    BY <1>3, <1>5
  <1>7. CASE s.dev \in tunnel /\ listening
    <2> DEFINE st == IF k < Len(s.roles) THEN "starting" ELSE IF s.cut THEN "gone" ELSE "open"
    <2>1. /\ servers' = [servers EXCEPT ![n].opened = k, ![n].state = st]
          /\ backlog' = Append(backlog, [server |-> n, role |-> s.roles[k]])
          /\ callers' = callers \cup {n}
      BY <1>7 DEF Connect
    <2>2. st \in {"starting", "open", "gone"} /\ (st = "starting" => k < Len(s.roles))
      OBVIOUS
    <2> HIDE DEF st
    <2>3. servers'[n] = [s EXCEPT !.opened = k, !.state = st] /\ \A m \in Started \ {n} : servers'[m] = servers[m]
      BY <1>4, <2>1 DEF Started
    <2>4. /\ servers'[n] \in Launched /\ servers'[n].dev = s.dev /\ servers'[n].roles = s.roles
          /\ servers'[n].opened = k /\ servers'[n].state = st
      <3>1. [s EXCEPT !.opened = k, !.state = st] \in Launched
        <4>1. \A r \in Launched, i \in 0 .. 3, x \in {"starting", "open", "gone"} :
                [r EXCEPT !.opened = i, !.state = x] \in Launched
          BY DEF Launched
        <4>2. k \in 0 .. 3
          BY <1>5
        <4> QED BY <1>3, <2>2, <4>1, <4>2
      <3> QED BY <1>3, <2>3, <3>1 DEF Launched
    <2>5. servers' \in [1 .. Len(servers) -> Launched]
      <3>1. DOMAIN servers' = 1 .. Len(servers) /\ servers' = [m \in 1 .. Len(servers) |-> servers'[m]]
        BY <1>4, <2>1
      <3> QED BY <1>2, <2>3, <2>4, <3>1 DEF Started
    <2>6. servers' \in Seq(Launched) /\ Len(servers') = Len(servers)
      BY <1>4, <2>5, Mapped
    <2>7. Opened(n)
      BY <1>5, <1>6, <1>7, <2>1, <2>2, <2>4 DEF Opened
    <2> QED BY <2>3, <2>4, <2>6, <2>7
  <1>8. CASE ~(s.dev \in tunnel /\ listening)
    <2>1. servers' = [servers EXCEPT ![n].state = "gone"] /\ UNCHANGED <<backlog, callers>>
      BY <1>8 DEF Connect
    <2>2. Undisturbed
      BY <1>1, <2>1, StateSet
    <2>3. servers'[n] = [s EXCEPT !.state = "gone"] /\ \A m \in Started \ {n} : servers'[m] = servers[m]
      BY <1>4, <2>1 DEF Started
    <2>4. Refused(n)
      <3>1. servers'[n].opened = s.opened /\ servers'[n].state = "gone"
        BY <1>3, <2>3 DEF Launched
      <3> QED BY <2>1, <3>1 DEF Refused
    <2> QED BY <2>2, <2>3, <2>4 DEF Undisturbed
  <1> QED BY <1>7, <1>8

\* The launch of a server.
NewServer ==
  /\ servers' \in Seq(Launched)
  /\ Len(servers') = Len(servers) + 1 /\ Len(servers') <= MaxStarts
  /\ \A n \in Started : servers'[n] = servers[n]
  /\ own' = Len(servers) + 1 /\ at' = "accept video"
  /\ servers'[own'].dev = dev /\ servers'[own'].roles = ServerRoles(options)
  /\ servers'[own'].opened = 0
  /\ UNCHANGED <<process, dev, options, held, accepted>>

\* What Configure changes: a server is launched, or the start fails.
LEMMA ConfigureChanges ==
  ASSUME InductiveInv, Configure
  PROVE  /\ NewServer \/ (Fail /\ UNCHANGED servers)
         /\ at = "config" /\ life = "up"
         /\ UNCHANGED <<port, drivers, tunnels>>
  <1>1. at = "config" /\ life = "up" /\ UNCHANGED <<port, drivers, tunnels>>
    BY DEF Configure
  <1>2. options \in Options /\ Len(servers) < MaxStarts
    BY <1>1 DEF InductiveInv, JobInOrder, BeforeLaunch, TypeOK
  <1>3. CASE Fail /\ UNCHANGED servers
    BY <1>1, <1>2, <1>3
  <1>4. CASE ~(Fail /\ UNCHANGED servers)
    <2> DEFINE s == [dev |-> dev, roles |-> ServerRoles(options), opened |-> 0, cut |-> FALSE,
                     state |-> "asleep"]
    <2>1. /\ servers' = Append(servers, s) /\ own' = Len(servers) + 1 /\ at' = "accept video"
          /\ UNCHANGED <<process, dev, options, held, accepted>>
      BY <1>4 DEF Configure
    <2>2. s \in Launched
      <3>1. ServerRoles(options) \in Seq(RoleSet) /\ dev \in Devices
        BY <1>2, RolesInOrder DEF InductiveInv, TypeOK
      <3> QED BY <3>1 DEF Launched
    <2>3. s.dev = dev /\ s.roles = ServerRoles(options) /\ s.opened = 0
      OBVIOUS
    <2>4. servers \in Seq(Launched) /\ MaxStarts \in Nat
      BY BoundsAssumption DEF InductiveInv, TypeOK
    <2> HIDE DEF s
    <2>5. /\ servers' \in Seq(Launched) /\ Len(servers') = Len(servers) + 1
          /\ servers'[Len(servers) + 1] = s /\ \A n \in Started : servers'[n] = servers[n]
          /\ Len(servers) \in Nat
      <3>1. Len(servers) \in Nat /\ Started = 1 .. Len(servers)
        BY <2>4 DEF Started
      <3>2. servers' = Append(servers, s)
        BY <2>1
      <3> QED BY <2>2, <2>4, <3>1, <3>2, Appended
    <2>6. Len(servers') <= MaxStarts
      BY <1>2, <2>4, <2>5
    <2>7. servers'[own'] = s
      BY <2>1, <2>5
    <2>8. /\ servers'[own'].dev = dev /\ servers'[own'].roles = ServerRoles(options)
          /\ servers'[own'].opened = 0
      BY <2>3, <2>7
    <2>9. NewServer
      BY <2>1, <2>5, <2>6, <2>8 DEF NewServer
    <2> QED BY <1>1, <1>2, <2>9
  <1> QED BY <1>3, <1>4

\* A launched server stays what it was launched for.
LEMMA ServersGrow ==
  ASSUME InductiveInv, [Next]_vars
  PROVE  /\ servers' \in Seq(Launched)
         /\ Len(servers') \in Nat /\ Len(servers) <= Len(servers') /\ Len(servers') <= MaxStarts
         /\ \A n \in Started : /\ n \in Started'
                               /\ servers'[n].dev = servers[n].dev
                               /\ servers'[n].roles = servers[n].roles
  <1>1. servers \in Seq(Launched) /\ Len(servers) \in Nat /\ Len(servers) <= MaxStarts
    <2>1. servers \in Seq(Launched) /\ Len(servers) <= MaxStarts
      BY DEF InductiveInv, TypeOK
    <2> QED BY <2>1
  <1>2. CASE Undisturbed
    BY <1>1, <1>2 DEF Undisturbed, Started
  <1>3. CASE Configure
    <2>1. CASE NewServer
      <3>1. /\ servers' \in Seq(Launched) /\ Len(servers') = Len(servers) + 1
            /\ Len(servers') <= MaxStarts /\ \A n \in Started : servers'[n] = servers[n]
        BY <2>1 DEF NewServer
      <3>2. \A n \in Started : n \in Started'
        BY <1>1, <3>1 DEF Started
      <3> QED BY <1>1, <3>1, <3>2
    <2>2. CASE UNCHANGED servers
      BY <1>1, <2>2 DEF Started
    <2> QED BY <1>3, <2>1, <2>2, ConfigureChanges
  <1>4. ASSUME NEW n \in Started, Connect(n)
        PROVE  /\ servers' \in Seq(Launched) /\ Len(servers') = Len(servers)
               /\ \A m \in Started : servers'[m].dev = servers[m].dev /\ servers'[m].roles = servers[m].roles
    BY <1>4, ConnectChanges
  <1>5. CASE \E n \in Started : Connect(n)
    BY <1>1, <1>4, <1>5 DEF Started
  <1> QED BY <1>2, <1>3, <1>5, MostUndisturbed

-----------------------------------------------------------------------------
(* Types, the job at hand and the servers                                  *)

\* A server opens its sockets in order and no more than it has to, in every step.
LEMMA ServersInOrderStep == InductiveInv /\ [Next]_vars => ServersInOrder'
  <1> SUFFICES ASSUME InductiveInv, [Next]_vars
               PROVE  ServersInOrder'
    OBVIOUS
  <1>1. ServersInOrder /\ Len(servers) \in Nat /\ \A n \in Started : servers[n] \in Launched
    BY ServersTyped DEF InductiveInv
  <1>2. CASE Undisturbed
    <2>1. Started' = Started
      BY <1>2 DEF Undisturbed, Started
    <2> QED BY <1>1, <1>2, <2>1 DEF Undisturbed, ServersInOrder
  <1>3. CASE Configure
    <2>1. CASE NewServer
      <3>1. Started' = Started \cup {own'} /\ own' \notin Started
        <4>1. Len(servers') = Len(servers) + 1 /\ own' = Len(servers) + 1
          BY <2>1 DEF NewServer
        <4>2. Started' = 1 .. Len(servers) + 1 /\ Started = 1 .. Len(servers)
          BY <4>1 DEF Started
        <4>3. \A n : n \in 1 .. Len(servers) + 1 <=> n \in 1 .. Len(servers) \/ n = Len(servers) + 1
          BY <1>1
        <4>4. Len(servers) + 1 \notin 1 .. Len(servers)
          BY <1>1
        <4> QED BY <4>1, <4>2, <4>3, <4>4
      <3>2. servers'[own'].opened = 0 /\ Len(servers'[own'].roles) \in 1 .. 3
        <4>1. options \in Options
          BY DEF InductiveInv, TypeOK
        <4>3. Len(ServerRoles(options)) \in 1 .. 3
          BY <4>1, RolesInOrder
        <4> QED BY <2>1, <4>3 DEF NewServer
      <3>3. \A n \in Started : servers'[n] = servers[n]
        BY <2>1 DEF NewServer
      <3>4. /\ servers'[own'].opened <= Len(servers'[own'].roles) /\ Len(servers'[own'].roles) <= 3
            /\ servers'[own'].opened < Len(servers'[own'].roles)
        <4>1. \A l \in 1 .. 3 : 0 <= l /\ l <= 3 /\ 0 < l
          OBVIOUS
        <4> QED BY <3>2, <4>1
      <3>5. ASSUME NEW n \in Started'
            PROVE  /\ servers'[n].opened <= Len(servers'[n].roles) /\ Len(servers'[n].roles) <= 3
                   /\ servers'[n].state \in {"asleep", "starting"} =>
                        servers'[n].opened < Len(servers'[n].roles)
        <4>1. CASE n = own'
          BY <3>4, <4>1
        <4>2. CASE n \in Started
          BY <1>1, <3>3, <4>2 DEF ServersInOrder
        <4> QED BY <3>1, <4>1, <4>2
      <3> QED BY <3>5 DEF ServersInOrder
    <2>2. CASE UNCHANGED servers
      BY <1>1, <2>2 DEF ServersInOrder, Started
    <2> QED BY <1>3, <2>1, <2>2, ConfigureChanges
  <1>4. ASSUME NEW n \in Started, Connect(n)
        PROVE  ServersInOrder'
    <2>1. /\ Len(servers') = Len(servers) /\ servers'[n].roles = servers[n].roles
          /\ \A m \in Started \ {n} : servers'[m] = servers[m]
          /\ Refused(n) \/ Opened(n)
      BY <1>4, ConnectChanges
    <2>2. Started' = Started
      BY <2>1 DEF Started
    <2>3. servers[n].opened \in 0 .. 3 /\ Len(servers[n].roles) \in Nat
      BY <1>1 DEF Launched
    <2>4. /\ servers'[n].opened <= Len(servers'[n].roles)
          /\ servers'[n].state \in {"asleep", "starting"} => servers'[n].opened < Len(servers'[n].roles)
      BY <1>1, <2>1, <2>3 DEF Refused, Opened, ServersInOrder
    <2> QED BY <1>1, <2>1, <2>2, <2>4 DEF ServersInOrder
  <1> QED BY <1>2, <1>3, <1>4, MostUndisturbed

\* What the actions of New, Stop and the process leave alone of the servers.
LEMMA TypeStep == InductiveInv /\ [Next]_vars => TypeOK'
  <1> SUFFICES ASSUME InductiveInv, [Next]_vars
               PROVE  TypeOK'
    OBVIOUS
  <1>1. TypeOK /\ JobInOrder
    BY DEF InductiveInv
  <1>2. /\ servers' \in Seq(Launched) /\ Len(servers') \in Nat
        /\ Len(servers) \in Nat /\ Len(servers) <= Len(servers') /\ Len(servers') <= MaxStarts
        /\ Started \subseteq Started' /\ MaxStarts \in Nat /\ MaxRestarts \in Nat
    <2>1. Started \subseteq Started'
      BY ServersGrow
    <2> QED BY <1>1, <2>1, ServersGrow, ServersTyped, BoundsAssumption
  <1>3. Nothing \in [RoleSet -> Conn \cup {NoConn}] /\ NoOptions \in Options
    BY DEF Nothing, NoOptions, Options
  <1>4. own' \in 0 .. Len(servers) => own' \in 0 .. Len(servers')
    BY <1>2
  <1>5. /\ restarts \in 0 .. MaxRestarts /\ own \in 0 .. Len(servers) /\ 0 \in 0 .. Len(servers)
        /\ callers \subseteq Started' /\ {} \subseteq Started' /\ <<>> \in Seq(Conn)
    <2>1. restarts \in 0 .. MaxRestarts /\ own \in 0 .. Len(servers) /\ callers \subseteq Started'
      BY <1>1, <1>2 DEF TypeOK
    <2>2. 0 \in 0 .. Len(servers) /\ <<>> \in Seq(Conn)
      BY <1>2
    <2> QED BY <2>1, <2>2
  <1> USE DEF TypeOK, process, job, port, tunnels, external, Idle, Places, Reading
  <1>6. CASE EndProcess /\ tidy' \in BOOLEAN
    BY <1>1, <1>2, <1>3, <1>4, <1>5, <1>6 DEF EndProcess, RoleSet
  <1>7. CASE \E d \in Devices : BeginStart(d)
    BY <1>1, <1>2, <1>4, <1>5, <1>7 DEF BeginStart, RoleSet
  <1>8. CASE SetUpTunnel
    BY <1>1, <1>2, <1>4, <1>5, <1>8 DEF SetUpTunnel, WithTunnel, Fail, Abandon
  <1>9. CASE SupportOpusAudio
    <2>1. options' \in Options
      BY <1>1, <1>9 DEF SupportOpusAudio, Options
    <2> QED BY <1>1, <1>2, <1>4, <1>5, <1>9, <2>1 DEF SupportOpusAudio
  <1>10. CASE PushScrcpyServer
    BY <1>1, <1>2, <1>4, <1>5, <1>10 DEF PushScrcpyServer, Fail, Abandon
  <1>11. CASE Listen
    BY <1>1, <1>2, <1>4, <1>5, <1>11 DEF Listen, Fail, Abandon
  <1>12. CASE Configure
    <2>1. /\ NewServer \/ (Fail /\ UNCHANGED servers)
          /\ UNCHANGED <<port, drivers, tunnels>>
      BY <1>12, ConfigureChanges
    <2>2. CASE NewServer
      <3>1. own' \in 0 .. Len(servers')
        <4>1. own' = Len(servers')
          BY <2>2 DEF NewServer
        <4> QED BY <1>2, <4>1
      <3> QED BY <1>1, <1>2, <1>5, <2>1, <2>2, <3>1 DEF NewServer
    <2>3. CASE Fail
      BY <1>1, <1>2, <1>4, <1>5, <2>1, <2>3 DEF Fail, Abandon
    <2> QED BY <2>1, <2>2, <2>3
  <1>13. CASE Accept
    <2>1. backlog # <<>> /\ backlog \in Seq(Conn)
      BY <1>1, <1>13 DEF Accept
    <2>2. Head(backlog) \in Conn /\ Tail(backlog) \in Seq(Conn)
      BY <2>1, HeadAndTail
    <2> QED BY <1>1, <1>2, <1>4, <1>5, <1>13, <2>2 DEF Accept
  <1>14. CASE AcceptTimeout
    BY <1>1, <1>2, <1>4, <1>5, <1>14 DEF AcceptTimeout, ReverseRemove, Abandon
  <1>15. CASE ReadDeviceMeta
    BY <1>1, <1>2, <1>4, <1>5, <1>15 DEF ReadDeviceMeta, Fail, Abandon
  <1>16. CASE AssignConn
    BY <1>1, <1>2, <1>4, <1>5, <1>6, <1>16 DEF AssignConn, AfterVideo, AfterAudio
  <1>17. CASE Finish
    <2> DEFINE r == [dev |-> dev, options |-> options, held |-> held, own |-> own,
                     callers |-> callers, left |-> backlog # <<>>, tidy |-> tidy,
                     others |-> {q.dev : q \in drivers} \cup stuck]
    <2>1. own \in 1 .. MaxStarts /\ callers \subseteq 1 .. MaxStarts
      BY <1>1, <1>2, <1>17 DEF JobInOrder, Finish, Accepting, Started
    <2>2. {q.dev : q \in drivers} \cup stuck \subseteq Devices
      BY <1>1 DEF Driver
    <2>3. r \in Driver
      BY <1>1, <2>1, <2>2 DEF Driver
    <2> HIDE DEF r
    <2>4. drivers' = drivers \cup {r}
      BY <1>17 DEF Finish, r
    <2> QED BY <1>1, <1>2, <1>3, <1>4, <1>5, <1>17, <2>3, <2>4 DEF Finish, ListenerClosed
  <1>18. ASSUME NEW r \in drivers, BeginStop(r)
         PROVE  TypeOK'
    <2>1. r.dev \in Devices /\ r.own \in Started /\ r.held \in [RoleSet -> Conn \cup {NoConn}]
      BY <1>1 DEF InductiveInv, DriversKnown, Driver
    <2>2. r.own \in 0 .. Len(servers)
      BY <1>2, <2>1 DEF Started
    <2> QED BY <1>1, <1>2, <1>4, <1>5, <1>18, <2>1, <2>2 DEF BeginStop
  <1>19. CASE CloseConns
    BY <1>1, <1>2, <1>3, <1>4, <1>5, <1>19 DEF CloseConns
  <1>20. CASE StopADB
    BY <1>1, <1>2, <1>3, <1>4, <1>5, <1>20 DEF StopADB, ReverseRemove
  <1>21. ASSUME NEW n \in Started, Launch(n) \/ Speak(n) \/ ServerEnds(n)
         PROVE  TypeOK'
    BY <1>1, <1>2, <1>4, <1>5, <1>21 DEF Launch, Speak, ServerEnds
  <1>22. ASSUME NEW n \in Started, Connect(n)
         PROVE  TypeOK'
    <2>1. backlog' \in Seq(Conn) /\ callers' \subseteq Started
      <3>1. CASE Refused(n)
        BY <1>1, <3>1 DEF Refused
      <3>2. CASE Opened(n)
        <4>1. [server |-> n, role |-> servers[n].roles[servers[n].opened + 1]] \in Conn
          BY <1>2, <3>2 DEF Opened, Conn, Started
        <4> QED BY <1>1, <3>2, <4>1, Appended DEF Opened
      <3> QED BY <1>22, <3>1, <3>2, ConnectChanges
    <2> QED BY <1>1, <1>2, <1>4, <1>5, <1>22, <2>1 DEF Connect
  <1>23. CASE Panic \/ Kill
    <2>1. EndProcess /\ tidy' \in BOOLEAN
      BY <1>1, <1>23 DEF Panic, Kill
    <2> QED BY <1>6, <1>23, <2>1 DEF Panic, Kill
  <1>24. CASE Restart
    <2>1. restarts' \in 0 .. MaxRestarts
      BY <1>2, <1>5, <1>24 DEF Restart
    <2> QED BY <1>1, <1>2, <1>4, <1>5, <1>24, <2>1 DEF Restart
  <1>25. CASE UNCHANGED vars
    BY <1>1, <1>2, <1>4, <1>5, <1>25 DEF vars
  <1> QED BY <1>7, <1>8, <1>9, <1>10, <1>11, <1>12, <1>13, <1>14, <1>15, <1>16, <1>17, <1>18, <1>19,
             <1>20, <1>21, <1>22, <1>23, <1>24, <1>25 DEF Next

\* Only Configure changes how many servers there are.
LEMMA SameServers ==
  ASSUME InductiveInv, [Next]_vars, ~Configure
  PROVE  Len(servers') = Len(servers) /\ Started' = Started
  <1>1. Len(servers') = Len(servers)
    BY MostUndisturbed, ConnectChanges DEF Undisturbed
  <1> QED BY <1>1 DEF Started

\* The start in progress stays in order, in every step.
LEMMA JobStep == InductiveInv /\ [Next]_vars => JobInOrder'
  <1> SUFFICES ASSUME InductiveInv, [Next]_vars
               PROVE  JobInOrder'
    OBVIOUS
  <1>1. TypeOK /\ JobInOrder
    BY DEF InductiveInv
  <1>2. /\ \A n \in Started : n \in Started' /\ servers'[n].roles = servers[n].roles
        /\ ~Configure => Len(servers') = Len(servers)
    BY ServersGrow, SameServers
  <1> USE DEF JobInOrder, BeforeLaunch, Accepting, Reading, process, job, port, tunnels, external, Idle
  <1>3. ASSUME EndProcess
        PROVE  JobInOrder'
    BY <1>3 DEF EndProcess
  <1>4. CASE \E d \in Devices : BeginStart(d)
    BY <1>1, <1>2, <1>4 DEF BeginStart, vars
  <1>5. CASE SetUpTunnel
    BY <1>1, <1>2, <1>5 DEF SetUpTunnel, Fail, Abandon
  <1>6. CASE SupportOpusAudio
    BY <1>1, <1>2, <1>6 DEF SupportOpusAudio
  <1>7. CASE PushScrcpyServer
    BY <1>1, <1>2, <1>7 DEF PushScrcpyServer, Fail, Abandon
  <1>8. CASE Listen
    BY <1>1, <1>2, <1>8 DEF Listen, Fail, Abandon
  <1>9. CASE Configure
    <2>1. CASE NewServer
      <3>1. own' \in Started' /\ servers'[own'].roles = ServerRoles(options')
        <4>1. own' = Len(servers') /\ Len(servers') = Len(servers) + 1
          BY <2>1 DEF NewServer
        <4>2. own' \in Started'
          <5>1. Len(servers) \in Nat
            BY <1>1, ServersTyped
          <5> QED BY <4>1, <5>1 DEF Started
        <4> QED BY <2>1, <4>2 DEF NewServer
      <3>2. /\ at' = "accept video" /\ life' = "up"
            /\ UNCHANGED <<listening, callers, backlog>>
        BY <1>9, <2>1, ConfigureChanges DEF NewServer
      <3> QED BY <1>1, <3>1, <3>2
    <2>2. CASE Fail
      BY <1>1, <1>9, <2>2, ConfigureChanges DEF Fail, Abandon
    <2> QED BY <1>9, <2>1, <2>2, ConfigureChanges
  <1>10. CASE Accept
    BY <1>1, <1>2, <1>10 DEF Accept
  <1>11. CASE AcceptTimeout
    BY <1>1, <1>2, <1>11 DEF AcceptTimeout, Abandon
  <1>12. CASE ReadDeviceMeta
    BY <1>1, <1>2, <1>12 DEF ReadDeviceMeta, Fail, Abandon
  <1>13. CASE AssignConn
    <2>1. CASE EndProcess
      BY <1>3, <2>1
    <2>2. CASE ~EndProcess
      <3>1. /\ life = "up" /\ at \in {"video codec", "audio codec"} /\ at' \in {AfterVideo, AfterAudio}
            /\ UNCHANGED <<process, dev, options, own, port, drivers, servers, tunnels>>
        BY <1>13, <2>2 DEF AssignConn
      <3>2. at' \in {"accept audio", "accept control", "done"}
        BY <3>1 DEF AfterVideo, AfterAudio
      <3> QED BY <1>1, <1>2, <3>1, <3>2
    <2> QED BY <2>1, <2>2
  <1>14. CASE Finish
    BY <1>1, <1>14 DEF Finish, ListenerClosed
  <1>15. ASSUME NEW r \in drivers, BeginStop(r)
         PROVE  JobInOrder'
    <2>1. r.own \in Started
      BY DEF InductiveInv, DriversKnown
    <2> QED BY <1>1, <1>2, <1>15, <2>1 DEF BeginStop
  <1>16. CASE CloseConns
    BY <1>1, <1>2, <1>16 DEF CloseConns
  <1>17. CASE StopADB
    BY <1>1, <1>2, <1>17 DEF StopADB
  <1>18. ASSUME NEW n \in Started, Launch(n) \/ Speak(n) \/ ServerEnds(n)
         PROVE  JobInOrder'
    <2>1. ~Configure
      BY <1>18 DEF Launch, Speak, ServerEnds, Configure, Fail, Abandon
    <2>2. UNCHANGED <<process, job, port>>
      BY <1>18 DEF Launch, Speak, ServerEnds
    <2> QED BY <1>1, <1>2, <2>1, <2>2
  <1>19. ASSUME NEW n \in Started, Connect(n)
         PROVE  JobInOrder'
    <2>1. Len(servers') = Len(servers) /\ (Refused(n) \/ Opened(n))
      BY <1>19, ConnectChanges
    <2> QED BY <1>1, <1>2, <1>19, <2>1 DEF Connect, Refused, Opened
  <1>20. CASE Panic \/ Kill
    BY <1>3, <1>20 DEF Panic, Kill
  <1>21. CASE Restart
    BY <1>1, <1>2, <1>21 DEF Restart
  <1>22. CASE UNCHANGED vars
    BY <1>1, <1>2, <1>22 DEF vars
  <1> QED BY <1>4, <1>5, <1>6, <1>7, <1>8, <1>9, <1>10, <1>11, <1>12, <1>13, <1>14, <1>15, <1>16, <1>17,
             <1>18, <1>19, <1>20, <1>21, <1>22 DEF Next

\* Which drivers run, and which tunnels there are.
LEMMA TunnelsStep == InductiveInv /\ [Next]_vars => TunnelsKept'
  <1> SUFFICES ASSUME InductiveInv, [Next]_vars
               PROVE  TunnelsKept'
    OBVIOUS
  <1>1. TunnelsKept /\ restarts \in Nat
    <2>1. TunnelsKept /\ restarts \in 0 .. MaxRestarts
      BY DEF InductiveInv, TypeOK
    <2> QED BY <2>1, BoundsAssumption
  <1>2. life # "up" => at = "idle"
    BY DEF InductiveInv, JobInOrder
  <1> USE DEF TunnelsKept, Served, process, job, port, tunnels, external, Idle
  <1>3. CASE \E d \in Devices : BeginStart(d)
    BY <1>1, <1>3 DEF BeginStart
  <1>4. CASE SetUpTunnel
    BY <1>1, <1>4 DEF SetUpTunnel, WithTunnel, Fail, Abandon
  <1>5. CASE SupportOpusAudio
    BY <1>1, <1>5 DEF SupportOpusAudio
  <1>6. CASE PushScrcpyServer
    BY <1>1, <1>6 DEF PushScrcpyServer, Fail, Abandon
  <1>7. CASE Listen
    BY <1>1, <1>7 DEF Listen, Fail, Abandon
  <1>8. CASE Configure
    <2>1. at = "config" /\ life = "up" /\ UNCHANGED <<drivers, tunnels>>
      BY <1>8, ConfigureChanges
    <2>2. CASE NewServer
      BY <1>1, <2>1, <2>2 DEF NewServer
    <2>3. CASE Fail
      BY <1>1, <2>1, <2>3 DEF Fail, Abandon
    <2> QED BY <1>8, <2>2, <2>3, ConfigureChanges
  <1>9. CASE Accept
    BY <1>1, <1>9 DEF Accept
  <1>10. CASE AcceptTimeout
    BY <1>1, <1>10 DEF AcceptTimeout, ReverseRemove, Abandon
  <1>11. CASE ReadDeviceMeta
    <2>1. at = "meta" /\ UNCHANGED <<drivers, tunnels>>
      BY <1>11 DEF ReadDeviceMeta
    <2>2. CASE Fail
      BY <1>1, <2>1, <2>2 DEF Fail, Abandon
    <2>3. CASE ~Fail
      <3>1. at' = "video codec" /\ UNCHANGED <<process, dev>>
        BY <1>11, <2>3 DEF ReadDeviceMeta
      <3> QED BY <1>1, <2>1, <3>1
    <2> QED BY <2>2, <2>3
  <1>12. CASE AssignConn
    <2>1. CASE EndProcess /\ tidy' = FALSE
      BY <1>1, <2>1 DEF EndProcess
    <2>2. CASE ~(EndProcess /\ tidy' = FALSE)
      <3>1. /\ at \in {"video codec", "audio codec"} /\ at' \in {AfterVideo, AfterAudio}
            /\ UNCHANGED <<process, dev, drivers, tunnels>>
        BY <1>12, <2>2 DEF AssignConn
      <3>2. at' \in {"accept audio", "accept control", "done"}
        BY <3>1 DEF AfterVideo, AfterAudio
      <3> QED BY <1>1, <3>1, <3>2
    <2> QED BY <2>1, <2>2
  <1>13. CASE Finish
    <2> DEFINE r == [dev |-> dev, options |-> options, held |-> held, own |-> own,
                     callers |-> callers, left |-> backlog # <<>>, tidy |-> tidy,
                     others |-> {q.dev : q \in drivers} \cup stuck]
    <2>1. r.dev = dev /\ drivers' = drivers \cup {r}
      BY <1>13 DEF Finish
    <2> HIDE DEF r
    <2>2. at = "done" /\ life = "up" /\ at' = "idle" /\ UNCHANGED <<process, tunnels>>
      BY <1>13 DEF Finish
    <2> QED BY <1>1, <2>1, <2>2
  <1>14. ASSUME NEW r \in drivers, BeginStop(r)
         PROVE  TunnelsKept'
    BY <1>1, <1>14 DEF BeginStop
  <1>15. CASE CloseConns
    BY <1>1, <1>15 DEF CloseConns
  <1>16. CASE StopADB
    BY <1>1, <1>16 DEF StopADB, ReverseRemove
  <1>17. ASSUME NEW n \in Started, Launch(n) \/ Speak(n) \/ ServerEnds(n) \/ Connect(n)
         PROVE  TunnelsKept'
    <2>1. UNCHANGED <<process, job, drivers, tunnels>>
      BY <1>17 DEF Launch, Speak, ServerEnds, Connect
    <2> QED BY <1>1, <2>1
  <1>18. CASE Panic
    BY <1>1, <1>18 DEF Panic, EndProcess
  <1>19. CASE Kill
    BY <1>1, <1>19 DEF Kill, EndProcess
  <1>20. CASE Restart
    BY <1>1, <1>2, <1>20 DEF Restart
  <1>21. CASE UNCHANGED vars
    BY <1>1, <1>21 DEF vars
  <1> QED BY <1>3, <1>4, <1>5, <1>6, <1>7, <1>8, <1>9, <1>10, <1>11, <1>12, <1>13, <1>14, <1>15, <1>16,
             <1>17, <1>18, <1>19, <1>20, <1>21 DEF Next

\* Where connections come from.
LEMMA CallersStep == InductiveInv /\ [Next]_vars => CallersKnown'
  <1> SUFFICES ASSUME InductiveInv, [Next]_vars
               PROVE  CallersKnown'
    OBVIOUS
  <1>1. CallersKnown /\ JobInOrder /\ TunnelsKept /\ backlog \in Seq(Conn) /\ callers \subseteq Started
        /\ held \in [RoleSet -> Conn \cup {NoConn}]
    BY DEF InductiveInv, TypeOK
  <1>2. \A n \in Started : servers'[n].dev = servers[n].dev
    BY ServersGrow
  <1> USE DEF CallersKnown, process, job, port, tunnels, external, Idle, Accepting, Reading
  <1>3. ASSUME UNCHANGED <<backlog, callers, tidy, drivers, stuck>>,
               at' \notin Accepting \cup {"config"} \/ UNCHANGED <<at, dev, accepted, held>>
        PROVE  CallersKnown'
    BY <1>1, <1>2, <1>3 DEF AtHand, ToSet, Served
  <1>4. ASSUME backlog' = <<>>, at' \notin Accepting \cup {"config"}
        PROVE  CallersKnown'
    <2>1. Len(<<>>) = 0 /\ 1 .. 0 = {}
      OBVIOUS
    <2> QED BY <1>4, <2>1
  <1>5. CASE \E d \in Devices : BeginStart(d)
    BY <1>3, <1>5 DEF BeginStart
  <1>6. CASE SetUpTunnel
    BY <1>3, <1>4, <1>6, <1>1 DEF SetUpTunnel, Fail, Abandon, JobInOrder
  <1>7. CASE SupportOpusAudio
    BY <1>3, <1>7 DEF SupportOpusAudio
  <1>8. CASE PushScrcpyServer
    BY <1>1, <1>8 DEF PushScrcpyServer, Fail, Abandon
  <1>9. CASE Listen
    BY <1>1, <1>9 DEF Listen, Fail, Abandon, JobInOrder
  <1>10. CASE Configure
    <2>1. CASE NewServer
      <3>1. /\ held' = Nothing /\ accepted' = NoConn
            /\ UNCHANGED <<backlog, callers, tidy, dev, drivers, stuck>> /\ at = "config"
        BY <1>1, <1>10, <2>1, ConfigureChanges DEF NewServer, JobInOrder, BeforeLaunch
      <3>2. \A role \in RoleSet : held'[role] = NoConn
        BY <3>1 DEF Nothing
      <3> QED BY <1>1, <1>2, <3>1, <3>2 DEF AtHand, Served
    <2>2. CASE Fail
      BY <1>1, <1>10, <2>2, ConfigureChanges DEF Fail, Abandon
    <2> QED BY <1>10, <2>1, <2>2, ConfigureChanges
  <1>11. CASE Accept
    <2>1. backlog # <<>> /\ backlog' = Tail(backlog) /\ at \in Accepting
          /\ UNCHANGED <<callers, tidy, dev, drivers, stuck>>
      BY <1>11 DEF Accept
    <2>2. /\ Head(backlog) = backlog[1] /\ Len(backlog) \in Nat /\ Len(backlog) >= 1
          /\ Len(backlog') = Len(backlog) - 1
          /\ \A i \in 1 .. Len(backlog) - 1 : backlog'[i] = backlog[i + 1]
      BY <1>1, <2>1, HeadAndTail
    <2>3. \A i \in 1 .. Len(backlog') : backlog'[i].server \in callers'
      <3>1. \A i \in 1 .. Len(backlog) - 1 : i + 1 \in 1 .. Len(backlog)
        BY <2>2
      <3>2. callers' = callers
        BY <2>1
      <3> QED BY <1>1, <2>2, <3>1, <3>2
    <2>4. Head(backlog).server \in callers
      <3>1. 1 \in 1 .. Len(backlog)
        BY <2>2
      <3> QED BY <1>1, <2>2, <3>1
    <2>5. \A c \in AtHand' : c = Head(backlog) \/ c \in AtHand
      BY <1>1, <1>11 DEF Accept, AtHand, RoleSet
    <2> QED BY <1>1, <1>2, <2>1, <2>3, <2>4, <2>5 DEF Served
  <1>12. CASE AcceptTimeout
    BY <1>4, <1>12 DEF AcceptTimeout, Abandon
  <1>13. CASE ReadDeviceMeta
    <2>1. /\ UNCHANGED <<backlog, callers, dev, drivers, stuck, accepted, held>> /\ at = "meta"
          /\ (at' = "video codec" /\ UNCHANGED tidy) \/ at' = "idle"
      BY <1>13 DEF ReadDeviceMeta, Fail, Abandon
    <2>2. CASE at' = "video codec"
      <3>1. /\ UNCHANGED <<backlog, callers, dev, drivers, stuck, tidy>> /\ at \in Accepting /\ AtHand' = AtHand
            /\ Served' = Served
        BY <2>1, <2>2 DEF AtHand, Served
      <3> QED BY <1>1, <1>2, <3>1
    <2>3. CASE at' = "idle"
      BY <1>1, <2>1, <2>3
    <2> QED BY <2>1, <2>2, <2>3
  <1>14. CASE AssignConn
    <2>1. CASE EndProcess
      BY <1>4, <2>1 DEF EndProcess
    <2>2. CASE ~EndProcess
      <3>1. /\ at \in Accepting /\ UNCHANGED <<tidy, dev, backlog, callers, drivers, stuck>>
            /\ accepted' = NoConn
            /\ held' = held \/ held' = [held EXCEPT ![accepted.role] = accepted]
        BY <1>14, <2>2 DEF AssignConn
      <3>2. \A c \in AtHand' : c = NoConn \/ c \in AtHand
        BY <1>1, <3>1 DEF AtHand
      <3> QED BY <1>1, <1>2, <3>1, <3>2 DEF Served
    <2> QED BY <2>1, <2>2
  <1>15. CASE Finish
    BY <1>4, <1>15 DEF Finish
  <1>16. ASSUME NEW r \in drivers, BeginStop(r)
         PROVE  CallersKnown'
    BY <1>1, <1>16 DEF BeginStop
  <1>17. CASE CloseConns
    BY <1>1, <1>17 DEF CloseConns
  <1>18. CASE StopADB
    BY <1>1, <1>18 DEF StopADB
  <1>19. ASSUME NEW n \in Started, Launch(n) \/ Speak(n) \/ ServerEnds(n)
         PROVE  CallersKnown'
    <2>1. UNCHANGED <<process, job, port, drivers, stuck>>
      BY <1>19 DEF Launch, Speak, ServerEnds
    <2> QED BY <1>3, <2>1
  <1>20. ASSUME NEW n \in Started, Connect(n)
         PROVE  CallersKnown'
    <2>1. UNCHANGED <<process, job, drivers, stuck>> /\ (Refused(n) \/ Opened(n))
      BY <1>20, ConnectChanges DEF Connect
    <2>2. CASE Refused(n)
      BY <1>3, <2>1, <2>2 DEF Refused
    <2>3. CASE Opened(n)
      <3> DEFINE c == [server |-> n, role |-> servers[n].roles[servers[n].opened + 1]]
      <3>1. /\ listening /\ servers[n].dev \in tunnel /\ callers' = callers \cup {n}
            /\ backlog' = Append(backlog, c) /\ c \in Conn /\ c.server = n
        <4>1. n \in 1 .. MaxStarts
          <5>1. Len(servers) \in Nat /\ Len(servers) <= MaxStarts /\ MaxStarts \in Nat
            BY BoundsAssumption, ServersTyped DEF InductiveInv, TypeOK
          <5> QED BY <5>1 DEF Started
        <4> QED BY <2>3, <4>1 DEF Opened, Conn
      <3> HIDE DEF c
      <3>2. \A i \in 1 .. Len(backlog') : backlog'[i].server \in callers'
        <4>1. /\ Len(backlog) \in Nat /\ Len(backlog') = Len(backlog) + 1
              /\ backlog'[Len(backlog) + 1] = c /\ \A i \in 1 .. Len(backlog) : backlog'[i] = backlog[i]
          <5>1. backlog \in Seq(Conn) /\ c \in Conn /\ backlog' = Append(backlog, c)
            BY <1>1, <3>1
          <5> HIDE DEF CallersKnown
          <5> QED BY ONLY <5>1, Appended
        <4>2. \A i \in 1 .. Len(backlog') : i \in 1 .. Len(backlog) \/ i = Len(backlog) + 1
          BY <4>1
        <4> QED BY <1>1, <3>1, <4>1, <4>2
      <3>3. tidy /\ at \in Accepting \cup {"config"} => servers[n].dev \in {dev} \cup Served \cup stuck
        BY <1>1, <3>1 DEF TunnelsKept, JobInOrder
      <3>4. at' \in Accepting => \A d \in AtHand' \ {NoConn} : d.server \in callers'
        BY <1>1, <2>1, <3>1 DEF AtHand
      <3>5. tidy' /\ at' \in Accepting \cup {"config"} =>
              \A m \in callers' : servers'[m].dev \in {dev'} \cup Served' \cup stuck'
        BY <1>1, <1>2, <2>1, <3>1, <3>3 DEF Served
      <3> QED BY <3>2, <3>4, <3>5
    <2> QED BY <2>1, <2>2, <2>3
  <1>21. CASE Panic \/ Kill
    BY <1>4, <1>21 DEF Panic, Kill, EndProcess
  <1>22. CASE Restart
    BY <1>1, <1>22 DEF Restart, JobInOrder
  <1>23. CASE UNCHANGED vars
    BY <1>3, <1>23 DEF vars
  <1> QED BY <1>5, <1>6, <1>7, <1>8, <1>9, <1>10, <1>11, <1>12, <1>13, <1>14, <1>15, <1>16, <1>17,
             <1>18, <1>19, <1>20, <1>21, <1>22, <1>23 DEF Next

-----------------------------------------------------------------------------
(* The order of the connections                                            *)

\* Outside the three accepts there is nothing to keep in order.
LEMMA OutsideAccepts ==
  ASSUME InductiveInv,
         \/ EndProcess \/ Restart \/ Finish \/ AcceptTimeout \/ CloseConns \/ StopADB \/ Panic \/ Kill
         \/ \E d \in Devices : BeginStart(d)
         \/ \E r \in drivers : BeginStop(r)
         \/ SetUpTunnel \/ SupportOpusAudio \/ PushScrcpyServer \/ Listen \/ Fail
  PROVE  at' \notin Accepting
  <1>1. life # "up" => at = "idle"
    BY DEF InductiveInv, JobInOrder
  <1> USE DEF Accepting, Reading, Idle, job
  <1>2. CASE \/ EndProcess \/ Restart \/ Finish \/ AcceptTimeout \/ CloseConns \/ StopADB \/ Panic \/ Kill
             \/ Fail
    BY <1>1, <1>2 DEF EndProcess, Restart, Finish, AcceptTimeout, CloseConns, StopADB, Panic, Kill,
                      Abandon, Fail
  <1>3. CASE \/ \E d \in Devices : BeginStart(d)
             \/ \E r \in drivers : BeginStop(r)
             \/ SetUpTunnel \/ SupportOpusAudio \/ PushScrcpyServer \/ Listen
    BY <1>3 DEF BeginStart, BeginStop, SetUpTunnel, SupportOpusAudio, PushScrcpyServer, Listen,
                Abandon, Fail
  <1> QED BY <1>2, <1>3

\* The facts about the start in progress that its accepts rest on.
LEMMA StartFacts ==
  ASSUME InductiveInv, at \in Accepting
  PROVE  /\ own \in Started /\ servers[own] \in Launched /\ servers[own].opened \in Nat
         /\ Len(servers[own].roles) \in Nat
         /\ options["audio"] # "unset" /\ options["control"] # "unset" =>
              Len(servers[own].roles) = (IF options["audio"] = "true" THEN 2 ELSE 1)
                                         + (IF options["control"] = "true" THEN 1 ELSE 0)
         /\ options["audio"] \in {"true", "false", "unset"}
         /\ options["control"] \in {"true", "false", "unset"}
         /\ servers[own].roles[1] = "video"
         /\ options["audio"] = "true" => servers[own].roles[2] = "audio"
         /\ options["control"] = "true" /\ ~Misled(options) =>
              servers[own].roles[IF options["audio"] = "true" THEN 3 ELSE 2] = "control"
         /\ servers[own].opened <= Len(servers[own].roles)
         /\ backlog \in Seq(Conn) /\ Len(backlog) \in Nat
  <1>1. own \in Started /\ servers[own].roles = ServerRoles(options)
    BY DEF InductiveInv, JobInOrder
  <1>2. options \in Options /\ backlog \in Seq(Conn)
    BY DEF InductiveInv, TypeOK
  <1>3. servers[own] \in Launched
    BY <1>1, ServersTyped DEF InductiveInv
  <1>4. servers[own].opened \in Nat /\ servers[own].opened <= Len(servers[own].roles)
    BY <1>1, <1>3 DEF InductiveInv, ServersInOrder, Launched
  <1>5. Len(backlog) \in Nat
    BY <1>2
  <1>6. /\ options["audio"] \in {"true", "false", "unset"}
        /\ options["control"] \in {"true", "false", "unset"}
    BY <1>2 DEF Options
  <1> QED BY <1>1, <1>2, <1>3, <1>4, <1>5, <1>6, RolesInOrder

\* With no other caller, connections are taken in order, in every step.
LEMMA TakenStep == InductiveInv /\ [Next]_vars => TakenInOrder'
  <1> SUFFICES ASSUME InductiveInv, [Next]_vars, at' \in Accepting, callers' \subseteq {own'}
               PROVE  TakenInOrder'
    BY DEF TakenInOrder
  <1>1. TakenInOrder /\ JobInOrder
    BY DEF InductiveInv
  <1> DEFINE s == servers[own]
  <1>2. CASE Configure
    <2>1. NewServer /\ at = "config"
      BY <1>2, ConfigureChanges, OutsideAccepts
    <2>2. callers = {} /\ Len(backlog) = 0
      <3>1. callers \subseteq {Len(servers) + 1} /\ callers \subseteq Started /\ backlog \in Seq(Conn)
        BY <1>2, <2>1, ConfigureChanges DEF NewServer, InductiveInv, TypeOK, port
      <3>2. Len(servers) + 1 \notin Started /\ Len(backlog) \in Nat
        <4>1. Len(servers) \in Nat
          BY ServersTyped DEF InductiveInv
        <4> QED BY <3>1, <4>1 DEF Started
      <3>3. callers = {}
        BY <3>1, <3>2
      <3>4. ~(1 \in 1 .. Len(backlog))
        BY <3>3 DEF InductiveInv, CallersKnown
      <3> QED BY <3>2, <3>3, <3>4
    <2>3. /\ at' = "accept video" /\ servers'[own'].opened = 0 /\ held' = Nothing
          /\ UNCHANGED backlog
      BY <1>1, <1>2, <2>1, ConfigureChanges DEF NewServer, JobInOrder, BeforeLaunch, port
    <2>4. Position' = 0
      BY <2>3 DEF Position
    <2>5. \A role \in RoleSet : held'[role] = NoConn
      BY <2>3 DEF Nothing
    <2>6. 1 .. 0 = {} /\ 0 = 0 - 0
      OBVIOUS
    <2>7. Len(backlog') = servers'[own'].opened - Position' /\ 1 .. Len(backlog') = {}
      BY <2>2, <2>3, <2>4, <2>6
    <2>8. at' \notin Reading /\ at' # "done"
      BY <2>3 DEF Reading
    <2>9. held'["control"] = NoConn
      BY <2>5 DEF RoleSet
    <2> QED BY <2>5, <2>7, <2>8, <2>9 DEF TakenInOrder, AsOpened
  <1>3. CASE Accept
    <2>1. /\ at \in {"accept video", "accept audio", "accept control"} /\ at \in Accepting
          /\ backlog # <<>> /\ backlog' = Tail(backlog)
          /\ UNCHANGED <<options, own, callers, servers>>
      BY <1>3 DEF Accept, external, Accepting
    <2>2. /\ Head(backlog) = backlog[1] /\ Len(backlog) >= 1 /\ Len(backlog') = Len(backlog) - 1
          /\ \A i \in 1 .. Len(backlog) - 1 : backlog'[i] = backlog[i + 1]
      BY <2>1, StartFacts, HeadAndTail
    <2>3. /\ Len(backlog) = s.opened - Position
          /\ \A i \in 1 .. Len(backlog) : backlog[i] = [server |-> own, role |-> s.roles[Position + i]]
          /\ \A role \in RoleSet : held[role] \in {NoConn, [server |-> own, role |-> role]}
          /\ held["control"] = NoConn
      <3>1. /\ Len(backlog) = s.opened - Position
            /\ \A i \in 1 .. Len(backlog) : backlog[i] = [server |-> own, role |-> s.roles[Position + i]]
            /\ AsOpened(held, own, options) /\ held["control"] = NoConn
        BY <1>1, <2>1 DEF TakenInOrder
      <3> QED BY <3>1 DEF AsOpened
    <2>4. Position \in Nat /\ Position' = Position + 1
      <3>1. options["audio"] = "true" \/ at # "accept audio"
        BY DEF InductiveInv, TypeOK
      <3>2. options["control"] = "true" \/ at # "accept control"
        BY DEF InductiveInv, TypeOK
      <3>3. CASE at = "accept video"
        <4>1. at' = "meta"
          BY <1>3, <3>3 DEF Accept
        <4>2. Position = 0 /\ Position' = 1
          BY <3>3, <4>1 DEF Position
        <4> QED BY <4>2
      <3>4. CASE at = "accept audio"
        <4>1. at' = "audio codec"
          BY <1>3, <3>4 DEF Accept
        <4>2. Position = 1 /\ Position' = 2
          BY <3>4, <4>1 DEF Position
        <4> QED BY <4>2
      <3>5. CASE at = "accept control"
        <4>1. at' = "done" /\ options["control"] = "true" /\ UNCHANGED options
          BY <1>3, <2>1, <3>2, <3>5 DEF Accept
        <4>2. Position' = (IF options["audio"] = "true" THEN 2 ELSE 1) + 1
          BY <4>1 DEF Position
        <4>3. Position = IF options["audio"] = "true" THEN 2 ELSE 1
          BY <3>5 DEF Position
        <4> QED BY <4>2, <4>3
      <3> QED BY <2>1, <3>3, <3>4, <3>5
    <2>0. Len(backlog) \in Nat /\ s.opened \in Nat
      BY <2>1, StartFacts
    <2>5. Len(backlog') = s.opened - Position'
      <3>1. \A b, o, q \in Nat : b = o - q => b - 1 = o - (q + 1)
        OBVIOUS
      <3> QED BY <2>0, <2>2, <2>3, <2>4, <3>1
    <2>6. ASSUME NEW i \in 1 .. Len(backlog')
          PROVE  backlog'[i] = [server |-> own, role |-> s.roles[Position' + i]]
      <3>1. i + 1 \in 1 .. Len(backlog) /\ i \in 1 .. Len(backlog) - 1 /\ Position + (i + 1) = Position' + i
        <4>1. \A b, q \in Nat : \A j \in 1 .. b - 1 : j + 1 \in 1 .. b /\ q + (j + 1) = q + 1 + j
          OBVIOUS
        <4> QED BY <2>0, <2>2, <2>4, <4>1
      <3> QED BY <2>2, <2>3, <3>1
    <2>7. Head(backlog) = [server |-> own, role |-> s.roles[Position']]
      <3>1. 1 \in 1 .. Len(backlog)
        BY <2>0, <2>2
      <3> QED BY <2>2, <2>3, <2>4, <3>1
    <2>8. at' \in Reading => accepted' = [server |-> own, role |-> s.roles[Position']]
      BY <1>3, <2>7 DEF Accept, Reading
    <2>9. /\ AsOpened(held', own, options)
          /\ held'["control"] # NoConn <=> at' = "done" /\ options["control"] = "true"
      <3>1. CASE at = "accept control"
        <4>1. /\ held' = [held EXCEPT !["control"] = Head(backlog)] /\ at' = "done"
              /\ options["control"] = "true"
          BY <1>3, <3>1 DEF Accept, InductiveInv, TypeOK
        <4>2. Position' = IF options["audio"] = "true" THEN 3 ELSE 2
          <5>1. Position = IF options["audio"] = "true" THEN 2 ELSE 1
            BY <3>1 DEF Position
          <5> QED BY <2>4, <5>1
        <4>3. /\ Head(backlog).server = own
              /\ ~Misled(options) => Head(backlog) = [server |-> own, role |-> "control"]
          <5>1. ~Misled(options) => s.roles[Position'] = "control"
            BY <2>1, <4>1, <4>2, StartFacts
          <5> QED BY <2>7, <5>1
        <4>4. held \in [RoleSet -> Conn \cup {NoConn}] /\ 0 \notin Started
          <5>1. Len(servers) \in Nat
            BY ServersTyped DEF InductiveInv
          <5>2. held \in [RoleSet -> Conn \cup {NoConn}]
            BY DEF InductiveInv, TypeOK
          <5>3. 0 \notin Started
            BY <5>1 DEF Started
          <5> QED BY <5>2, <5>3
        <4>5. own # 0
          BY <2>1, <4>4, StartFacts
        <4>6. Head(backlog) # NoConn
          BY <4>3, <4>5 DEF NoConn
        <4>7. held'["control"] = Head(backlog) /\ held'["video"] = held["video"] /\ held'["audio"] = held["audio"]
          BY <4>1, <4>4 DEF RoleSet
        <4>8. AsOpened(held', own, options)
          BY <2>3, <4>3, <4>7 DEF AsOpened, RoleSet
        <4> QED BY <4>1, <4>6, <4>7, <4>8
      <3>2. CASE at # "accept control"
        <4>1. UNCHANGED held /\ at' # "done"
          BY <1>3, <3>2 DEF Accept
        <4> QED BY <2>3, <4>1 DEF AsOpened
      <3> QED BY <3>1, <3>2
    <2> QED BY <2>1, <2>5, <2>6, <2>8, <2>9 DEF TakenInOrder
  <1>4. CASE ReadDeviceMeta
    <2>1. /\ at = "meta" /\ at' = "video codec"
          /\ UNCHANGED <<options, held, accepted, own, backlog, callers, servers>>
      BY <1>4, OutsideAccepts DEF ReadDeviceMeta, port, external
    <2>2. Position' = Position
      BY <2>1 DEF Position
    <2> QED BY <1>1, <2>1, <2>2 DEF TakenInOrder, Accepting, Reading
  <1>5. CASE AssignConn
    <2>1. /\ at \in {"video codec", "audio codec"} /\ at \in Accepting /\ at \in Reading
          /\ at' = IF at = "video codec" THEN AfterVideo ELSE AfterAudio
          /\ UNCHANGED <<options, own, backlog, callers, servers>>
      BY <1>5, OutsideAccepts DEF AssignConn, port, Accepting, Reading
    <2>2. /\ Len(backlog) = s.opened - Position
          /\ \A i \in 1 .. Len(backlog) : backlog[i] = [server |-> own, role |-> s.roles[Position + i]]
          /\ accepted = [server |-> own, role |-> s.roles[Position]]
          /\ AsOpened(held, own, options)
          /\ held["control"] = NoConn
      BY <1>1, <2>1 DEF TakenInOrder
    <2>3. Position' = Position
      <3>1. at = "audio codec" => options["audio"] = "true"
        BY DEF InductiveInv, TypeOK
      <3>2. at = "video codec" => Position = 1
        BY DEF Position
      <3>3. at = "audio codec" => Position = 2
        BY DEF Position
      <3>4. at' = "accept audio" => Position' = 1
        BY DEF Position
      <3>5. at' = "accept control" => Position' = IF options["audio"] = "true" THEN 2 ELSE 1
        BY <2>1 DEF Position
      <3>6. at' = "done" => Position' = (IF options["audio"] = "true" THEN 2 ELSE 1)
                                         + (IF options["control"] = "true" THEN 1 ELSE 0)
        BY <2>1 DEF Position
      <3>8. CASE at = "video codec"
        <4>1. at' = IF options["audio"] = "true" THEN "accept audio"
                    ELSE IF options["control"] = "true" THEN "accept control" ELSE "done"
          BY <2>1, <3>8 DEF AfterVideo, AfterAudio
        <4>2. CASE options["audio"] = "true"
          BY <3>2, <3>4, <3>8, <4>1, <4>2
        <4>3. CASE options["audio"] # "true" /\ options["control"] = "true"
          BY <3>2, <3>5, <3>8, <4>1, <4>3
        <4>4. CASE options["audio"] # "true" /\ options["control"] # "true"
          <5>1. at' = "done" /\ Position' = 1
            BY <3>6, <4>1, <4>4
          <5>2. Position = 1
            BY <3>2, <3>8
          <5> QED BY <5>1, <5>2
        <4> QED BY <4>2, <4>3, <4>4
      <3>9. CASE at = "audio codec"
        <4>1. at' = IF options["control"] = "true" THEN "accept control" ELSE "done"
          BY <2>1, <3>9 DEF AfterAudio
        <4>2. CASE options["control"] = "true"
          BY <3>1, <3>3, <3>5, <3>9, <4>1, <4>2
        <4>3. CASE options["control"] # "true"
          <5>1. at' = "done" /\ Position' = 2
            <6>1. options["audio"] = "true"
              BY <3>1, <3>9
            <6>2. at' = "done" /\ Position' = 2 + 0
              BY <3>6, <4>1, <4>3, <6>1
            <6> QED BY <6>2
          <5>2. Position = 2
            BY <3>3, <3>9
          <5> QED BY <5>1, <5>2
        <4> QED BY <4>2, <4>3
      <3> QED BY <2>1, <3>8, <3>9
    <2>4. at' \notin Reading /\ ~(at' = "done" /\ options["control"] = "true")
      BY <2>1 DEF AfterVideo, AfterAudio, Reading
    <2>5. /\ held' = held \/ held' = [held EXCEPT ![accepted.role] = accepted]
          /\ held' = held \/ accepted.role # "control"
      BY <1>5, OutsideAccepts DEF AssignConn, HasBytes
    <2>6. AsOpened(held', own, options) /\ held'["control"] = NoConn
      <3>1. held \in [RoleSet -> Conn \cup {NoConn}]
        BY DEF InductiveInv, TypeOK
      <3>2. CASE held' = held
        BY <2>2, <3>2
      <3>3. CASE held' = [held EXCEPT ![accepted.role] = accepted] /\ accepted.role # "control"
        <4>1. accepted = [server |-> own, role |-> accepted.role]
          BY <2>2
        <4>2. \A role \in RoleSet : held'[role] = IF role = accepted.role THEN accepted ELSE held[role]
          BY <3>1, <3>3
        <4>3. held'["control"] = NoConn
          BY <2>2, <3>3, <4>2 DEF RoleSet
        <4> QED BY <2>2, <4>1, <4>2, <4>3 DEF AsOpened
      <3> QED BY <2>5, <3>2, <3>3
    <2> QED BY <2>1, <2>2, <2>3, <2>4, <2>6 DEF TakenInOrder
  <1>6. ASSUME NEW n \in Started, Connect(n)
        PROVE  TakenInOrder'
    <2>1. /\ UNCHANGED <<at, options, held, accepted, own>>
          /\ \A m \in Started : servers'[m].roles = servers[m].roles
          /\ \A m \in Started \ {n} : servers'[m] = servers[m]
          /\ Refused(n) \/ Opened(n)
      BY <1>6, ConnectChanges DEF Connect, job
    <2>2. callers \subseteq {own} /\ (Opened(n) => n = own)
      BY <2>1 DEF Refused, Opened
    <2>3. Position' = Position /\ servers'[own'].roles = s.roles
      BY <2>1, StartFacts DEF Position
    <2>4. CASE Refused(n)
      <3>1. servers'[own'].opened = s.opened /\ UNCHANGED backlog
        BY <2>1, <2>4, StartFacts DEF Refused
      <3> QED BY <1>1, <2>1, <2>2, <2>3, <3>1 DEF TakenInOrder
    <2>5. CASE Opened(n)
      <3> DEFINE c == [server |-> own, role |-> s.roles[s.opened + 1]]
      <3>1. /\ n = own /\ servers'[own'].opened = s.opened + 1 /\ backlog' = Append(backlog, c)
            /\ s.roles[s.opened + 1] \in RoleSet
        BY <2>1, <2>2, <2>5 DEF Opened
      <3>2. c \in Conn
        <4>1. own \in 1 .. MaxStarts
          <5>1. Len(servers) \in Nat /\ Len(servers) <= MaxStarts /\ MaxStarts \in Nat
            BY BoundsAssumption, ServersTyped DEF InductiveInv, TypeOK
          <5> QED BY <2>1, <5>1, StartFacts DEF Started
        <4> QED BY <3>1, <4>1 DEF Conn
      <3>3. /\ Len(backlog') = Len(backlog) + 1 /\ backlog'[Len(backlog) + 1] = c
            /\ \A i \in 1 .. Len(backlog) : backlog'[i] = backlog[i]
        <4>1. backlog \in Seq(Conn)
          BY <2>1, StartFacts
        <4> HIDE DEF c
        <4> QED BY <3>1, <3>2, <4>1, Appended
      <3>4. /\ Len(backlog) = s.opened - Position
            /\ \A i \in 1 .. Len(backlog) : backlog[i] = [server |-> own, role |-> s.roles[Position + i]]
            /\ at \in Reading => accepted = [server |-> own, role |-> s.roles[Position]]
            /\ AsOpened(held, own, options)
            /\ held["control"] # NoConn <=> at = "done" /\ options["control"] = "true"
        BY <1>1, <2>1, <2>2 DEF TakenInOrder
      <3>5. Position \in Nat
        <4>1. /\ (IF options["audio"] = "true" THEN 2 ELSE 1) \in {1, 2}
              /\ (IF options["control"] = "true" THEN 1 ELSE 0) \in {0, 1}
          OBVIOUS
        <4>2. Position \in {0, 1, 2}
              \/ Position = (IF options["audio"] = "true" THEN 2 ELSE 1)
                              + (IF options["control"] = "true" THEN 1 ELSE 0)
          <5>1. CASE at \in {"accept video", "meta", "video codec", "accept audio", "audio codec", "accept control"}
            BY <5>1 DEF Position
          <5>2. CASE at \notin {"accept video", "meta", "video codec", "accept audio", "audio codec", "accept control"}
            BY <5>2 DEF Position
          <5> QED BY <5>1, <5>2
        <4>3. \A a \in {1, 2}, b \in {0, 1} : a + b \in Nat
          OBVIOUS
        <4> HIDE DEF s
        <4> QED BY <4>1, <4>2, <4>3
      <3>6. /\ Len(backlog') = (s.opened + 1) - Position
            /\ Position + (Len(backlog) + 1) = s.opened + 1
            /\ \A i \in 1 .. Len(backlog') : i \in 1 .. Len(backlog) \/ i = Len(backlog) + 1
        <4>1. Len(backlog) \in Nat /\ s.opened \in Nat
          BY <2>1, StartFacts
        <4>2. \A b, o, q \in Nat : b = o - q =>
                /\ b + 1 = (o + 1) - q /\ q + (b + 1) = o + 1
                /\ \A i \in 1 .. b + 1 : i \in 1 .. b \/ i = b + 1
          OBVIOUS
        <4>3. Len(backlog) = s.opened - Position /\ Len(backlog') = Len(backlog) + 1
          BY <3>3, <3>4
        <4> HIDE DEF s
        <4> QED BY <3>5, <4>1, <4>2, <4>3
      <3>7. \A i \in 1 .. Len(backlog') :
              backlog'[i] = [server |-> own, role |-> s.roles[Position + i]]
        BY <3>3, <3>4, <3>6
      <3>8. Len(backlog') = servers'[own'].opened - Position'
        <4>1. servers'[own'].opened = s.opened + 1
          BY <3>1
        <4> HIDE DEF s
        <4> QED BY <2>3, <3>6, <4>1
      <3>9. \A i \in 1 .. Len(backlog') :
              backlog'[i] = [server |-> own', role |-> servers'[own'].roles[Position' + i]]
        BY <2>1, <2>3, <3>7
      <3>10. at' \in Reading => accepted' = [server |-> own', role |-> servers'[own'].roles[Position']]
        BY <2>1, <2>3, <3>4
      <3>11. /\ AsOpened(held', own', options')
             /\ held'["control"] # NoConn <=> at' = "done" /\ options'["control"] = "true"
        BY <2>1, <3>4
      <3> QED BY <3>8, <3>9, <3>10, <3>11 DEF TakenInOrder
    <2> QED BY <2>1, <2>4, <2>5
  <1>7. ASSUME UNCHANGED <<at, options, held, accepted, own, backlog, callers>>, Undisturbed
        PROVE  TakenInOrder'
    <2>1. servers'[own'].opened = s.opened /\ servers'[own'].roles = s.roles
      BY <1>7, StartFacts DEF Undisturbed
    <2>2. Position' = Position
      BY <1>7, <2>1 DEF Position
    <2> QED BY <1>1, <1>7, <2>1, <2>2 DEF TakenInOrder
  <1>8. ASSUME NEW n \in Started, Launch(n) \/ Speak(n) \/ ServerEnds(n)
        PROVE  UNCHANGED <<at, options, held, accepted, own, backlog, callers>>
    BY <1>8 DEF Launch, Speak, ServerEnds, job, port
  <1>9. UNCHANGED vars => UNCHANGED <<at, options, held, accepted, own, backlog, callers>>
    BY DEF vars, job, port
  <1>10. ~Configure /\ ~(\E n \in Started : Connect(n)) => Undisturbed
    BY MostUndisturbed
  <1> QED BY <1>2, <1>3, <1>4, <1>5, <1>6, <1>7, <1>8, <1>9, <1>10, OutsideAccepts DEF Next

-----------------------------------------------------------------------------
(* The drivers                                                             *)

\* What holds of a driver from its start to its end.
DriverKept(r) ==
  /\ r.own \in Started
  /\ \A role \in RoleSet : r.held[role] # NoConn => r.held[role].server \in Started
  /\ r.tidy => \A role \in RoleSet : r.held[role] # NoConn =>
       servers[r.held[role].server].dev \in {r.dev} \cup r.others
  /\ r.callers = {r.own} =>
       /\ AsOpened(r.held, r.own, r.options)
       /\ r.held["control"] # NoConn <=> r.options["control"] = "true"
       /\ r.options["audio"] # "unset" /\ r.options["control"] # "unset" => ~r.left

\* The drivers are in order if each of them is.
LEMMA AllKept ==
  (\A r \in drivers : DriverKept(r)) <=> DriversKnown /\ LateServerShutOut /\ RolesMatch
  BY DEF DriverKept, DriversKnown, LateServerShutOut, RolesMatch

\* The same of the next state.
LEMMA AllKeptPrime ==
  (\A r \in drivers' : DriverKept(r)') <=> (DriversKnown /\ LateServerShutOut /\ RolesMatch)'
  BY DEF DriverKept, DriversKnown, LateServerShutOut, RolesMatch

\* Servers launched later make no difference to a driver.
LEMMA KeptLater ==
  ASSUME InductiveInv, [Next]_vars, NEW r, DriverKept(r)
  PROVE  DriverKept(r)'
  BY ServersGrow DEF DriverKept

\* A start that comes to its end leaves a driver as it should be.
LEMMA FinishKept ==
  ASSUME InductiveInv, Finish, NEW r,
         r = [dev |-> dev, options |-> options, held |-> held, own |-> own,
              callers |-> callers, left |-> backlog # <<>>, tidy |-> tidy,
              others |-> {q.dev : q \in drivers} \cup stuck]
  PROVE  DriverKept(r)
  <1>1. at = "done" /\ at \in Accepting
    BY DEF Finish, Accepting
  <1>2. /\ r.dev = dev /\ r.options = options /\ r.held = held /\ r.own = own /\ r.callers = callers
        /\ r.left = (backlog # <<>>) /\ r.tidy = tidy /\ r.others = Served \cup stuck
    BY DEF Served
  <1>3. own \in Started
    BY <1>1, StartFacts
  <1>4. callers \subseteq Started /\ \A role \in RoleSet : held[role] # NoConn => held[role].server \in callers
    BY <1>1 DEF InductiveInv, TypeOK, CallersKnown, AtHand
  <1>5. tidy => \A n \in callers : servers[n].dev \in {dev} \cup Served \cup stuck
    BY <1>1 DEF InductiveInv, CallersKnown
  <1>6. ASSUME callers = {own}
        PROVE  /\ AsOpened(held, own, options)
               /\ held["control"] # NoConn <=> options["control"] = "true"
               /\ options["audio"] # "unset" /\ options["control"] # "unset" => backlog = <<>>
    <2>1. /\ Len(backlog) = servers[own].opened - Position
          /\ AsOpened(held, own, options)
          /\ held["control"] # NoConn <=> at = "done" /\ options["control"] = "true"
      BY <1>1, <1>6 DEF InductiveInv, TakenInOrder
    <2>2. options["audio"] # "unset" /\ options["control"] # "unset" =>
            Position = Len(servers[own].roles)
      <3>1. Position = (IF options["audio"] = "true" THEN 2 ELSE 1)
                         + (IF options["control"] = "true" THEN 1 ELSE 0)
        BY <1>1 DEF Position
      <3> QED BY <1>1, <3>1, StartFacts
    <2>3. /\ servers[own].opened \in Nat /\ servers[own].opened <= Len(servers[own].roles)
          /\ Len(servers[own].roles) \in Nat /\ Len(backlog) \in Nat /\ backlog \in Seq(Conn)
      BY <1>1, StartFacts
    <2>4. \A b, o, q \in Nat : b = o - q /\ o <= q => b = 0
      OBVIOUS
    <2>5. options["audio"] # "unset" /\ options["control"] # "unset" => Len(backlog) = 0
      BY <2>1, <2>2, <2>3, <2>4
    <2>6. options["audio"] # "unset" /\ options["control"] # "unset" => backlog = <<>>
      BY <2>3, <2>5
    <2> QED BY <1>1, <2>1, <2>6
  <1> QED BY <1>2, <1>3, <1>4, <1>5, <1>6 DEF DriverKept

\* Every driver stays in order, in every step.
LEMMA DriversStep ==
  InductiveInv /\ [Next]_vars => (DriversKnown /\ LateServerShutOut /\ RolesMatch)'
  <1> SUFFICES ASSUME InductiveInv, [Next]_vars, NEW r \in drivers'
               PROVE  DriverKept(r)'
    BY AllKeptPrime
  <1>1. \A q \in drivers : DriverKept(q)
    BY AllKept DEF InductiveInv
  <1>2. CASE r \in drivers
    BY <1>1, <1>2, KeptLater
  <1>3. CASE r \notin drivers
    <2>1. Finish
      <3>1. EndProcess => drivers' \subseteq drivers
        BY DEF EndProcess
      <3>2. AssignConn => drivers' \subseteq drivers
        BY <3>1 DEF AssignConn
      <3>3. ~Finish => drivers' \subseteq drivers
        BY <3>1, <3>2
        DEF Next, BeginStart, SetUpTunnel, SupportOpusAudio, PushScrcpyServer, Listen, Configure, Accept,
            AcceptTimeout, ReadDeviceMeta, BeginStop, CloseConns, StopADB, Launch, Connect, Speak,
            ServerEnds, Panic, Kill, Restart, vars
      <3> QED BY <1>3, <3>3
    <2>2. r = [dev |-> dev, options |-> options, held |-> held, own |-> own,
               callers |-> callers, left |-> backlog # <<>>, tidy |-> tidy,
               others |-> {q.dev : q \in drivers} \cup stuck]
      BY <1>3, <2>1 DEF Finish
    <2>3. DriverKept(r)
      BY <2>1, <2>2, FinishKept
    <2> QED BY <2>3, KeptLater
  <1> QED BY <1>2, <1>3

-----------------------------------------------------------------------------
(* The theorems                                                            *)

\* The invariant, before any start.
LEMMA InvariantStart == Init => InductiveInv
  <1> SUFFICES ASSUME Init
               PROVE  InductiveInv
    OBVIOUS
  <1>1. /\ <<>> \in Seq(Launched) /\ <<>> \in Seq(Conn) /\ Len(<<>>) = 0 /\ 1 .. 0 = {}
        /\ Nothing \in [RoleSet -> Conn \cup {NoConn}]
        /\ 0 \in 0 .. MaxRestarts /\ 0 <= MaxStarts /\ 0 \in 0 .. 0 /\ NoOptions \in Options
    BY BoundsAssumption DEF Nothing, NoOptions, Options
  <1>2. TypeOK
    BY <1>1 DEF Init, TypeOK, Places, Started
  <1>3. JobInOrder
    BY DEF Init, JobInOrder, BeforeLaunch, Accepting, Reading
  <1>4. TunnelsKept
    BY DEF Init, TunnelsKept, Served
  <1>5. ServersInOrder /\ CallersKnown /\ TakenInOrder
    BY <1>1 DEF Init, ServersInOrder, CallersKnown, TakenInOrder, Started, Accepting, Reading
  <1>6. DriversKnown /\ LateServerShutOut /\ RolesMatch
    BY DEF Init, DriversKnown, LateServerShutOut, RolesMatch
  <1> QED BY <1>2, <1>3, <1>4, <1>5, <1>6 DEF InductiveInv

\* The invariant, in every step.
LEMMA InvariantStep == InductiveInv /\ [Next]_vars => InductiveInv'
  BY TypeStep, JobStep, TunnelsStep, ServersInOrderStep, CallersStep, TakenStep, DriversStep
  DEF InductiveInv

\* What the starts, the port, the tunnels and the servers have to do with each
\* other, for any number of devices, starts and restarts of the process.
THEOREM StartInvariant == Spec => []InductiveInv
  BY InvariantStart, InvariantStep, PTL DEF Spec

\* A driver that was started tidily has no connection of a late server of a device
\* that had neither a running driver nor a tunnel that adb failed to remove.
THEOREM LateServers == Spec => []LateServerShutOut
  <1>1. InductiveInv => LateServerShutOut
    BY DEF InductiveInv
  <1> QED BY StartInvariant, <1>1, PTL

\* When no other server calls, each connection is used for what the server opened
\* it for, unless audio is unset and control is asked for; none is left over when
\* both options are given.
THEOREM Roles == Spec => []RolesMatch
  <1>1. InductiveInv => RolesMatch
    BY DEF InductiveInv
  <1> QED BY StartInvariant, <1>1, PTL

\* Between two calls, until a process has ended, a device with a tunnel has a driver
\* or is one whose tunnel adb failed to remove.
THEOREM Tunnels == Spec => []TunnelsFollowDrivers
  <1>1. InductiveInv => TunnelsFollowDrivers
    BY DEF InductiveInv, TunnelsKept, Served, TunnelsFollowDrivers
  <1> QED BY StartInvariant, <1>1, PTL

\* The port belongs to the start in progress.
THEOREM Port == Spec => []PortIsTheStarters
  <1>1. InductiveInv => PortIsTheStarters
    BY DEF InductiveInv, JobInOrder, Accepting, Reading, PortIsTheStarters
  <1> QED BY StartInvariant, <1>1, PTL
=============================================================================
