------------------------------ MODULE ScrcpyStart ------------------------------
(***************************************************************************)
(* Starting and stopping scrcpy drivers.  scrcpy.New sets up a reverse     *)
(* tunnel on the device, listens on one fixed port, has the server started *)
(* on the device two seconds later and accepts up to three connections.    *)
(* Starts and stops take turns: ensureAgent and setCleanup run them under  *)
(* the manager's lock.  The tunnel's name (scid "00000000") and the port   *)
(* are the same for every start, so a server that is late can call on a    *)
(* start that is not its own.  An error of New leaves the agent without a  *)
(* driver, ensureAgent drops the error, and `go agent.Start()` panics; the *)
(* process is started again (docker-compose.yml).                          *)
(*                                                                         *)
(* Servers are numbered by the start that launches them.  The server and   *)
(* the tunnel of adb are external; a connection is its server and the role *)
(* that server opened it for.                                              *)
(***************************************************************************)
EXTENDS Naturals, Sequences, SequencesExt

CONSTANTS Devices,
          MaxStarts,   \* bound: calls of New that reach the server's launch
          MaxRestarts  \* bound: times the process is started again

ASSUME BoundsAssumption == MaxStarts \in Nat /\ MaxRestarts \in Nat

VARIABLES
  life, restarts, tidy,     \* the process: "up", "doomed" (a panic is under
                            \* way), "down"; history: each end so far was an
                            \* accept's timeout with no driver running
  at, dev, options, held, accepted, own,
                            \* the start or stop in progress: where it is, its
                            \* device, the options given, videoConn, audioConn
                            \* and controlConn, the connection being read, its server
  listening, backlog, callers,
                            \* the port: bound, connections not yet accepted,
                            \* servers that connected
  drivers,                  \* drivers that New returned and Stop has not ended
  tunnel,                   \* devices with the reverse tunnel
  stuck,                    \* history: devices whose tunnel adb failed to remove,
                            \* since it was last set up
  servers                   \* servers launched so far

process  == <<life, restarts, tidy>>
job      == <<at, dev, options, held, accepted, own>>
port     == <<listening, backlog, callers>>
tunnels  == <<tunnel, stuck>>
external == <<tunnels, servers>>
vars == <<process, job, port, drivers, external>>

RoleSet == {"video", "audio", "control"}
Conn == [server : 1 .. MaxStarts, role : RoleSet]
NoConn == [server |-> 0, role |-> "none"]
Nothing == [r \in RoleSet |-> NoConn]

\* config["audio"] and config["control"]: "unset" is the key that is missing (or
\* empty), "false" every value but "true".
Options == [{"audio", "control"} -> {"true", "false", "unset"}]
NoOptions == [r \in {"audio", "control"} |-> "unset"]

\* A running driver: its connections; history: how its start went, and the devices
\* that had a tunnel besides.
Driver == [dev : Devices, options : Options, held : [RoleSet -> Conn \cup {NoConn}],
           own : 1 .. MaxStarts, callers : SUBSET (1 .. MaxStarts), left : BOOLEAN, tidy : BOOLEAN,
           others : SUBSET Devices]

Reading == {"meta", "video codec", "audio codec"}
Places == {"idle", "reverse", "opus", "push", "listen", "config", "accept video",
           "accept audio", "accept control", "done", "closing", "untunnel"} \cup Reading

Idle == at' = "idle" /\ held' = Nothing /\ accepted' = NoConn /\ options' = NoOptions /\ own' = 0

Init ==
  /\ life = "up" /\ restarts = 0 /\ tidy = TRUE
  /\ at = "idle" /\ dev \in Devices /\ options = NoOptions /\ held = Nothing
  /\ accepted = NoConn /\ own = 0
  /\ listening = FALSE /\ backlog = <<>> /\ callers = {}
  /\ drivers = {} /\ tunnel = {} /\ stuck = {} /\ servers = <<>>

-----------------------------------------------------------------------------
(* The server on a device.  state: "asleep" (StartScrcpyServer's goroutine *)
(* sleeps), "starting", "open" (all sockets opened), "spoke" (device name, *)
(* codecs and size sent), "mute" (never will), "ended" (after it spoke),   *)
(* "gone" (before).                                                        *)

Started == 1 .. Len(servers)
Ended(s) == IF s.state \in {"spoke", "ended"} THEN "ended" ELSE "gone"

\* The server's sockets in cs lose their other end: one that has all its sockets
\* ends, one that is still opening them notices when it has opened the last.
Cut(s, n, cs) ==
  IF ~\E c \in cs : c.server = n THEN s
  ELSE IF s.state = "starting" THEN [s EXCEPT !.cut = TRUE]
  ELSE [s EXCEPT !.state = Ended(s)]

\* After its sleep the goroutine runs `adb shell`; adb may fail.
Launch(n) ==
  /\ life = "up" /\ servers[n].state = "asleep"
  /\ \E s \in {"starting", "gone"} : servers' = [servers EXCEPT ![n].state = s]
  /\ UNCHANGED <<process, job, port, drivers, tunnels>>

\* The server opens the socket of its next role, through the tunnel.
Connect(n) ==
  LET s == servers[n]
      k == s.opened + 1
  IN
  /\ s.state = "starting"
  /\ IF s.dev \in tunnel /\ listening
     THEN /\ backlog' = Append(backlog, [server |-> n, role |-> s.roles[k]])
          /\ callers' = callers \cup {n}
          /\ servers' = [servers EXCEPT ![n].opened = k,
               ![n].state = IF k < Len(s.roles) THEN "starting"
                            ELSE IF s.cut THEN "gone" ELSE "open"]
     ELSE /\ servers' = [servers EXCEPT ![n].state = "gone"]
          /\ UNCHANGED <<backlog, callers>>
  /\ UNCHANGED <<process, job, listening, drivers, tunnels>>

\* It writes the device's name and each stream's codec, or hangs before it does.
Speak(n) ==
  /\ servers[n].state = "open"
  /\ \E s \in {"spoke", "mute"} : servers' = [servers EXCEPT ![n].state = s]
  /\ UNCHANGED <<process, job, port, drivers, tunnels>>

\* It ends by itself (an encoder fails, the device is unplugged).
ServerEnds(n) ==
  /\ servers[n].state \in {"starting", "open", "spoke", "mute"}
  /\ servers' = [servers EXCEPT ![n].state = Ended(servers[n])]
  /\ UNCHANGED <<process, job, port, drivers, tunnels>>

-----------------------------------------------------------------------------
(* The process.                                                            *)

\* Every socket is closed and the sleeping goroutines are no more.  Commands
\* under way and tunnels are adb's: they stay.
EndProcess ==
  LET open == ToSet(backlog) \cup {accepted} \cup {held[r] : r \in RoleSet}
              \cup UNION {{d.held[r] : r \in RoleSet} : d \in drivers}
  IN
  /\ life' = "down" /\ Idle
  /\ listening' = FALSE /\ backlog' = <<>> /\ callers' = {}
  /\ drivers' = {}
  /\ servers' = [n \in Started |->
       IF servers[n].state = "asleep" THEN [servers[n] EXCEPT !.state = "gone"]
       ELSE Cut(servers[n], n, open)]
  /\ UNCHANGED <<restarts, dev, tunnels>>

\* The panic of agent.Start without a driver.
Panic == life = "doomed" /\ EndProcess /\ UNCHANGED tidy

\* An operator ends the process, or another part of it panics.
Kill == life = "up" /\ restarts < MaxRestarts /\ EndProcess /\ tidy' = FALSE

Restart ==
  /\ life = "down" /\ restarts < MaxRestarts
  /\ life' = "up" /\ restarts' = restarts + 1
  /\ UNCHANGED <<tidy, job, port, drivers, external>>

\* New returns an error and no driver: what it leaves open stays so until the
\* process ends, and ensureAgent's panic is next.
Abandon == life' = "doomed" /\ at' = "idle" /\ UNCHANGED <<restarts, dev, options, held, accepted, own>>
Fail == Abandon /\ tidy' = FALSE

-----------------------------------------------------------------------------
(* New, up to the launch.                                                  *)

\* ensureAgent takes the manager's lock for a device that has no agent.
BeginStart(d) ==
  /\ life = "up" /\ at = "idle" /\ Len(servers) < MaxStarts
  /\ \A r \in drivers : r.dev # d
  /\ at' = "reverse" /\ dev' = d
  /\ options' \in Options
  /\ UNCHANGED <<process, held, accepted, own, port, drivers, external>>

\* (Broken on purpose: interface.go:103, where the call is commented out, alone.)
NotRemoved == UNCHANGED tunnels

\* adb may fail to remove the tunnel; nobody looks at its error.
ReverseRemove ==
  \/ tunnel' = tunnel \ {dev} /\ stuck' = stuck \ {dev}
  \/ UNCHANGED tunnel /\ stuck' = stuck \cup {dev}

\* ReverseRemove, then Reverse, which replaces a tunnel that is left.
WithTunnel == tunnel \cup {dev}

SetUpTunnel ==
  /\ life = "up" /\ at = "reverse"
  /\ \/ tunnel' = WithTunnel /\ stuck' = stuck \ {dev} /\ at' = "opus"
        /\ UNCHANGED <<process, dev, options, held, accepted, own>>
     \/ tunnel' \in {tunnel, tunnel \ {dev}} /\ UNCHANGED stuck /\ Fail
  /\ UNCHANGED <<port, drivers, servers>>

\* A device without the Opus encoder (or an adb that fails) has its audio switched
\* off; one with it keeps the option, given or not.
SupportOpusAudio ==
  /\ life = "up" /\ at = "opus" /\ at' = "push"
  /\ options' \in {options, [options EXCEPT !["audio"] = "false"]}
  /\ UNCHANGED <<process, dev, held, accepted, own, port, drivers, external>>

PushScrcpyServer ==
  /\ life = "up" /\ at = "push"
  /\ \/ at' = "listen" /\ UNCHANGED <<process, dev, options, held, accepted, own>>
     \/ Fail
  /\ UNCHANGED <<port, drivers, external>>

\* The port may also be another program's.
Listen ==
  /\ life = "up" /\ at = "listen"
  /\ \/ /\ ~listening /\ listening' = TRUE /\ at' = "config"
        /\ UNCHANGED <<process, dev, options, held, accepted, own, backlog, callers>>
     \/ Fail /\ UNCHANGED port
  /\ UNCHANGED <<drivers, external>>

\* One option of the server, which opens a socket for the role unless it is told
\* not to: an option that is unset is left out of its arguments, and it takes
\* "true" then.
Asked(role, o) == IF o[role] = "false" THEN <<>> ELSE <<role>>

\* (Broken on purpose: the server's options are made before Opus is looked for.)
RequestedRoles(o) == <<"video", "audio">> \o Asked("control", o)

\* The sockets the server opens, in this order.
ServerRoles(o) == <<"video">> \o Asked("audio", o) \o Asked("control", o)

\* A bit rate or level that does not parse returns with the listener open.
\* Otherwise StartScrcpyServer starts the goroutine that launches the server.
Configure ==
  /\ life = "up" /\ at = "config"
  /\ \/ Fail /\ UNCHANGED servers
     \/ /\ servers' = Append(servers, [dev |-> dev, roles |-> ServerRoles(options),
                                       opened |-> 0, cut |-> FALSE, state |-> "asleep"])
        /\ own' = Len(servers) + 1 /\ at' = "accept video"
        /\ UNCHANGED <<process, dev, options, held, accepted>>
  /\ UNCHANGED <<port, drivers, tunnels>>

-----------------------------------------------------------------------------
(* New, the three connections.                                             *)

\* Which connection New waits for next: an unset option is not "true".
AfterAudio == IF options["control"] = "true" THEN "accept control" ELSE "done"
AfterVideo == IF options["audio"] = "true" THEN "accept audio" ELSE AfterAudio

\* listener.Accept, three times at most.
Accept ==
  /\ life = "up" /\ backlog # <<>>
  /\ \/ at = "accept video" /\ accepted' = Head(backlog) /\ at' = "meta"
        /\ UNCHANGED held
     \/ at = "accept audio" /\ accepted' = Head(backlog) /\ at' = "audio codec"
        /\ UNCHANGED held
     \/ at = "accept control" /\ held' = [held EXCEPT !["control"] = Head(backlog)]
        /\ at' = "done" /\ UNCHANGED accepted
  /\ backlog' = Tail(backlog)
  /\ UNCHANGED <<process, dev, options, own, listening, callers, drivers, external>>

\* (Broken on purpose: SetDeadline is missing.)
NeverTimesOut == FALSE

\* The deadline is 5 s away when the goroutine begins its sleep of 2 s.
TimedOut == servers[own].state # "asleep"

\* Accept fails once the deadline has passed, even with connections waiting
\* (the reads before it may have taken the time).
AcceptTimeout ==
  /\ life = "up" /\ at \in {"accept video", "accept audio", "accept control"}
  /\ TimedOut
  /\ listening' = FALSE /\ ReverseRemove /\ backlog' = <<>> /\ callers' = {}
  /\ servers' = [n \in Started |-> Cut(servers[n], n, ToSet(backlog))]
  /\ Abandon /\ tidy' = (tidy /\ drivers = {})
  /\ UNCHANGED drivers

\* What io.ReadFull finds on the accepted connection: it waits while its server
\* lives and has not written; what a server wrote before it ended may be lost.
Peer == servers[accepted.server]
HasBytes == Peer.state \in {"spoke", "ended"} /\ accepted.role # "control"
HasEnded == Peer.state \in {"ended", "gone"}

\* readDeviceMeta: an error returns with the listener and the tunnel left.
ReadDeviceMeta ==
  /\ life = "up" /\ at = "meta"
  /\ \/ HasBytes /\ at' = "video codec"
        /\ UNCHANGED <<process, dev, options, held, accepted, own>>
     \/ HasEnded /\ Fail
  /\ UNCHANGED <<port, drivers, external>>

Codec(role) == IF role = "video" THEN "video codec" ELSE "audio codec"

\* assignConn: the bytes are a codec's name only where the server was expected to
\* write one (and not after a failed audio capture); a name that is unknown or
\* cannot be read assigns nothing, a size that cannot be read ends the process
\* (log.Fatalln).
AssignConn ==
  /\ life = "up" /\ at \in {"video codec", "audio codec"}
  /\ \/ /\ at' = IF at = "video codec" THEN AfterVideo ELSE AfterAudio
        /\ \/ HasBytes /\ at = Codec(accepted.role)
              /\ held' = [held EXCEPT ![accepted.role] = accepted]
           \/ HasBytes /\ (accepted.role = "video" => at = "audio codec") /\ UNCHANGED held
           \/ HasEnded /\ UNCHANGED held
        /\ accepted' = NoConn
        /\ UNCHANGED <<process, dev, options, own, port, drivers, servers, tunnels>>
     \/ /\ at = "video codec" /\ accepted.role = "video" /\ HasEnded
        /\ EndProcess /\ tidy' = FALSE

\* (Broken on purpose: the listener stays for the next start.)
ListenerKept == TRUE

\* listener.Close() at the end of New.
ListenerClosed == FALSE

\* The listener is closed: what it has not accepted is reset.
Finish ==
  /\ life = "up" /\ at = "done"
  /\ listening' = ListenerClosed /\ backlog' = <<>> /\ callers' = {}
  /\ drivers' = drivers \cup
       {[dev |-> dev, options |-> options, held |-> held, own |-> own,
         callers |-> callers, left |-> backlog # <<>>, tidy |-> tidy,
         others |-> {r.dev : r \in drivers} \cup stuck]}
  /\ servers' = [n \in Started |-> Cut(servers[n], n, ToSet(backlog))]
  /\ Idle
  /\ UNCHANGED <<process, dev, tunnels>>

-----------------------------------------------------------------------------
(* Stop.                                                                   *)

\* setCleanup takes the manager's lock when the last viewer has left.
BeginStop(r) ==
  /\ life = "up" /\ at = "idle"
  /\ at' = "closing" /\ dev' = r.dev /\ own' = r.own
  /\ held' = r.held /\ drivers' = drivers \ {r}
  /\ UNCHANGED <<process, options, accepted, port, external>>

CloseConns ==
  /\ life = "up" /\ at = "closing"
  /\ servers' = [n \in Started |-> Cut(servers[n], n, {held[r] : r \in RoleSet})]
  /\ held' = Nothing /\ at' = "untunnel"
  /\ UNCHANGED <<process, dev, options, accepted, own, port, drivers, tunnels>>

\* adbClient.Stop: the tunnel is removed, or not, and adb's commands are ended; a server
\* that adb shell has started may outlive it.
StopADB ==
  /\ life = "up" /\ at = "untunnel"
  /\ ReverseRemove
  /\ servers' \in {[servers EXCEPT ![own].state = Ended(servers[own])],
                   [servers EXCEPT ![own].state = IF @ = "asleep" THEN "gone" ELSE @]}
  /\ Idle
  /\ UNCHANGED <<process, dev, port, drivers>>

-----------------------------------------------------------------------------
New == \/ SetUpTunnel \/ SupportOpusAudio \/ PushScrcpyServer \/ Listen \/ Configure
       \/ Accept \/ AcceptTimeout \/ ReadDeviceMeta \/ AssignConn \/ Finish
Stop == CloseConns \/ StopADB
Server(n) == Launch(n) \/ Connect(n) \/ Speak(n)

Next ==
  \/ \E d \in Devices : BeginStart(d)
  \/ SetUpTunnel \/ SupportOpusAudio \/ PushScrcpyServer \/ Listen \/ Configure
  \/ Accept \/ AcceptTimeout \/ ReadDeviceMeta \/ AssignConn \/ Finish
  \/ \E r \in drivers : BeginStop(r)
  \/ CloseConns \/ StopADB
  \/ \E n \in Started : Launch(n) \/ Connect(n) \/ Speak(n) \/ ServerEnds(n)
  \/ Panic \/ Kill \/ Restart

\* The process runs, adb's commands end, a server writes unless it is mute; no
\* fairness for what people do, for servers that fail and for Kill.
Spec == /\ Init /\ [][Next]_vars
        /\ WF_vars(New) /\ WF_vars(Stop) /\ WF_vars(Panic)
        /\ \A n \in 1 .. MaxStarts : WF_vars(n \in Started /\ Server(n))

-----------------------------------------------------------------------------
(* Properties.                                                             *)

Launched == [dev : Devices, roles : Seq(RoleSet), opened : 0 .. 3, cut : BOOLEAN,
             state : {"asleep", "starting", "open", "spoke", "mute", "ended", "gone"}]

\* Every variable has its type, and New waits for a role it asked for only.
TypeOK ==
  /\ life \in {"up", "doomed", "down"} /\ restarts \in 0 .. MaxRestarts /\ tidy \in BOOLEAN
  /\ at \in Places /\ dev \in Devices /\ options \in Options
  /\ at \in {"accept audio", "audio codec"} => options["audio"] = "true"
  /\ at = "accept control" => options["control"] = "true"
  /\ held \in [RoleSet -> Conn \cup {NoConn}] /\ accepted \in Conn \cup {NoConn}
  /\ own \in 0 .. Len(servers)
  /\ listening \in BOOLEAN /\ backlog \in Seq(Conn) /\ callers \subseteq Started
  /\ drivers \subseteq Driver /\ tunnel \subseteq Devices /\ stuck \subseteq Devices
  /\ servers \in Seq(Launched) /\ Len(servers) <= MaxStarts

\* Every start uses the same tunnel name and port, and a start that times out may
\* leave a late server behind: a viewer still sees and controls the device asked
\* for, since the tunnel of the late server is removed.  Two devices have a tunnel
\* all the same: one whose driver runs, and one whose tunnel adb failed to remove;
\* their late servers may call on another device's start (others).  A process that
\* ends otherwise than by the timeout leaves tunnels, too (tidy).
LateServerShutOut ==
  \A r \in drivers : r.tidy =>
    \A role \in RoleSet : r.held[role] # NoConn =>
      servers[r.held[role].server].dev \in {r.dev} \cup r.others

\* The server opens an audio socket that New does not know of, before the control
\* socket it waits for.
Misled(o) == o["audio"] = "unset" /\ o["control"] = "true"

\* Each connection of h, if any, is one the server n opened for its role.
AsOpened(h, n, o) ==
  \A role \in RoleSet :
    h[role] \in {NoConn, [server |-> n, role |-> role]} \/ (role = "control" /\ Misled(o))

\* When no other server calls, each connection is used for what the server
\* opened it for (in particular, no media stream is taken for the control
\* socket when Opus is missing), and none is left in the port's queue.  Not so
\* with options that are unset: sockets are left over then, and the audio socket
\* becomes controlConn when control is asked for.
RolesMatch ==
  \A r \in drivers : r.callers = {r.own} =>
    /\ AsOpened(r.held, r.own, r.options)
    /\ r.held["control"] # NoConn <=> r.options["control"] = "true"
    /\ r.options["audio"] # "unset" /\ r.options["control"] # "unset" => ~r.left

\* Between two calls under the manager's lock a device with a tunnel has a driver,
\* unless adb failed to remove the tunnel, until a process has ended and left some.
TunnelsFollowDrivers ==
  restarts = 0 /\ life = "up" /\ at = "idle" => tunnel \subseteq {r.dev : r \in drivers} \cup stuck

\* The one port is bound by the start in progress only: a start or a stop of
\* another device never finds it taken by this program.
PortIsTheStarters ==
  listening /\ life = "up" => at \in {"config", "accept video", "meta", "video codec",
                                     "accept audio", "audio codec", "accept control", "done"}

\* A start ends, well or with the process, and gives back the manager's lock
\* (driver.go:310, a total timeout), unless a server opens its sockets and then
\* writes nothing, or another server calls: io.ReadFull has no deadline.
StartEnds ==
  at # "idle" ~> \/ at = "idle"
                 \/ \E n \in Started : servers[n].state = "mute"
                 \/ \E n \in callers : n # own

-----------------------------------------------------------------------------
(* Why they hold.                                                          *)

BeforeLaunch == {"reverse", "opus", "push", "listen", "config"}
Accepting == {"accept video", "accept audio", "accept control", "done"} \cup Reading
Served == {r.dev : r \in drivers}

\* The process's one start or stop at a time, and what it has at hand.
JobInOrder ==
  /\ life # "up" => at = "idle"
  /\ listening => life = "doomed" \/ at \in Accepting \cup {"config"}
  /\ ~listening => callers = {} /\ backlog = <<>>
  /\ at \in BeforeLaunch \/ (at = "idle" /\ life # "doomed") => held = Nothing /\ accepted = NoConn
  /\ at \in BeforeLaunch => Len(servers) < MaxStarts
  /\ at \in {"closing", "untunnel"} => own \in Started
  /\ at \in Accepting => own \in Started /\ servers[own].roles = ServerRoles(options)

\* While every end of the process so far was a timeout with no driver running,
\* the tunnels are at most those of the drivers, of the start or stop in progress
\* and those adb failed to remove.
TunnelsKept ==
  /\ restarts = 0 /\ life = "up" => tidy
  /\ tidy /\ life # "up" => tunnel \subseteq stuck /\ drivers = {}
  /\ tidy /\ life = "up" =>
       tunnel \subseteq Served \cup stuck \cup (IF at \in {"idle", "reverse"} THEN {} ELSE {dev})
  /\ at # "idle" => dev \notin Served
  /\ \A r, q \in drivers : r.dev = q.dev => r = q

\* A server opens its sockets in order and no more than it has to.
ServersInOrder ==
  \A n \in Started :
    /\ servers[n].opened <= Len(servers[n].roles) /\ Len(servers[n].roles) <= 3
    /\ servers[n].state \in {"asleep", "starting"} => servers[n].opened < Len(servers[n].roles)

\* The connections of the start in progress, and where they may come from.
AtHand == {accepted} \cup {held[role] : role \in RoleSet}
CallersKnown ==
  /\ \A i \in 1 .. Len(backlog) : backlog[i].server \in callers
  /\ at \in Accepting => \A c \in AtHand \ {NoConn} : c.server \in callers
  /\ tidy /\ at \in Accepting \cup {"config"} =>
       \A n \in callers : servers[n].dev \in {dev} \cup Served \cup stuck

\* How many connections of its own server a start has taken from the port.
Position == CASE at = "accept video" -> 0
              [] at \in {"meta", "video codec", "accept audio"} -> 1
              [] at = "audio codec" -> 2
              [] at = "accept control" -> IF options["audio"] = "true" THEN 2 ELSE 1
              [] OTHER -> (IF options["audio"] = "true" THEN 2 ELSE 1)
                            + (IF options["control"] = "true" THEN 1 ELSE 0)

\* With no other caller, connections are taken in the order they are opened in.
TakenInOrder ==
  at \in Accepting /\ callers \subseteq {own} =>
    /\ Len(backlog) = servers[own].opened - Position
    /\ \A i \in 1 .. Len(backlog) :
         backlog[i] = [server |-> own, role |-> servers[own].roles[Position + i]]
    /\ at \in Reading => accepted = [server |-> own, role |-> servers[own].roles[Position]]
    /\ AsOpened(held, own, options)
    /\ held["control"] # NoConn <=> at = "done" /\ options["control"] = "true"

\* Drivers and their connections belong to servers launched before.
DriversKnown ==
  \A r \in drivers :
    /\ r.own \in Started
    /\ \A role \in RoleSet : r.held[role] # NoConn => r.held[role].server \in Started

InductiveInv ==
  /\ TypeOK
  /\ JobInOrder
  /\ TunnelsKept
  /\ ServersInOrder
  /\ CallersKnown
  /\ TakenInOrder
  /\ DriversKnown
  /\ LateServerShutOut
  /\ RolesMatch
=============================================================================
