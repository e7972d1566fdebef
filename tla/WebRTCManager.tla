---------------------------- MODULE WebRTCManager ----------------------------
(***************************************************************************)
(* The sharing of one device between several browser sessions:             *)
(* webservice/webRTCManager.go and the handler that drives it,             *)
(* webservice/handleScreen.go.                                             *)
(*                                                                         *)
(* A client is one run of handleScreenWS: a goroutine with one WebSocket   *)
(* and one PeerConnection.  Objects the code allocates are named by the    *)
(* client whose goroutine allocated them: broadcaster c is the             *)
(* DeviceBroadcaster created in c's NewSubscriber, agent c the Agent       *)
(* created in c's ensureAgent, connection c the PeerConnection of c.       *)
(*                                                                         *)
(* Grain of atomicity: one action per critical section of the manager's    *)
(* RWMutex, and per stretch of code between two of them.  The per-         *)
(* broadcaster lock is only held inside such a stretch and never across a  *)
(* blocking call, so its sections are part of the action.  The section     *)
(* that blocks, InitDriver under the manager's lock, is two actions with   *)
(* "lock" held in between.                                                 *)
(***************************************************************************)
EXTENDS Naturals, FiniteSets

CONSTANTS Clients,      \* the sessions, one per WebSocket
          Devices,      \* device identifiers
          DeviceOf,     \* the device each session asks for
          MaxClients,   \* MAX_CLIENTS_PER_DEVICE
          IceMayFail,   \* can a connection reach the state "failed"?
          None          \* nil

Receipts == 0 .. (MaxClients - 1)

ASSUME DeviceOfAssumption     == DeviceOf \in [Clients -> Devices]
ASSUME MaxClientsAssumption   == MaxClients \in Nat \ {0}
ASSUME IceMayFailAssumption   == IceMayFail \in BOOLEAN
ASSUME NoneAssumption         == None \notin Clients /\ None \notin Receipts

VARIABLES
  hpc,       \* where each client's handler goroutine stands
  conn,      \* ConnectionState of each PeerConnection
  ptr,       \* broadcaster pointer held by NewSubscriber, later by Start
  feeds,     \* broadcaster pointer captured in ensureAgent
  target,    \* owner of the Subscriber the handler holds
  receipt,   \* receipt number of each registered client
  bcast,     \* manager.broadcasters
  counter,   \* manager.currentReceiptNumber (a missing key reads as 0)
  subs,      \* Subscribers map of each broadcaster
  agent,     \* Agent field of each broadcaster
  driver,    \* state of each agent's driver
  hook,      \* receipt number captured by OnConnectionStateChange, per connection
  serving,   \* agent captured by the RTCP loops and onMessageCallback
  cleanups,  \* running goroutines of the state-change callback
  lock,      \* the handler inside the blocking critical section, if any
  up         \* FALSE once a panic has ended the process

locals   == <<ptr, feeds, target, receipt>>
manager  == <<bcast, counter, subs, agent>>
vars     == <<hpc, conn, locals, manager, driver, hook, serving, cleanups, lock, up>>

HandlerStates == {"idle", "negotiate", "register", "lookup", "poll",
                  "ensure", "codec", "setAgent", "initDriver", "start",
                  "attach", "setCleanup", "metainfo", "streaming", "done"}
ConnStates    == {"new", "pending", "connected", "failed", "closed"}
DriverStates  == {"none", "init", "running", "stopped"}
Cleanup       == [conn : Clients, cause : {"failed", "closed"},
                  receipt : Receipts, step : {"close", "remove"}]

ClientOrNone  == Clients \cup {None}
ReceiptOrNone == Receipts \cup {None}

TypeOK ==
  /\ hpc      \in [Clients -> HandlerStates]
  /\ conn     \in [Clients -> ConnStates]
  /\ ptr      \in [Clients -> ClientOrNone]
  /\ feeds    \in [Clients -> ClientOrNone]
  /\ target   \in [Clients -> ClientOrNone]
  /\ receipt  \in [Clients -> ReceiptOrNone]
  /\ bcast    \in [Devices -> ClientOrNone]
  /\ counter  \in [Devices -> Receipts]
  /\ subs     \in [Clients -> [Receipts -> ClientOrNone]]
  /\ agent    \in [Clients -> ClientOrNone]
  /\ driver   \in [Clients -> DriverStates]
  /\ hook     \in [Clients -> ReceiptOrNone]
  /\ serving  \in [Clients -> ClientOrNone]
  /\ cleanups \subseteq Cleanup
  /\ lock     \in ClientOrNone
  /\ up       \in BOOLEAN

Init ==
  /\ hpc      = [c \in Clients |-> "idle"]
  /\ conn     = [c \in Clients |-> "new"]
  /\ ptr      = [c \in Clients |-> None]
  /\ feeds    = [c \in Clients |-> None]
  /\ target   = [c \in Clients |-> None]
  /\ receipt  = [c \in Clients |-> None]
  /\ bcast    = [d \in Devices |-> None]
  /\ counter  = [d \in Devices |-> 0]
  /\ subs     = [b \in Clients |-> [r \in Receipts |-> None]]
  /\ agent    = [b \in Clients |-> None]
  /\ driver   = [c \in Clients |-> "none"]
  /\ hook     = [c \in Clients |-> None]
  /\ serving  = [c \in Clients |-> None]
  /\ cleanups = {}
  /\ lock     = None
  /\ up       = TRUE

-----------------------------------------------------------------------------
(* Handler control and the connection-state callback.                      *)

Step(c, from, to) == /\ hpc[c] = from
                     /\ hpc' = [hpc EXCEPT ![c] = to]

\* A local variable is gone when its function returns.
Forget(local, c) == [local EXCEPT ![c] = None]

\* pion runs the registered callback in a goroutine of its own, once per
\* change of state; before setCleanup there is no callback.
Notify(c, state) ==
  IF hook[c] = None THEN {}
  ELSE {[conn |-> c, cause |-> state, receipt |-> hook[c], step |-> "close"]}

\* PeerConnection.Close: the second call does nothing.
Close(c, others) ==
  /\ conn' = [conn EXCEPT ![c] = "closed"]
  /\ cleanups' = IF conn[c] = "closed" THEN others ELSE others \cup Notify(c, "closed")

-----------------------------------------------------------------------------
(* NewSubscriber                                                           *)

\* The WebSocket upgrade, its first message and the PeerConnection can fail.
HandshakeFails(c) ==
  /\ Step(c, "idle", "done")
  /\ UNCHANGED <<conn, locals, manager, driver, hook, serving, cleanups, lock, up>>

\* First critical section: get or create the device's broadcaster.  Nothing
\* keeps the pointer and the map in step once the lock is released.
GetOrCreateBroadcaster(c) ==
  LET d == DeviceOf[c] IN
  /\ lock = None
  /\ \/ /\ Step(c, "idle", "negotiate")
        /\ bcast[d] # None
        /\ ptr' = [ptr EXCEPT ![c] = bcast[d]]
        /\ bcast' = bcast
     \/ /\ Step(c, "idle", "negotiate")
        /\ bcast[d] = None
        /\ ptr' = [ptr EXCEPT ![c] = c]
        /\ bcast' = [bcast EXCEPT ![d] = c]
     \/ /\ Step(c, "idle", "done")
        /\ bcast[d] = None              \* neither track could be created
        /\ UNCHANGED <<ptr, bcast>>
  /\ UNCHANGED <<conn, feeds, target, receipt, counter, subs, agent, driver,
                 hook, serving, cleanups, lock, up>>

\* AddTrack, the descriptions and the wait for ICE gathering, without the
\* lock.  An error leaves the broadcaster in the map and the connection open.
Negotiate(c) ==
  /\ \/ /\ Step(c, "negotiate", "register")
        /\ conn' = [conn EXCEPT ![c] = "pending"]
        /\ ptr' = ptr
     \/ /\ Step(c, "negotiate", "done")
        /\ conn' = conn
        /\ ptr' = Forget(ptr, c)
  /\ UNCHANGED <<feeds, target, receipt, manager, driver, hook, serving, cleanups, lock, up>>

\* (Broken on purpose: numbers that never wrap.)
NoWrapAround(r) == r + 1

\* Receipt numbers go round.
NextNumber(r) == (r + 1) % MaxClients

\* (Broken on purpose: the number is advanced before the entry is made.)
WithEntryAdvanced(b, r, c) == [subs EXCEPT ![b] = [@ EXCEPT ![NextNumber(r)] = c]]

\* The Subscribers map of broadcaster b with client c under number r.
WithEntry(b, r, c) == [subs EXCEPT ![b] = [@ EXCEPT ![r] = c]]

\* Second critical section: take the next receipt number in the broadcaster
\* read before the wait; whoever still holds that number is disconnected.
RegisterSubscriber(c) ==
  LET d   == DeviceOf[c]
      b   == ptr[c]
      r   == counter[d]
      old == subs[b][r]
  IN
  /\ Step(c, "register", "lookup")
  /\ lock = None
  /\ IF old = None THEN UNCHANGED <<conn, cleanups>> ELSE Close(old, cleanups)
  /\ subs'    = WithEntry(b, r, c)
  /\ receipt' = [receipt EXCEPT ![c] = r]
  /\ counter' = [counter EXCEPT ![d] = NextNumber(r)]
  /\ ptr'     = Forget(ptr, c)
  /\ UNCHANGED <<feeds, target, bcast, agent, driver, hook, serving, lock, up>>

-----------------------------------------------------------------------------
(* handleScreenWS between NewSubscriber and Start                          *)

\* The Subscriber the map holds under c's device and receipt number now.
Slot(b, c) == IF b = None THEN None ELSE subs[b][receipt[c]]

GetSubscriber(c) ==
  LET sub == Slot(bcast[DeviceOf[c]], c) IN
  /\ lock = None
  /\ \/ /\ Step(c, "lookup", "poll")
        /\ sub # None
        /\ target' = [target EXCEPT ![c] = sub]
     \/ /\ Step(c, "lookup", "done")
        /\ sub = None
        /\ target' = target
  /\ UNCHANGED <<conn, ptr, feeds, receipt, manager, driver, hook, serving,
                 cleanups, lock, up>>

\* (Broken on purpose: a connection closed by the server is waited for.)
FailedOnly(state) == state = "failed"

\* No session will come of this connection.
Dead(state) == state \in {"failed", "closed"}

\* The loop that reads ConnectionState every second.
PollConnectionState(c) ==
  /\ \/ /\ Step(c, "poll", "ensure")
        /\ conn[target[c]] = "connected"
     \/ /\ Step(c, "poll", "done")
        /\ Dead(conn[target[c]])
  /\ target' = Forget(target, c)
  /\ UNCHANGED <<conn, ptr, feeds, receipt, manager, driver, hook, serving, cleanups, lock, up>>

-----------------------------------------------------------------------------
(* Start and ensureAgent                                                   *)

\* First critical section of ensureAgent.
EnsureAgent(c) ==
  LET b   == bcast[DeviceOf[c]]
      sub == Slot(b, c)
  IN
  /\ lock = None
  /\ \/ /\ Step(c, "ensure", "done")
        /\ b = None
        /\ UNCHANGED <<feeds, target>>
     \/ /\ Step(c, "ensure", "start")
        /\ b # None
        /\ agent[b] # None
        /\ UNCHANGED <<feeds, target>>
     \/ /\ Step(c, "ensure", "done")    \* "subscriber disconnected before agent init"
        /\ b # None
        /\ agent[b] = None
        /\ sub = None
        /\ UNCHANGED <<feeds, target>>
     \/ /\ Step(c, "ensure", "codec")
        /\ b # None
        /\ agent[b] = None
        /\ sub # None
        /\ feeds'  = [feeds EXCEPT ![c] = b]
        /\ target' = [target EXCEPT ![c] = sub]
  /\ UNCHANGED <<conn, ptr, receipt, manager, driver, hook, serving, cleanups, lock, up>>

\* (Broken on purpose: Start goes on after an error of ensureAgent.)
CodecErrorIgnored(c) ==
  /\ Step(c, "codec", IF conn[target[c]] = "connected" THEN "setAgent" ELSE "start")
  /\ feeds' = IF conn[target[c]] = "connected" THEN feeds ELSE Forget(feeds, c)
  /\ target' = Forget(target, c)
  /\ UNCHANGED <<conn, ptr, receipt, manager, driver, hook, serving, cleanups, lock, up>>

\* WaitAndGetFinalCodecParams: connected, dead, or ten seconds without either.
WaitCodecParams(c) ==
  /\ \/ /\ Step(c, "codec", "setAgent")
        /\ conn[target[c]] = "connected"
        /\ feeds' = feeds
     \/ /\ Step(c, "codec", "done")
        /\ conn[target[c]] # "connected"
        /\ feeds' = Forget(feeds, c)
  /\ target' = Forget(target, c)
  /\ UNCHANGED <<conn, ptr, receipt, manager, driver, hook, serving, cleanups, lock, up>>

\* (Broken on purpose: no second look.)
NoSecondLook(b) == TRUE

\* The second look at broadcaster.Agent.
StillMissing(b) == agent[b] = None

\* (Broken on purpose: the lock is released before InitDriver.)
SetAgentUnlocked(c) ==
  /\ lock = None
  /\ Step(c, "setAgent", IF StillMissing(feeds[c]) THEN "initDriver" ELSE "start")
  /\ agent'  = IF StillMissing(feeds[c]) THEN [agent EXCEPT ![feeds[c]] = c] ELSE agent
  /\ driver' = IF StillMissing(feeds[c]) THEN [driver EXCEPT ![c] = "init"] ELSE driver
  /\ feeds'  = IF StillMissing(feeds[c]) THEN feeds ELSE Forget(feeds, c)
  /\ UNCHANGED <<conn, ptr, target, receipt, bcast, counter, subs, hook, serving,
                 cleanups, lock, up>>

\* Second critical section of ensureAgent, up to the call of InitDriver.
SetAgent(c) ==
  LET b == feeds[c] IN
  /\ lock = None
  /\ \/ /\ Step(c, "setAgent", "start")
        /\ ~StillMissing(b)             \* another client was faster
        /\ feeds' = Forget(feeds, c)
        /\ UNCHANGED <<agent, driver, lock>>
     \/ /\ Step(c, "setAgent", "initDriver")
        /\ StillMissing(b)
        /\ agent'  = [agent EXCEPT ![b] = c]
        /\ driver' = [driver EXCEPT ![c] = "init"]
        /\ lock'   = c
        /\ feeds'  = feeds
  /\ UNCHANGED <<conn, ptr, target, receipt, bcast, counter, subs, hook, serving, cleanups, up>>

\* InitDriver returns, "go agent.Start()", and the lock is released.  The error
\* of InitDriver is dropped: Agent.Start then panics on the missing driver, in
\* a goroutine of its own, which ends the process.
InitDriver(c) ==
  /\ Step(c, "initDriver", "start")
  /\ \/ /\ driver' = [driver EXCEPT ![c] = "running"]
        /\ up' = up
     \/ /\ driver' = driver
        /\ up' = FALSE
  /\ lock' = None
  /\ UNCHANGED <<conn, locals, manager, hook, serving, cleanups>>

\* Start looks the broadcaster up again.
LookupBroadcaster(c) ==
  LET b == bcast[DeviceOf[c]] IN
  /\ lock = None
  /\ \/ /\ Step(c, "start", "attach")
        /\ b # None
        /\ ptr' = [ptr EXCEPT ![c] = b]
     \/ /\ Step(c, "start", "done")
        /\ b = None
        /\ ptr' = ptr
  /\ UNCHANGED <<conn, feeds, target, receipt, manager, driver, hook, serving,
                 cleanups, lock, up>>

\* Subscriber and agent are read under the broadcaster's lock only; the RTCP
\* loops start with the agent pointer as it is, nil included.
Attach(c) ==
  LET sub == Slot(ptr[c], c) IN
  /\ \/ /\ Step(c, "attach", "setCleanup")
        /\ sub # None
        /\ target'  = [target EXCEPT ![c] = sub]
        /\ serving' = [serving EXCEPT ![sub] = agent[ptr[c]]]
     \/ /\ Step(c, "attach", "done")
        /\ sub = None
        /\ UNCHANGED <<target, serving>>
  /\ ptr' = Forget(ptr, c)
  /\ UNCHANGED <<conn, feeds, receipt, manager, driver, hook, cleanups, lock, up>>

\* setCleanup, then setDataChannelCallback.  A change of state that happened
\* before is not reported again.
SetCleanup(c) ==
  /\ Step(c, "setCleanup", "metainfo")
  /\ hook'   = [hook EXCEPT ![target[c]] = receipt[c]]
  /\ target' = Forget(target, c)
  /\ UNCHANGED <<conn, ptr, feeds, receipt, manager, driver, serving, cleanups, lock, up>>

\* GetAgent and the answer with capabilities and media_meta.
GetAgent(c) ==
  LET b == bcast[DeviceOf[c]]
      a == IF b = None THEN None ELSE agent[b]
  IN
  /\ lock = None
  /\ IF a # None
       THEN Step(c, "metainfo", "streaming")
       ELSE Step(c, "metainfo", "done")
  /\ UNCHANGED <<conn, locals, manager, driver, hook, serving, cleanups, lock, up>>

\* A PLI or a control message on a connection that was attached with a nil
\* agent dereferences nil in a goroutine of pion's.
UseNilAgent(c) ==
  /\ hook[c] # None
  /\ serving[c] = None
  /\ conn[c] = "connected"
  /\ up' = FALSE
  /\ UNCHANGED <<hpc, conn, locals, manager, driver, hook, serving, cleanups, lock>>

-----------------------------------------------------------------------------
(* The callback installed by setCleanup                                    *)

\* pc.Close(), which from "failed" reports the change to "closed" as well.
CleanupClose(k) ==
  /\ k.step = "close"
  /\ Close(k.conn, (cleanups \ {k}) \cup {[k EXCEPT !.step = "remove"]})
  /\ UNCHANGED <<hpc, locals, manager, driver, hook, serving, lock, up>>

\* Agent.Close stops the driver, if there is one.
StopAgent(a) ==
  driver' = IF a # None /\ driver[a] = "running"
              THEN [driver EXCEPT ![a] = "stopped"] ELSE driver

\* (Broken on purpose: the entry next to the right one is removed.)
WithoutNext(entries, r) == [entries EXCEPT ![NextNumber(r)] = None]

Without(entries, r) == [entries EXCEPT ![r] = None]

\* (Broken on purpose: one entry left counts as none.)
OneLeft(entries) == Cardinality({r \in Receipts : entries[r] # None}) <= 1

\* (Broken on purpose: the broadcaster is never found empty.)
NeverEmpty(entries) == FALSE

NoneLeft(entries) == \A r \in Receipts : entries[r] = None

\* (Broken on purpose: only the counter is reset.)
KeepBroadcaster(d) == /\ bcast'   = bcast
                      /\ counter' = [counter EXCEPT ![d] = 0]

\* The broadcaster and the counter leave their maps.
RemoveBroadcaster(d) == /\ bcast'   = [bcast EXCEPT ![d] = None]
                        /\ counter' = [counter EXCEPT ![d] = 0]

\* The critical section: the entry of this receipt number goes, whoever holds
\* it, and with the last entry the agent, the broadcaster and the counter.
CleanupRemove(k) ==
  LET d    == DeviceOf[k.conn]
      b    == bcast[d]
      left == Without(subs[b], k.receipt)
  IN
  /\ k.step = "remove"
  /\ lock = None
  /\ cleanups' = cleanups \ {k}
  /\ IF b = None
       THEN UNCHANGED <<manager, driver>>
       ELSE /\ subs' = [subs EXCEPT ![b] = left]
            /\ IF NoneLeft(left)
                 THEN StopAgent(agent[b]) /\ RemoveBroadcaster(d)
                 ELSE UNCHANGED <<driver, bcast, counter>>
            /\ UNCHANGED agent
  /\ UNCHANGED <<hpc, conn, locals, hook, serving, lock, up>>

-----------------------------------------------------------------------------
(* The network and the browser, as pion reports them.                      *)

\* The browser holds the answer only after the registration.  "pending" is
\* pion's new, connecting and disconnected.
Connect(c) ==
  /\ conn[c] = "pending"
  /\ receipt[c] # None
  /\ conn' = [conn EXCEPT ![c] = "connected"]
  /\ UNCHANGED <<hpc, locals, manager, driver, hook, serving, cleanups, lock, up>>

Disconnect(c) ==
  /\ conn[c] = "connected"
  /\ conn' = [conn EXCEPT ![c] = "pending"]
  /\ UNCHANGED <<hpc, locals, manager, driver, hook, serving, cleanups, lock, up>>

IceFails(c) ==
  /\ IceMayFail
  /\ conn[c] = "pending"
  /\ conn' = [conn EXCEPT ![c] = "failed"]
  /\ cleanups' = cleanups \cup Notify(c, "failed")
  /\ UNCHANGED <<hpc, locals, manager, driver, hook, serving, lock, up>>

BrowserCloses(c) ==
  /\ conn[c] = "connected"
  /\ Close(c, cleanups)
  /\ UNCHANGED <<hpc, locals, manager, driver, hook, serving, lock, up>>

-----------------------------------------------------------------------------

HandlerStep(c) ==
  \/ HandshakeFails(c)
  \/ GetOrCreateBroadcaster(c)
  \/ Negotiate(c)
  \/ RegisterSubscriber(c)
  \/ GetSubscriber(c)
  \/ PollConnectionState(c)
  \/ EnsureAgent(c)
  \/ WaitCodecParams(c)
  \/ SetAgent(c)
  \/ InitDriver(c)
  \/ LookupBroadcaster(c)
  \/ Attach(c)
  \/ SetCleanup(c)
  \/ GetAgent(c)

CleanupStep(k) == CleanupClose(k) \/ CleanupRemove(k)

NetworkStep(c) == Connect(c) \/ Disconnect(c) \/ IceFails(c) \/ BrowserCloses(c)

Next ==
  /\ up
  /\ \/ \E c \in Clients  : HandlerStep(c)
     \/ \E c \in Clients  : UseNilAgent(c)
     \/ \E k \in cleanups : CleanupStep(k)
     \/ \E c \in Clients  : NetworkStep(c)

Spec == Init /\ [][Next]_vars

(***************************************************************************)
(* Fairness.  Every goroutine runs, ICE and the browser owe nothing.  The  *)
(* lock is taken by a blocking step at most once per client, so weak       *)
(* fairness is enough for a waiter (Go's RWMutex starves nobody anyway).   *)
(***************************************************************************)
Fairness ==
  /\ \A c \in Clients : WF_vars(up /\ HandlerStep(c))
  /\ \A k \in Cleanup : WF_vars(up /\ k \in cleanups /\ CleanupStep(k))

FairSpec == Spec /\ Fairness

-----------------------------------------------------------------------------
(* Properties                                                              *)

Holds(b, c) == \E r \in Receipts : subs[b][r] = c

\* Every connection sits in at most one entry of one broadcaster, the entry of
\* its own receipt number: a callback that removes its number from a broadcaster
\* it never registered in cannot be told apart from the rightful one otherwise.
OneEntryPerConnection ==
  \A b \in Clients, r \in Receipts :
    LET c == subs[b][r] IN
    c # None => /\ receipt[c] = r
                /\ \A b2 \in Clients \ {b} : subs[b2][r] # c

\* Two clients that both found the agent missing must not both start one: the
\* second look at broadcaster.Agent after the codec wait is what prevents it.
OneAgentPerBroadcaster ==
  \A a1, a2 \in Clients :
    /\ driver[a1] # "none"
    /\ driver[a2] # "none"
    /\ feeds[a1] = feeds[a2]
    => a1 = a2

\* Nobody can be attached to an agent whose driver was stopped: the broadcaster
\* leaves the map in the critical section that closes its agent.
StoppedAgentIsUnreachable ==
  \A d \in Devices :
    bcast[d] # None /\ agent[bcast[d]] # None => driver[agent[bcast[d]]] # "stopped"

\* An agent that newcomers can reach streams for somebody: the map never offers
\* a broadcaster with an agent and no subscriber, whatever callbacks have run.
ReachableAgentHasSubscriber ==
  \A d \in Devices :
    bcast[d] # None /\ agent[bcast[d]] # None =>
      \E r \in Receipts : subs[bcast[d]][r] # None

\* An agent that leaves the map with its broadcaster has a driver, and the
\* driver is stopped in the same step: no callback gets between the publication
\* of an agent and its InitDriver, where Close would find no driver to stop.
\* And what has stopped stays stopped.
DriverLifeCycle ==
  [][/\ \A d \in Devices :
          LET b == bcast[d] IN
          b # None /\ bcast'[d] # b /\ agent[b] # None =>
            driver[agent[b]] = "running" /\ driver'[agent[b]] = "stopped"
     /\ \A a \in Clients : driver[a] = "stopped" => driver'[a] = "stopped"]_vars

\* A connection whose callback is installed and that is still open has its
\* entry in the broadcaster newcomers are sent to: it is counted among the
\* device's subscribers, so the agent outlives it.
OpenConnectionIsCounted ==
  \A c \in Clients :
    hook[c] # None /\ conn[c] \in {"pending", "connected"} =>
      bcast[DeviceOf[c]] # None /\ Slot(bcast[DeviceOf[c]], c) = c

\* Start hands the RTCP loops and the data channels an agent that exists.
AttachedToAgent ==
  \A c \in Clients : hook[c] # None => serving[c] # None

\* The log of setCleanup: "No more subscribers for device, closing agent".  An
\* agent is closed only when no connection it serves is open.
ClosedAgentServesNobody ==
  \A c \in Clients :
    hook[c] # None /\ conn[c] = "connected" /\ serving[c] # None =>
      driver[serving[c]] # "stopped"

\* Once no connection keeps changing between connected and pending, every
\* handler ends its handshake: no lost unlock, no wait for an event that came
\* too early.
HandshakeEnds ==
  (\A c \in Clients : <>[](conn[c] # "pending")) =>
    <>(~up \/ \A c \in Clients : hpc[c] \in {"streaming", "done"})

\* A connection that ends after its callback was installed leaves the map.
DeadConnectionLeaves ==
  \A c \in Clients :
    (\E k \in cleanups : k.conn = c) ~>
      (~up \/ bcast[DeviceOf[c]] = None \/ ~Holds(bcast[DeviceOf[c]], c))

(***************************************************************************)
(* The inductive invariant behind the proofs of WebRTCManagerProofs.       *)
(***************************************************************************)

\* The locals a handler is about to use are set.
Registered == {"lookup", "poll", "ensure", "codec", "setAgent", "initDriver",
               "start", "attach", "setCleanup", "metainfo", "streaming"}
LocalsSet ==
  \A c \in Clients :
    /\ hpc[c] \in {"negotiate", "register", "attach"} => ptr[c] # None
    /\ hpc[c] \in Registered => receipt[c] # None
    /\ hpc[c] \in {"poll", "codec", "setCleanup"} => target[c] # None
    /\ hpc[c] \in {"codec", "setAgent", "initDriver"} => feeds[c] # None

\* Who holds the lock is in InitDriver, and only there is a driver half started.
LockHeld ==
  /\ lock # None => hpc[lock] = "initDriver"
  /\ \A c \in Clients : hpc[c] = "initDriver" => lock = c /\ driver[c] = "init"
  /\ up => \A c \in Clients : driver[c] = "init" => hpc[c] = "initDriver"

\* An agent belongs to the broadcaster captured when it was created.
BeforeAgent == {"idle", "negotiate", "register", "lookup", "poll", "ensure",
                "codec", "setAgent"}
AgentOwned ==
  /\ \A c \in Clients : hpc[c] \in BeforeAgent => driver[c] = "none"
  /\ \A a \in Clients : driver[a] # "none" => feeds[a] # None /\ agent[feeds[a]] = a
  /\ \A b \in Clients : agent[b] # None => driver[agent[b]] # "none" /\ feeds[agent[b]] = b

\* A broadcaster enters the map once, when its creator makes it, under the
\* creator's device; a pointer to it exists only afterwards.
BroadcasterCreatedOnce ==
  /\ \A d \in Devices : bcast[d] # None => DeviceOf[bcast[d]] = d /\ hpc[bcast[d]] # "idle"
  /\ \A c \in Clients : feeds[c] # None => hpc[feeds[c]] # "idle"

\* A session that has not registered has no number, and no entry bears its name.
ReceiptOnce ==
  \A c \in Clients : hpc[c] \in {"idle", "negotiate", "register"} => receipt[c] = None

\* The map and the agents: a stopped agent's broadcaster has left the map, and
\* one with an agent, or about to get one, has a subscriber.
Claimed(b) == \/ agent[b] # None
              \/ \E c \in Clients : hpc[c] \in {"codec", "setAgent"} /\ feeds[c] = b
MapConsistent ==
  \A d \in Devices : bcast[d] # None =>
    /\ \A a \in Clients : driver[a] = "stopped" => feeds[a] # bcast[d]
    /\ Claimed(bcast[d]) => \E r \in Receipts : subs[bcast[d]][r] # None

InductiveInv ==
  /\ TypeOK
  /\ LocalsSet
  /\ LockHeld
  /\ AgentOwned
  /\ BroadcasterCreatedOnce
  /\ MapConsistent
  /\ ReceiptOnce
  /\ OneEntryPerConnection

\* A broadcaster nobody has made yet has no entry, and nobody points to it.  With
\* InductiveInv this is what the refinement of DeviceSharing rests on.
BroadcasterStartsEmpty ==
  /\ \A b \in Clients : hpc[b] = "idle" => NoneLeft(subs[b])
  /\ \A c \in Clients : ptr[c] # None => hpc[ptr[c]] # "idle"

(***************************************************************************)
(* Why open connections are counted, attached and not cut off: an          *)
(* inductive invariant as long as there are no more sessions than receipt  *)
(* numbers, ICE does not fail, and nobody has registered in a broadcaster  *)
(* that had left the map while he negotiated.  Such an entry is a stray:   *)
(* no callback ever removes it, and when the numbers have gone round its   *)
(* owner may take another session's entry for his own.  Five sessions can  *)
(* break the three properties in this way.                                 *)
(***************************************************************************)
NoStray == \A b \in Clients, r \in Receipts : subs[b][r] # None => bcast[DeviceOf[b]] = b

\* A session that has registered keeps its entry until its callback has run, ...
Gone(c)    == hook[c] # None /\ conn[c] = "closed"
Counted(c) == bcast[DeviceOf[c]] # None /\ Slot(bcast[DeviceOf[c]], c) = c
EntryStays == \A c \in Clients : receipt[c] # None /\ ~Gone(c) => Counted(c)

\* ... which runs once, for its own number, ...
OwnCleanup ==
  /\ \A k \in cleanups : conn[k.conn] = "closed" /\ hook[k.conn] = k.receipt /\ Counted(k.conn)
  /\ \A k1, k2 \in cleanups : k1.conn = k2.conn => k1 = k2
  /\ \A c \in Clients : hook[c] # None =>
       hook[c] = receipt[c] /\ hpc[c] \in {"metainfo", "streaming", "done"}

\* ... so that what it finds there is its own.
OwnTarget == \A c \in Clients : target[c] # None => target[c] = c

\* The broadcaster a handler goes by is the one newcomers are sent to, and its agent
\* the one the handler serves.
InTheMap ==
  \A c \in Clients :
    LET b == bcast[DeviceOf[c]] IN
    /\ ptr[c] # None => DeviceOf[ptr[c]] = DeviceOf[c]
    /\ hpc[c] = "attach" => ptr[c] = b
    /\ hpc[c] \in {"codec", "setAgent", "initDriver"} => feeds[c] = b
    /\ hpc[c] \in {"start", "attach"} => agent[b] # None
Served ==
  \A c \in Clients : hpc[c] = "setCleanup" \/ hook[c] # None =>
    /\ serving[c] # None
    /\ ~Gone(c) => serving[c] = agent[bcast[DeviceOf[c]]]

\* The numbers below the counter, and all of them once it has gone round, have been
\* given to sessions of the device.
Given(d, r) == \E c \in Clients : DeviceOf[c] = d /\ receipt[c] = r
NumbersGiven ==
  \A d \in Devices :
    /\ \A r \in Receipts : r < counter[d] => Given(d, r)
    /\ bcast[d] # None => \A r \in Receipts : subs[bcast[d]][r] # None =>
         r < counter[d] \/ (counter[d] = 0 /\ \A q \in Receipts : Given(d, q))

OrderlyInv == EntryStays /\ OwnCleanup /\ OwnTarget /\ InTheMap /\ Served /\ NumbersGiven

(***************************************************************************)
(* The manager seen from outside: DeviceSharing.                           *)
(***************************************************************************)
Viewers(d) == IF bcast[d] = None THEN {}
              ELSE {subs[bcast[d]][r] : r \in Receipts} \ {None}

Service(d) ==
  LET a == IF bcast[d] = None THEN None ELSE agent[bcast[d]] IN
  IF a = None THEN "off"
  ELSE IF driver[a] = "init" THEN "starting"
  ELSE IF driver[a] = "running" THEN "on" ELSE driver[a]

Sharing == INSTANCE DeviceSharing WITH
             viewers <- [d \in Devices |-> Viewers(d)],
             service <- [d \in Devices |-> Service(d)]

\* Whatever the interleaving of handlers and callbacks, what newcomers of a
\* device can reach behaves as DeviceSharing says: one agent per generation of
\* viewers, started for a viewer and gone with the last entry.
ImplementsSharing == Sharing!Spec
=============================================================================
