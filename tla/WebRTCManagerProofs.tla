------------------------- MODULE WebRTCManagerProofs -------------------------
(***************************************************************************)
(* Safety of WebRTCManager for every set of sessions and devices and every *)
(* value of MaxClients.  InductiveInv is an invariant, and with it those   *)
(* of the run manager_safety.  WebRTCManager implements DeviceSharing.     *)
(* With no more sessions than receipt numbers and without failures of ICE, *)
(* and as long as nobody has registered in a broadcaster that had left the *)
(* map, open connections are counted, attached and not cut off.            *)
(***************************************************************************)
EXTENDS WebRTCManager, FiniteSetTheorems, TLAPS

-----------------------------------------------------------------------------
(* Facts about the operators the actions are built from.                   *)

\* The receipt number that follows a receipt number.
LEMMA NextReceipt == ASSUME NEW r \in Receipts PROVE NextNumber(r) \in Receipts
  BY MaxClientsAssumption DEF Receipts, NextNumber

\* The first receipt number exists.
LEMMA ZeroReceipt == 0 \in Receipts
  BY MaxClientsAssumption DEF Receipts

\* The callback goroutines started by a change of state are well formed.
LEMMA NotifyType ==
  ASSUME TypeOK, NEW c \in Clients, NEW s \in {"failed", "closed"}
  PROVE  Notify(c, s) \subseteq Cleanup
  BY DEF Notify, TypeOK, ReceiptOrNone, Cleanup

\* Closing a connection keeps its state and the callbacks it owes well formed.
LEMMA CloseType ==
  ASSUME TypeOK, NEW c \in Clients, NEW others \in SUBSET Cleanup, Close(c, others)
  PROVE  /\ conn' \in [Clients -> ConnStates]
         /\ cleanups' \subseteq Cleanup
  <1>1. conn' \in [Clients -> ConnStates]
    BY DEF Close, TypeOK, ConnStates
  <1>2. Notify(c, "closed") \subseteq Cleanup
    BY NotifyType
  <1> QED BY <1>1, <1>2 DEF Close

\* A handler that has registered finds at its receipt number a session or nil.
LEMMA SlotType ==
  ASSUME TypeOK, LocalsSet, NEW c \in Clients, hpc[c] \in Registered,
         NEW b \in ClientOrNone
  PROVE  Slot(b, c) \in ClientOrNone
  BY DEF Slot, TypeOK, LocalsSet, ClientOrNone, ReceiptOrNone

-----------------------------------------------------------------------------
(* Types and locals.                                                       *)

\* The program counter stays typed whatever handler moves.
LEMMA StepType ==
  ASSUME TypeOK, NEW c \in Clients, NEW from, NEW to \in HandlerStates, Step(c, from, to)
  PROVE  hpc' \in [Clients -> HandlerStates]
  BY DEF Step, TypeOK

\* No handler, callback or connection event takes a variable or a local out of its type.
LEMMA TypeStep == TypeOK /\ LocalsSet /\ [Next]_vars => TypeOK' /\ LocalsSet'
  <1> SUFFICES ASSUME TypeOK, LocalsSet, [Next]_vars
               PROVE  TypeOK' /\ LocalsSet'
    OBVIOUS
  <1>1. ASSUME NEW c \in Clients, HandshakeFails(c) PROVE TypeOK' /\ LocalsSet'
    <2>1. TypeOK'
      BY <1>1 DEF HandshakeFails, Step, TypeOK, HandlerStates, ConnStates, DriverStates,
         ClientOrNone, ReceiptOrNone, Forget, locals, manager
    <2>2. LocalsSet'
      BY <1>1 DEF HandshakeFails, Step, TypeOK, LocalsSet, Registered, Forget, locals, manager
    <2> QED BY <2>1, <2>2
  <1>2. ASSUME NEW c \in Clients, GetOrCreateBroadcaster(c) PROVE TypeOK' /\ LocalsSet'
    <2>1. TypeOK'
      <3>1. DeviceOf[c] \in Devices
        BY DeviceOfAssumption
      <3>2. hpc' \in [Clients -> HandlerStates]
        BY <1>2 DEF GetOrCreateBroadcaster, Step, TypeOK, HandlerStates
      <3>3. ptr' \in [Clients -> ClientOrNone] /\ bcast' \in [Devices -> ClientOrNone]
        <4>1. \/ ptr' = [ptr EXCEPT ![c] = bcast[DeviceOf[c]]] /\ bcast' = bcast
              \/ ptr' = [ptr EXCEPT ![c] = c] /\ bcast' = [bcast EXCEPT ![DeviceOf[c]] = c]
              \/ ptr' = ptr /\ bcast' = bcast
          BY <1>2 DEF GetOrCreateBroadcaster
        <4>2. ptr \in [Clients -> ClientOrNone] /\ bcast \in [Devices -> ClientOrNone]
          BY DEF TypeOK
        <4>3. bcast[DeviceOf[c]] \in ClientOrNone /\ c \in ClientOrNone
          BY <3>1, <4>2 DEF ClientOrNone
        <4> QED BY <4>1, <4>2, <4>3
      <3>4. UNCHANGED <<conn, feeds, target, receipt, counter, subs, agent, driver,
                        hook, serving, cleanups, lock, up>>
        BY <1>2 DEF GetOrCreateBroadcaster
      <3> QED BY <3>2, <3>3, <3>4 DEF TypeOK
    <2>2. LocalsSet'
      BY <1>2, NoneAssumption DEF GetOrCreateBroadcaster, Step, TypeOK, LocalsSet, Registered, Forget, locals, manager
    <2> QED BY <2>1, <2>2
  <1>3. ASSUME NEW c \in Clients, Negotiate(c) PROVE TypeOK' /\ LocalsSet'
    <2>1. TypeOK'
      BY <1>3 DEF Negotiate, Step, TypeOK, HandlerStates, ConnStates, DriverStates,
         ClientOrNone, ReceiptOrNone, Forget, locals, manager
    <2>2. LocalsSet'
      BY <1>3 DEF Negotiate, Step, TypeOK, LocalsSet, Registered, Forget, locals, manager
    <2> QED BY <2>1, <2>2
  <1>4. ASSUME NEW c \in Clients, RegisterSubscriber(c) PROVE TypeOK' /\ LocalsSet'
    <2>1. TypeOK'
      <3> DEFINE d   == DeviceOf[c]
                 b   == ptr[c]
                 r   == counter[d]
                 old == subs[b][r]
      <3>1. d \in Devices /\ b \in Clients /\ r \in Receipts /\ old \in ClientOrNone
        <4>1. d \in Devices /\ b \in Clients
          BY <1>4, DeviceOfAssumption DEF RegisterSubscriber, WithEntry, Step, TypeOK, LocalsSet, ClientOrNone
        <4> QED BY <4>1 DEF TypeOK
      <3>2. conn' \in [Clients -> ConnStates] /\ cleanups' \subseteq Cleanup
        <4>1. CASE old = None
          BY <1>4, <4>1 DEF RegisterSubscriber, WithEntry, TypeOK
        <4>2. CASE old # None
          <5>1. old \in Clients /\ Close(old, cleanups) /\ cleanups \in SUBSET Cleanup
            BY <1>4, <3>1, <4>2 DEF RegisterSubscriber, WithEntry, TypeOK, ClientOrNone
          <5> HIDE DEF old
          <5> QED BY <5>1, CloseType
        <4> QED BY <4>1, <4>2
      <3>3. subs' \in [Clients -> [Receipts -> ClientOrNone]]
        BY <1>4, <3>1 DEF RegisterSubscriber, WithEntry, TypeOK, ClientOrNone
      <3>4. counter' \in [Devices -> Receipts]
        BY <1>4, <3>1, NextReceipt DEF RegisterSubscriber, WithEntry, TypeOK
      <3>5. /\ hpc' \in [Clients -> HandlerStates]
            /\ ptr' \in [Clients -> ClientOrNone]
            /\ receipt' \in [Clients -> ReceiptOrNone]
        BY <1>4, <3>1 DEF RegisterSubscriber, WithEntry, Step, TypeOK, HandlerStates, Forget, ClientOrNone, ReceiptOrNone
      <3> QED BY <1>4, <3>2, <3>3, <3>4, <3>5 DEF RegisterSubscriber, WithEntry, TypeOK
    <2>2. LocalsSet'
      <3>1. counter[DeviceOf[c]] # None
        BY DeviceOfAssumption, NoneAssumption DEF TypeOK
      <3> QED BY <1>4, <3>1 DEF RegisterSubscriber, WithEntry, Step, TypeOK, LocalsSet, Registered, Forget, locals, manager
    <2> QED BY <2>1, <2>2
  <1>5. ASSUME NEW c \in Clients, GetSubscriber(c) PROVE TypeOK' /\ LocalsSet'
    <2>1. TypeOK'
      <3>1. bcast[DeviceOf[c]] \in ClientOrNone /\ hpc[c] \in Registered
        BY <1>5, DeviceOfAssumption DEF GetSubscriber, Step, TypeOK, Registered
      <3>2. Slot(bcast[DeviceOf[c]], c) \in ClientOrNone
        BY <3>1, SlotType
      <3>3. /\ hpc' \in [Clients -> HandlerStates]
            /\ target' \in [Clients -> ClientOrNone]
        BY <1>5, <3>1, <3>2 DEF GetSubscriber, Step, TypeOK, HandlerStates, ClientOrNone, Forget
      <3>4. UNCHANGED <<conn, ptr, feeds, receipt, manager, driver, hook, serving,
                        cleanups, lock, up>>
        BY <1>5 DEF GetSubscriber
      <3> QED BY <3>3, <3>4 DEF TypeOK, manager
    <2>2. LocalsSet'
      BY <1>5 DEF GetSubscriber, Step, TypeOK, LocalsSet, Registered, Forget, locals, manager, Slot
    <2> QED BY <2>1, <2>2
  <1>6. ASSUME NEW c \in Clients, PollConnectionState(c) PROVE TypeOK' /\ LocalsSet'
    <2>1. TypeOK'
      BY <1>6 DEF PollConnectionState, Dead, Step, TypeOK, HandlerStates, ConnStates, DriverStates,
         ClientOrNone, ReceiptOrNone, Forget, locals, manager
    <2>2. LocalsSet'
      BY <1>6 DEF PollConnectionState, Dead, Step, TypeOK, LocalsSet, Registered, Forget, locals, manager
    <2> QED BY <2>1, <2>2
  <1>7. ASSUME NEW c \in Clients, EnsureAgent(c) PROVE TypeOK' /\ LocalsSet'
    <2>1. TypeOK'
      <3>1. bcast[DeviceOf[c]] \in ClientOrNone /\ hpc[c] \in Registered
        BY <1>7, DeviceOfAssumption DEF EnsureAgent, Step, TypeOK, Registered
      <3>2. Slot(bcast[DeviceOf[c]], c) \in ClientOrNone
        BY <3>1, SlotType
      <3>3. /\ hpc' \in [Clients -> HandlerStates]
            /\ target' \in [Clients -> ClientOrNone]
            /\ feeds' \in [Clients -> ClientOrNone]
        <4>1. \/ feeds' = feeds /\ target' = target
              \/ /\ feeds'  = [feeds EXCEPT ![c] = bcast[DeviceOf[c]]]
                 /\ target' = [target EXCEPT ![c] = Slot(bcast[DeviceOf[c]], c)]
          BY <1>7 DEF EnsureAgent
        <4>2. hpc' \in [Clients -> HandlerStates]
          BY <1>7 DEF EnsureAgent, Step, TypeOK, HandlerStates
        <4>3. feeds \in [Clients -> ClientOrNone] /\ target \in [Clients -> ClientOrNone]
          BY DEF TypeOK
        <4> QED BY <3>1, <3>2, <4>1, <4>2, <4>3
      <3>4. UNCHANGED <<conn, ptr, receipt, manager, driver, hook, serving, cleanups, lock, up>>
        BY <1>7 DEF EnsureAgent
      <3> QED BY <3>3, <3>4 DEF TypeOK, manager
    <2>2. LocalsSet'
      BY <1>7 DEF EnsureAgent, Step, TypeOK, LocalsSet, Registered, Forget, locals, manager, Slot
    <2> QED BY <2>1, <2>2
  <1>8. ASSUME NEW c \in Clients, WaitCodecParams(c) PROVE TypeOK' /\ LocalsSet'
    <2>1. TypeOK'
      BY <1>8 DEF WaitCodecParams, Step, TypeOK, HandlerStates, ConnStates, DriverStates,
         ClientOrNone, ReceiptOrNone, Forget, locals, manager
    <2>2. LocalsSet'
      BY <1>8 DEF WaitCodecParams, Step, TypeOK, LocalsSet, Registered, Forget, locals, manager
    <2> QED BY <2>1, <2>2
  <1>9. ASSUME NEW c \in Clients, SetAgent(c) PROVE TypeOK' /\ LocalsSet'
    <2>1. TypeOK'
      <3>1. feeds[c] \in Clients
        BY <1>9 DEF SetAgent, StillMissing, Step, TypeOK, LocalsSet, ClientOrNone
      <3>2. /\ hpc' \in [Clients -> HandlerStates]
            /\ driver' \in [Clients -> DriverStates]
            /\ agent' \in [Clients -> ClientOrNone]
            /\ feeds' \in [Clients -> ClientOrNone]
            /\ lock' \in ClientOrNone
        <4>1. \/ /\ feeds' = [feeds EXCEPT ![c] = None]
                 /\ UNCHANGED <<agent, driver, lock>>
              \/ /\ agent'  = [agent EXCEPT ![feeds[c]] = c]
                 /\ driver' = [driver EXCEPT ![c] = "init"]
                 /\ lock'   = c
                 /\ feeds'  = feeds
          BY <1>9 DEF SetAgent, StillMissing, Forget
        <4>2. hpc' \in [Clients -> HandlerStates]
          BY <1>9 DEF SetAgent, StillMissing, Step, TypeOK, HandlerStates
        <4>3. /\ feeds \in [Clients -> ClientOrNone]
              /\ agent \in [Clients -> ClientOrNone]
              /\ driver \in [Clients -> DriverStates]
              /\ lock \in ClientOrNone
          BY DEF TypeOK
        <4>4. c \in ClientOrNone /\ None \in ClientOrNone /\ "init" \in DriverStates
          BY DEF ClientOrNone, DriverStates
        <4> QED BY <4>1, <4>2, <4>3, <4>4
      <3>3. UNCHANGED <<conn, ptr, target, receipt, bcast, counter, subs, hook, serving,
                        cleanups, up>>
        BY <1>9 DEF SetAgent, StillMissing
      <3> QED BY <3>2, <3>3 DEF TypeOK
    <2>2. LocalsSet'
      BY <1>9 DEF SetAgent, StillMissing, Step, TypeOK, LocalsSet, Registered, Forget, locals, manager
    <2> QED BY <2>1, <2>2
  <1>10. ASSUME NEW c \in Clients, InitDriver(c) PROVE TypeOK' /\ LocalsSet'
    <2>1. TypeOK'
      BY <1>10 DEF InitDriver, Step, TypeOK, HandlerStates, ConnStates, DriverStates,
         ClientOrNone, ReceiptOrNone, Forget, locals, manager
    <2>2. LocalsSet'
      BY <1>10 DEF InitDriver, Step, TypeOK, LocalsSet, Registered, Forget, locals, manager
    <2> QED BY <2>1, <2>2
  <1>11. ASSUME NEW c \in Clients, LookupBroadcaster(c) PROVE TypeOK' /\ LocalsSet'
    <2>1. TypeOK'
      <3>1. /\ hpc' \in [Clients -> HandlerStates]
            /\ ptr' \in [Clients -> ClientOrNone]
        BY <1>11, DeviceOfAssumption DEF LookupBroadcaster, Step, TypeOK, HandlerStates, ClientOrNone
      <3>2. UNCHANGED <<conn, feeds, target, receipt, manager, driver, hook, serving,
                        cleanups, lock, up>>
        BY <1>11 DEF LookupBroadcaster
      <3> QED BY <3>1, <3>2 DEF TypeOK, manager
    <2>2. LocalsSet'
      BY <1>11 DEF LookupBroadcaster, Step, TypeOK, LocalsSet, Registered, Forget, locals, manager
    <2> QED BY <2>1, <2>2
  <1>12. ASSUME NEW c \in Clients, Attach(c) PROVE TypeOK' /\ LocalsSet'
    <2>1. TypeOK'
      <3>1. ptr[c] \in ClientOrNone /\ hpc[c] \in Registered
        BY <1>12 DEF Attach, Step, TypeOK, Registered
      <3>2. Slot(ptr[c], c) \in ClientOrNone
        BY <3>1, SlotType
      <3>4. agent[ptr[c]] \in ClientOrNone
        BY <1>12 DEF Attach, Step, TypeOK, LocalsSet, ClientOrNone
      <3>3. /\ hpc' \in [Clients -> HandlerStates]
            /\ target' \in [Clients -> ClientOrNone]
            /\ serving' \in [Clients -> ClientOrNone]
            /\ ptr' \in [Clients -> ClientOrNone]
        <4>1. \/ /\ target'  = [target EXCEPT ![c] = Slot(ptr[c], c)]
                 /\ serving' = [serving EXCEPT ![Slot(ptr[c], c)] = agent[ptr[c]]]
              \/ UNCHANGED <<target, serving>>
          BY <1>12 DEF Attach
        <4>2. hpc' \in [Clients -> HandlerStates] /\ ptr' \in [Clients -> ClientOrNone]
          BY <1>12 DEF Attach, Step, TypeOK, HandlerStates, ClientOrNone, Forget
        <4>3. target \in [Clients -> ClientOrNone] /\ serving \in [Clients -> ClientOrNone]
          BY DEF TypeOK
        <4> QED BY <3>2, <3>4, <4>1, <4>2, <4>3
      <3>5. UNCHANGED <<conn, feeds, receipt, manager, driver, hook, cleanups, lock, up>>
        BY <1>12 DEF Attach
      <3> QED BY <3>3, <3>5 DEF TypeOK, manager
    <2>2. LocalsSet'
      BY <1>12 DEF Attach, Step, TypeOK, LocalsSet, Registered, Forget, locals, manager, Slot
    <2> QED BY <2>1, <2>2
  <1>13. ASSUME NEW c \in Clients, SetCleanup(c) PROVE TypeOK' /\ LocalsSet'
    <2>1. TypeOK'
      BY <1>13 DEF SetCleanup, Step, TypeOK, HandlerStates, ConnStates, DriverStates,
         ClientOrNone, ReceiptOrNone, Forget, locals, manager
    <2>2. LocalsSet'
      BY <1>13 DEF SetCleanup, Step, TypeOK, LocalsSet, Registered, Forget, locals, manager
    <2> QED BY <2>1, <2>2
  <1>14. ASSUME NEW c \in Clients, GetAgent(c) PROVE TypeOK' /\ LocalsSet'
    <2>1. TypeOK'
      BY <1>14 DEF GetAgent, Step, TypeOK, HandlerStates, ConnStates, DriverStates,
         ClientOrNone, ReceiptOrNone, Forget, locals, manager
    <2>2. LocalsSet'
      BY <1>14 DEF GetAgent, Step, TypeOK, LocalsSet, Registered, Forget, locals, manager
    <2> QED BY <2>1, <2>2
  <1>15. ASSUME NEW c \in Clients, UseNilAgent(c) PROVE TypeOK' /\ LocalsSet'
    <2>1. TypeOK'
      BY <1>15 DEF UseNilAgent, Step, TypeOK, HandlerStates, ConnStates, DriverStates,
         ClientOrNone, ReceiptOrNone, Forget, locals, manager
    <2>2. LocalsSet'
      BY <1>15 DEF UseNilAgent, Step, TypeOK, LocalsSet, Registered, Forget, locals, manager
    <2> QED BY <2>1, <2>2
  <1>16. ASSUME NEW c \in Clients, Connect(c) PROVE TypeOK' /\ LocalsSet'
    <2>1. TypeOK'
      BY <1>16 DEF Connect, Step, TypeOK, HandlerStates, ConnStates, DriverStates,
         ClientOrNone, ReceiptOrNone, Forget, locals, manager
    <2>2. LocalsSet'
      BY <1>16 DEF Connect, Step, TypeOK, LocalsSet, Registered, Forget, locals, manager
    <2> QED BY <2>1, <2>2
  <1>17. ASSUME NEW c \in Clients, Disconnect(c) PROVE TypeOK' /\ LocalsSet'
    <2>1. TypeOK'
      BY <1>17 DEF Disconnect, Step, TypeOK, HandlerStates, ConnStates, DriverStates,
         ClientOrNone, ReceiptOrNone, Forget, locals, manager
    <2>2. LocalsSet'
      BY <1>17 DEF Disconnect, Step, TypeOK, LocalsSet, Registered, Forget, locals, manager
    <2> QED BY <2>1, <2>2
  <1>18. ASSUME NEW c \in Clients, IceFails(c) PROVE TypeOK' /\ LocalsSet'
    <2>1. TypeOK'
      <3>1. Notify(c, "failed") \subseteq Cleanup
        BY NotifyType
      <3> QED BY <1>18, <3>1 DEF IceFails, TypeOK, ConnStates, locals, manager
    <2>2. LocalsSet'
      BY <1>18 DEF IceFails, Step, TypeOK, LocalsSet, Registered, Forget, locals, manager
    <2> QED BY <2>1, <2>2
  <1>19. ASSUME NEW c \in Clients, BrowserCloses(c) PROVE TypeOK' /\ LocalsSet'
    <2>1. TypeOK'
      <3>1. conn' \in [Clients -> ConnStates] /\ cleanups' \subseteq Cleanup
        BY <1>19, CloseType DEF BrowserCloses, TypeOK
      <3> QED BY <1>19, <3>1 DEF BrowserCloses, TypeOK, locals, manager
    <2>2. LocalsSet'
      BY <1>19 DEF BrowserCloses, Step, TypeOK, LocalsSet, Registered, Forget, locals, manager
    <2> QED BY <2>1, <2>2
  <1>20. ASSUME NEW k \in cleanups, CleanupClose(k) PROVE TypeOK' /\ LocalsSet'
    <2>1. TypeOK'
      <3> DEFINE others == (cleanups \ {k}) \cup {[k EXCEPT !.step = "remove"]}
      <3>1. k \in Cleanup
        BY DEF TypeOK
      <3>2. others \in SUBSET Cleanup /\ k.conn \in Clients
        BY <3>1 DEF TypeOK, Cleanup
      <3>3. Close(k.conn, others)
        BY <1>20 DEF CleanupClose
      <3> HIDE DEF others
      <3>4. conn' \in [Clients -> ConnStates] /\ cleanups' \subseteq Cleanup
        BY <3>2, <3>3, CloseType
      <3> QED BY <1>20, <3>4 DEF CleanupClose, TypeOK, locals, manager
    <2>2. LocalsSet'
      BY <1>20 DEF CleanupClose, Step, TypeOK, LocalsSet, Registered, Forget, locals, manager
    <2> QED BY <2>1, <2>2
  <1>21. ASSUME NEW k \in cleanups, CleanupRemove(k) PROVE TypeOK' /\ LocalsSet'
    <2>1. TypeOK'
      <3> DEFINE d    == DeviceOf[k.conn]
                 b    == bcast[d]
                 left == [subs[b] EXCEPT ![k.receipt] = None]
      <3>1. k.conn \in Clients /\ k.receipt \in Receipts /\ d \in Devices
        BY DeviceOfAssumption DEF TypeOK, Cleanup
      <3>2. b \in ClientOrNone
        BY <3>1 DEF TypeOK
      <3>3. CASE b = None
        BY <1>21, <3>3 DEF CleanupRemove, Without, NoneLeft, RemoveBroadcaster, TypeOK, locals, manager
      <3>4. CASE b # None
        <4>1. left \in [Receipts -> ClientOrNone] /\ b \in Clients
          BY <3>1, <3>2, <3>4 DEF TypeOK, ClientOrNone
        <4>2. subs' \in [Clients -> [Receipts -> ClientOrNone]]
          BY <1>21, <3>4, <4>1 DEF CleanupRemove, Without, NoneLeft, RemoveBroadcaster, TypeOK
        <4>3. /\ driver' \in [Clients -> DriverStates]
              /\ bcast' \in [Devices -> ClientOrNone]
              /\ counter' \in [Devices -> Receipts]
          <5>1. \/ /\ StopAgent(agent[b])
                   /\ bcast'   = [bcast EXCEPT ![d] = None]
                   /\ counter' = [counter EXCEPT ![d] = 0]
                \/ UNCHANGED <<driver, bcast, counter>>
            BY <1>21, <3>4 DEF CleanupRemove, Without, NoneLeft, RemoveBroadcaster
          <5>2. StopAgent(agent[b]) => driver' \in [Clients -> DriverStates]
            BY DEF StopAgent, TypeOK, DriverStates
          <5> QED BY <3>1, <5>1, <5>2, ZeroReceipt DEF TypeOK, ClientOrNone
        <4> QED BY <1>21, <3>4, <4>2, <4>3 DEF CleanupRemove, Without, NoneLeft, RemoveBroadcaster, TypeOK, locals
      <3> QED BY <3>3, <3>4
    <2>2. LocalsSet'
      BY <1>21 DEF CleanupRemove, Without, NoneLeft, RemoveBroadcaster, Step, TypeOK, LocalsSet, Registered, Forget, locals, manager
    <2> QED BY <2>1, <2>2
  <1>22. CASE UNCHANGED vars
    BY <1>22 DEF vars, locals, manager, TypeOK, LocalsSet, Registered
  <1> QED BY <1>1, <1>2, <1>3, <1>4, <1>5, <1>6, <1>7, <1>8, <1>9, <1>10, <1>11, <1>12, <1>13, <1>14, <1>15, <1>16, <1>17, <1>18, <1>19, <1>20, <1>21, <1>22 DEF Next, HandlerStep, NetworkStep, CleanupStep

-----------------------------------------------------------------------------
(* The lock and the agents.                                                *)

\* The lock is held by the handler inside InitDriver only, and every agent stays the
\* agent of the broadcaster it was created for.
LEMMA LockStep ==
  TypeOK /\ LocalsSet /\ LockHeld /\ AgentOwned /\ [Next]_vars => LockHeld' /\ AgentOwned'
  <1> SUFFICES ASSUME TypeOK, LocalsSet, LockHeld, AgentOwned, [Next]_vars
               PROVE  LockHeld' /\ AgentOwned'
    OBVIOUS
  <1>0. /\ hpc \in [Clients -> HandlerStates]
        /\ feeds \in [Clients -> Clients \cup {None}]
        /\ agent \in [Clients -> Clients \cup {None}]
        /\ driver \in [Clients -> DriverStates]
        /\ lock \in Clients \cup {None}
        /\ cleanups \subseteq Cleanup
    BY DEF TypeOK, ClientOrNone
  <1>1. ASSUME NEW c \in Clients, HandshakeFails(c), up PROVE LockHeld' /\ AgentOwned'
    <2>1. LockHeld'
      BY <1>0, <1>1, NoneAssumption DEF HandshakeFails, Step, LockHeld, AgentOwned, BeforeAgent, LocalsSet, Forget, locals, manager
    <2>2. AgentOwned'
      BY <1>0, <1>1, NoneAssumption DEF HandshakeFails, Step, LockHeld, AgentOwned, BeforeAgent, LocalsSet, Forget, locals, manager
    <2> QED BY <2>1, <2>2
  <1>2. ASSUME NEW c \in Clients, GetOrCreateBroadcaster(c), up PROVE LockHeld' /\ AgentOwned'
    <2>1. LockHeld'
      BY <1>0, <1>2, NoneAssumption DEF GetOrCreateBroadcaster, Step, LockHeld, AgentOwned, BeforeAgent, LocalsSet, Forget, locals, manager
    <2>2. AgentOwned'
      BY <1>0, <1>2, NoneAssumption DEF GetOrCreateBroadcaster, Step, LockHeld, AgentOwned, BeforeAgent, LocalsSet, Forget, locals, manager
    <2> QED BY <2>1, <2>2
  <1>3. ASSUME NEW c \in Clients, Negotiate(c), up PROVE LockHeld' /\ AgentOwned'
    <2>1. LockHeld'
      BY <1>0, <1>3, NoneAssumption DEF Negotiate, Step, LockHeld, AgentOwned, BeforeAgent, LocalsSet, Forget, locals, manager
    <2>2. AgentOwned'
      BY <1>0, <1>3, NoneAssumption DEF Negotiate, Step, LockHeld, AgentOwned, BeforeAgent, LocalsSet, Forget, locals, manager
    <2> QED BY <2>1, <2>2
  <1>4. ASSUME NEW c \in Clients, RegisterSubscriber(c), up PROVE LockHeld' /\ AgentOwned'
    <2>1. LockHeld'
      BY <1>0, <1>4, NoneAssumption DEF RegisterSubscriber, WithEntry, Step, LockHeld, AgentOwned, BeforeAgent, LocalsSet, Forget, locals, manager
    <2>2. AgentOwned'
      BY <1>0, <1>4, NoneAssumption DEF RegisterSubscriber, WithEntry, Step, LockHeld, AgentOwned, BeforeAgent, LocalsSet, Forget, locals, manager
    <2> QED BY <2>1, <2>2
  <1>5. ASSUME NEW c \in Clients, GetSubscriber(c), up PROVE LockHeld' /\ AgentOwned'
    <2>1. LockHeld'
      BY <1>0, <1>5, NoneAssumption DEF GetSubscriber, Step, LockHeld, AgentOwned, BeforeAgent, LocalsSet, Forget, locals, manager
    <2>2. AgentOwned'
      BY <1>0, <1>5, NoneAssumption DEF GetSubscriber, Step, LockHeld, AgentOwned, BeforeAgent, LocalsSet, Forget, locals, manager
    <2> QED BY <2>1, <2>2
  <1>6. ASSUME NEW c \in Clients, PollConnectionState(c), up PROVE LockHeld' /\ AgentOwned'
    <2>1. LockHeld'
      BY <1>0, <1>6, NoneAssumption DEF PollConnectionState, Dead, Step, LockHeld, AgentOwned, BeforeAgent, LocalsSet, Forget, locals, manager
    <2>2. AgentOwned'
      BY <1>0, <1>6, NoneAssumption DEF PollConnectionState, Dead, Step, LockHeld, AgentOwned, BeforeAgent, LocalsSet, Forget, locals, manager
    <2> QED BY <2>1, <2>2
  <1>7. ASSUME NEW c \in Clients, EnsureAgent(c), up PROVE LockHeld' /\ AgentOwned'
    <2>1. LockHeld'
      BY <1>0, <1>7, NoneAssumption DEF EnsureAgent, Step, LockHeld, AgentOwned, BeforeAgent, LocalsSet, Forget, locals, manager
    <2>2. AgentOwned'
      BY <1>0, <1>7, NoneAssumption DEF EnsureAgent, Step, LockHeld, AgentOwned, BeforeAgent, LocalsSet, Forget, locals, manager
    <2> QED BY <2>1, <2>2
  <1>8. ASSUME NEW c \in Clients, WaitCodecParams(c), up PROVE LockHeld' /\ AgentOwned'
    <2>1. LockHeld'
      BY <1>0, <1>8, NoneAssumption DEF WaitCodecParams, Step, LockHeld, AgentOwned, BeforeAgent, LocalsSet, Forget, locals, manager
    <2>2. AgentOwned'
      BY <1>0, <1>8, NoneAssumption DEF WaitCodecParams, Step, LockHeld, AgentOwned, BeforeAgent, LocalsSet, Forget, locals, manager
    <2> QED BY <2>1, <2>2
  <1>9. ASSUME NEW c \in Clients, SetAgent(c), up PROVE LockHeld' /\ AgentOwned'
    <2>1. LockHeld'
      BY <1>0, <1>9, NoneAssumption DEF SetAgent, StillMissing, Step, LockHeld, AgentOwned, BeforeAgent, LocalsSet, Forget, locals, manager
    <2>2. AgentOwned'
      BY <1>0, <1>9, NoneAssumption DEF SetAgent, StillMissing, Step, LockHeld, AgentOwned, BeforeAgent, LocalsSet, Forget, locals, manager
    <2> QED BY <2>1, <2>2
  <1>10. ASSUME NEW c \in Clients, InitDriver(c), up PROVE LockHeld' /\ AgentOwned'
    <2>1. /\ hpc[c] = "initDriver" /\ hpc' = [hpc EXCEPT ![c] = "start"]
          /\ lock' = None
          /\ UNCHANGED <<feeds, agent>>
      BY <1>10 DEF InitDriver, Step, locals, manager
    <2>2. /\ driver' = [driver EXCEPT ![c] = "running"] \/ driver' = driver
          /\ driver' = driver => ~up'
      <3>1. CASE driver' = [driver EXCEPT ![c] = "running"] /\ up' = up
        <4>1. driver[c] = "init"
          BY <2>1 DEF LockHeld
        <4>2. driver'[c] = "running"
          BY <1>0, <3>1
        <4> QED BY <3>1, <4>1, <4>2
      <3>2. CASE driver' = driver /\ up' = FALSE
        BY <3>2
      <3> QED BY <1>10, <3>1, <3>2 DEF InitDriver
    <2>3. \A x \in Clients : hpc[x] = "initDriver" => x = c
      BY <1>0, <2>1 DEF LockHeld
    <2>4. LockHeld'
      <3>1. \A x \in Clients : hpc'[x] # "initDriver"
        BY <1>0, <2>1, <2>3
      <3>2. \A x \in Clients : driver[x] = "init" => x = c
        BY <1>10, <2>3 DEF LockHeld
      <3>3. up' => \A x \in Clients : driver'[x] # "init"
        BY <1>0, <2>2, <3>2
      <3> QED BY <2>1, <3>1, <3>3, Zenon DEF LockHeld
    <2>5. AgentOwned'
      <3>1. driver[c] # "none"
        BY <2>1 DEF LockHeld
      <3>2. \A x \in Clients : driver'[x] = "none" <=> driver[x] = "none"
        BY <1>0, <2>2, <3>1
      <3>3. \A x \in Clients : hpc'[x] \in BeforeAgent => hpc[x] \in BeforeAgent
        BY <1>0, <2>1 DEF BeforeAgent
      <3> QED BY <1>0, <2>1, <3>2, <3>3, NoneAssumption DEF AgentOwned
    <2> QED BY <2>4, <2>5
  <1>11. ASSUME NEW c \in Clients, LookupBroadcaster(c), up PROVE LockHeld' /\ AgentOwned'
    <2>1. LockHeld'
      BY <1>0, <1>11, NoneAssumption DEF LookupBroadcaster, Step, LockHeld, AgentOwned, BeforeAgent, LocalsSet, Forget, locals, manager
    <2>2. AgentOwned'
      BY <1>0, <1>11, NoneAssumption DEF LookupBroadcaster, Step, LockHeld, AgentOwned, BeforeAgent, LocalsSet, Forget, locals, manager
    <2> QED BY <2>1, <2>2
  <1>12. ASSUME NEW c \in Clients, Attach(c), up PROVE LockHeld' /\ AgentOwned'
    <2>1. LockHeld'
      BY <1>0, <1>12, NoneAssumption DEF Attach, Step, LockHeld, AgentOwned, BeforeAgent, LocalsSet, Forget, locals, manager
    <2>2. AgentOwned'
      BY <1>0, <1>12, NoneAssumption DEF Attach, Step, LockHeld, AgentOwned, BeforeAgent, LocalsSet, Forget, locals, manager
    <2> QED BY <2>1, <2>2
  <1>13. ASSUME NEW c \in Clients, SetCleanup(c), up PROVE LockHeld' /\ AgentOwned'
    <2>1. LockHeld'
      BY <1>0, <1>13, NoneAssumption DEF SetCleanup, Step, LockHeld, AgentOwned, BeforeAgent, LocalsSet, Forget, locals, manager
    <2>2. AgentOwned'
      BY <1>0, <1>13, NoneAssumption DEF SetCleanup, Step, LockHeld, AgentOwned, BeforeAgent, LocalsSet, Forget, locals, manager
    <2> QED BY <2>1, <2>2
  <1>14. ASSUME NEW c \in Clients, GetAgent(c), up PROVE LockHeld' /\ AgentOwned'
    <2>1. LockHeld'
      BY <1>0, <1>14, NoneAssumption DEF GetAgent, Step, LockHeld, AgentOwned, BeforeAgent, LocalsSet, Forget, locals, manager
    <2>2. AgentOwned'
      BY <1>0, <1>14, NoneAssumption DEF GetAgent, Step, LockHeld, AgentOwned, BeforeAgent, LocalsSet, Forget, locals, manager
    <2> QED BY <2>1, <2>2
  <1>15. ASSUME NEW c \in Clients, UseNilAgent(c), up PROVE LockHeld' /\ AgentOwned'
    <2>1. LockHeld'
      BY <1>0, <1>15, NoneAssumption DEF UseNilAgent, Step, LockHeld, AgentOwned, BeforeAgent, LocalsSet, Forget, locals, manager
    <2>2. AgentOwned'
      BY <1>0, <1>15, NoneAssumption DEF UseNilAgent, Step, LockHeld, AgentOwned, BeforeAgent, LocalsSet, Forget, locals, manager
    <2> QED BY <2>1, <2>2
  <1>16. ASSUME NEW c \in Clients, Connect(c), up PROVE LockHeld' /\ AgentOwned'
    <2>1. LockHeld'
      BY <1>0, <1>16, NoneAssumption DEF Connect, Step, LockHeld, AgentOwned, BeforeAgent, LocalsSet, Forget, locals, manager
    <2>2. AgentOwned'
      BY <1>0, <1>16, NoneAssumption DEF Connect, Step, LockHeld, AgentOwned, BeforeAgent, LocalsSet, Forget, locals, manager
    <2> QED BY <2>1, <2>2
  <1>17. ASSUME NEW c \in Clients, Disconnect(c), up PROVE LockHeld' /\ AgentOwned'
    <2>1. LockHeld'
      BY <1>0, <1>17, NoneAssumption DEF Disconnect, Step, LockHeld, AgentOwned, BeforeAgent, LocalsSet, Forget, locals, manager
    <2>2. AgentOwned'
      BY <1>0, <1>17, NoneAssumption DEF Disconnect, Step, LockHeld, AgentOwned, BeforeAgent, LocalsSet, Forget, locals, manager
    <2> QED BY <2>1, <2>2
  <1>18. ASSUME NEW c \in Clients, IceFails(c), up PROVE LockHeld' /\ AgentOwned'
    <2>1. LockHeld'
      BY <1>0, <1>18, NoneAssumption DEF IceFails, Step, LockHeld, AgentOwned, BeforeAgent, LocalsSet, Forget, locals, manager
    <2>2. AgentOwned'
      BY <1>0, <1>18, NoneAssumption DEF IceFails, Step, LockHeld, AgentOwned, BeforeAgent, LocalsSet, Forget, locals, manager
    <2> QED BY <2>1, <2>2
  <1>19. ASSUME NEW c \in Clients, BrowserCloses(c), up PROVE LockHeld' /\ AgentOwned'
    <2>1. LockHeld'
      BY <1>0, <1>19, NoneAssumption DEF BrowserCloses, Step, LockHeld, AgentOwned, BeforeAgent, LocalsSet, Forget, locals, manager
    <2>2. AgentOwned'
      BY <1>0, <1>19, NoneAssumption DEF BrowserCloses, Step, LockHeld, AgentOwned, BeforeAgent, LocalsSet, Forget, locals, manager
    <2> QED BY <2>1, <2>2
  <1>20. ASSUME NEW k \in cleanups, CleanupClose(k), up PROVE LockHeld' /\ AgentOwned'
    <2>1. LockHeld'
      BY <1>0, <1>20, NoneAssumption DEF CleanupClose, Step, LockHeld, AgentOwned, BeforeAgent, LocalsSet, Forget, locals, manager
    <2>2. AgentOwned'
      BY <1>0, <1>20, NoneAssumption DEF CleanupClose, Step, LockHeld, AgentOwned, BeforeAgent, LocalsSet, Forget, locals, manager
    <2> QED BY <2>1, <2>2
  <1>21. ASSUME NEW k \in cleanups, CleanupRemove(k), up PROVE LockHeld' /\ AgentOwned'
    <2>1. LockHeld'
      BY <1>0, <1>21, NoneAssumption DEF CleanupRemove, Without, NoneLeft, RemoveBroadcaster, Step, LockHeld, AgentOwned, BeforeAgent, LocalsSet, Forget, locals, manager, StopAgent
    <2>2. AgentOwned'
      BY <1>0, <1>21, NoneAssumption DEF CleanupRemove, Without, NoneLeft, RemoveBroadcaster, Step, LockHeld, AgentOwned, BeforeAgent, LocalsSet, Forget, locals, manager, StopAgent
    <2> QED BY <2>1, <2>2
  <1>22. CASE UNCHANGED vars
    BY <1>22 DEF vars, locals, manager, LockHeld, AgentOwned
  <1> QED BY <1>1, <1>2, <1>3, <1>4, <1>5, <1>6, <1>7, <1>8, <1>9, <1>10, <1>11, <1>12, <1>13, <1>14, <1>15, <1>16, <1>17, <1>18, <1>19, <1>20, <1>21, <1>22 DEF Next, HandlerStep, NetworkStep, CleanupStep

-----------------------------------------------------------------------------
(* The map of broadcasters.                                                *)

\* A step that leaves broadcasters and agents alone and makes no new claim.
LEMMA MapQuiet ==
  ASSUME MapConsistent, UNCHANGED <<bcast, subs, agent, driver>>,
         bcast \in [Devices -> Clients \cup {None}],
         \A x \in Clients :
           /\ feeds'[x] \in {feeds[x], None}
           /\ hpc'[x] \in {"codec", "setAgent"} /\ feeds'[x] # None =>
                hpc[x] \in {"codec", "setAgent"}
  PROVE  MapConsistent'
  BY DEF MapConsistent, Claimed

\* Broadcasters enter the map once; one with an agent keeps a subscriber, and leaves
\* the map when its agent stops.
LEMMA MapStep ==
  InductiveInv /\ [Next]_vars => BroadcasterCreatedOnce' /\ MapConsistent'
  <1> SUFFICES ASSUME InductiveInv, [Next]_vars
               PROVE  BroadcasterCreatedOnce' /\ MapConsistent'
    OBVIOUS
  <1>0. /\ hpc \in [Clients -> HandlerStates]
        /\ ptr \in [Clients -> Clients \cup {None}]
        /\ feeds \in [Clients -> Clients \cup {None}]
        /\ receipt \in [Clients -> Receipts \cup {None}]
        /\ agent \in [Clients -> Clients \cup {None}]
        /\ driver \in [Clients -> DriverStates]
        /\ bcast \in [Devices -> Clients \cup {None}]
        /\ counter \in [Devices -> Receipts]
        /\ subs \in [Clients -> [Receipts -> Clients \cup {None}]]
        /\ lock \in Clients \cup {None}
        /\ cleanups \subseteq Cleanup
    BY DEF InductiveInv, TypeOK, ClientOrNone, ReceiptOrNone
  <1>00. LocalsSet /\ LockHeld /\ AgentOwned /\ BroadcasterCreatedOnce /\ MapConsistent
    BY DEF InductiveInv
  <1>1. ASSUME NEW c \in Clients, HandshakeFails(c), up PROVE BroadcasterCreatedOnce' /\ MapConsistent'
    <2>1. BroadcasterCreatedOnce'
      BY <1>0, <1>00, <1>1, NoneAssumption, DeviceOfAssumption
      DEF HandshakeFails, Step, BroadcasterCreatedOnce, LocalsSet, Forget, locals, manager
    <2>2. MapConsistent'
      BY <1>0, <1>00, <1>1, MapQuiet DEF HandshakeFails, Step, Forget, locals, manager
    <2> QED BY <2>1, <2>2
  <1>2. ASSUME NEW c \in Clients, GetOrCreateBroadcaster(c), up PROVE BroadcasterCreatedOnce' /\ MapConsistent'
    <2>1. BroadcasterCreatedOnce'
      <3>1. /\ hpc' = [hpc EXCEPT ![c] = "negotiate"] \/ hpc' = [hpc EXCEPT ![c] = "done"]
            /\ bcast' = bcast \/ (/\ hpc' = [hpc EXCEPT ![c] = "negotiate"]
                                  /\ bcast' = [bcast EXCEPT ![DeviceOf[c]] = c])
            /\ UNCHANGED feeds
        BY <1>2 DEF GetOrCreateBroadcaster, Step
      <3>2. \A x \in Clients : hpc[x] # "idle" => hpc'[x] # "idle"
        BY <1>0, <3>1
      <3>3. \A x \in Clients : feeds'[x] # None => hpc'[feeds'[x]] # "idle"
        BY <1>0, <1>00, <3>1, <3>2 DEF BroadcasterCreatedOnce
      <3>4. CASE bcast' = bcast
        BY <1>0, <1>00, <3>2, <3>3, <3>4 DEF BroadcasterCreatedOnce
      <3>5. CASE /\ hpc' = [hpc EXCEPT ![c] = "negotiate"]
                 /\ bcast' = [bcast EXCEPT ![DeviceOf[c]] = c]
        <4>1. hpc'[c] # "idle"
          BY <1>0, <3>5
        <4> QED BY <1>0, <1>00, <3>2, <3>3, <3>5, <4>1 DEF BroadcasterCreatedOnce
      <3> QED BY <3>1, <3>4, <3>5
    <2>2. MapConsistent'
      <3> DEFINE d == DeviceOf[c]
      <3>1. /\ hpc[c] = "idle" /\ d \in Devices
            /\ hpc' = [hpc EXCEPT ![c] = "negotiate"] \/ hpc' = [hpc EXCEPT ![c] = "done"]
            /\ UNCHANGED <<feeds, subs, agent, driver>>
        BY <1>2, DeviceOfAssumption DEF GetOrCreateBroadcaster, Step
      <3>2. CASE bcast' = bcast
        BY <1>0, <1>00, <3>1, <3>2, MapQuiet
      <3>3. CASE bcast' = [bcast EXCEPT ![d] = c]
        <4>1. \A x \in Clients : feeds[x] # c
          BY <1>0, <1>00, <3>1, NoneAssumption DEF BroadcasterCreatedOnce
        <4>2. agent[c] = None
          BY <1>0, <1>00, <4>1 DEF AgentOwned
        <4>3. ~Claimed(c)'
          BY <3>1, <4>1, <4>2 DEF Claimed
        <4>4. \A b \in Clients : Claimed(b)' => Claimed(b)
          BY <1>0, <3>1 DEF Claimed
        <4> QED BY <1>0, <1>00, <3>1, <3>3, <4>1, <4>3, <4>4 DEF MapConsistent
      <3> QED BY <1>2, <3>2, <3>3 DEF GetOrCreateBroadcaster
    <2> QED BY <2>1, <2>2
  <1>3. ASSUME NEW c \in Clients, Negotiate(c), up PROVE BroadcasterCreatedOnce' /\ MapConsistent'
    <2>1. BroadcasterCreatedOnce'
      BY <1>0, <1>00, <1>3, NoneAssumption, DeviceOfAssumption
      DEF Negotiate, Step, BroadcasterCreatedOnce, LocalsSet, Forget, locals, manager
    <2>2. MapConsistent'
      BY <1>0, <1>00, <1>3, MapQuiet DEF Negotiate, Step, Forget, locals, manager
    <2> QED BY <2>1, <2>2
  <1>4. ASSUME NEW c \in Clients, RegisterSubscriber(c), up PROVE BroadcasterCreatedOnce' /\ MapConsistent'
    <2>1. BroadcasterCreatedOnce'
      BY <1>0, <1>00, <1>4, NoneAssumption, DeviceOfAssumption
      DEF RegisterSubscriber, WithEntry, Step, BroadcasterCreatedOnce, LocalsSet, Forget, locals, manager
    <2>2. MapConsistent'
      <3>1. /\ UNCHANGED <<bcast, feeds, agent, driver>>
            /\ hpc[c] = "register" /\ hpc' = [hpc EXCEPT ![c] = "lookup"]
            /\ subs' = [subs EXCEPT ![ptr[c]] = [@ EXCEPT ![counter[DeviceOf[c]]] = c]]
        BY <1>4 DEF RegisterSubscriber, WithEntry, Step
      <3>2. \A b \in Clients : Claimed(b)' => Claimed(b)
        BY <1>0, <3>1 DEF Claimed
      <3>3. \A b \in Clients, r \in Receipts : subs[b][r] # None => subs'[b][r] # None
        BY <1>0, <3>1, NoneAssumption
      <3> QED BY <1>0, <1>00, <3>1, <3>2, <3>3 DEF MapConsistent
    <2> QED BY <2>1, <2>2
  <1>5. ASSUME NEW c \in Clients, GetSubscriber(c), up PROVE BroadcasterCreatedOnce' /\ MapConsistent'
    <2>1. BroadcasterCreatedOnce'
      BY <1>0, <1>00, <1>5, NoneAssumption, DeviceOfAssumption
      DEF GetSubscriber, Step, BroadcasterCreatedOnce, LocalsSet, Forget, locals, manager
    <2>2. MapConsistent'
      BY <1>0, <1>00, <1>5, MapQuiet DEF GetSubscriber, Step, Forget, locals, manager
    <2> QED BY <2>1, <2>2
  <1>6. ASSUME NEW c \in Clients, PollConnectionState(c), up PROVE BroadcasterCreatedOnce' /\ MapConsistent'
    <2>1. BroadcasterCreatedOnce'
      BY <1>0, <1>00, <1>6, NoneAssumption, DeviceOfAssumption
      DEF PollConnectionState, Dead, Step, BroadcasterCreatedOnce, LocalsSet, Forget, locals, manager
    <2>2. MapConsistent'
      BY <1>0, <1>00, <1>6, MapQuiet DEF PollConnectionState, Dead, Step, Forget, locals, manager
    <2> QED BY <2>1, <2>2
  <1>7. ASSUME NEW c \in Clients, EnsureAgent(c), up PROVE BroadcasterCreatedOnce' /\ MapConsistent'
    <2>1. BroadcasterCreatedOnce'
      BY <1>0, <1>00, <1>7, NoneAssumption, DeviceOfAssumption
      DEF EnsureAgent, Step, BroadcasterCreatedOnce, LocalsSet, Forget, locals, manager, Slot
    <2>2. MapConsistent'
      <3> DEFINE b == bcast[DeviceOf[c]]
      <3>1. CASE UNCHANGED feeds /\ hpc' = [hpc EXCEPT ![c] = "done"]
        BY <1>0, <1>00, <1>7, <3>1, MapQuiet DEF EnsureAgent, manager
      <3>2. CASE UNCHANGED feeds /\ hpc' = [hpc EXCEPT ![c] = "start"]
        BY <1>0, <1>00, <1>7, <3>2, MapQuiet DEF EnsureAgent, manager
      <3>3. CASE /\ hpc[c] = "ensure" /\ hpc' = [hpc EXCEPT ![c] = "codec"]
                 /\ b # None
                 /\ Slot(b, c) # None
                 /\ feeds' = [feeds EXCEPT ![c] = b]
        <4>1. UNCHANGED <<bcast, subs, agent, driver>>
          BY <1>7 DEF EnsureAgent, manager
        <4>2. receipt[c] \in Receipts
          BY <1>0, <1>00, <3>3 DEF LocalsSet, Registered
        <4>3. \E r \in Receipts : subs[b][r] # None
          BY <3>3, <4>2 DEF Slot
        <4>4. \A x \in Clients : Claimed(x)' => Claimed(x) \/ x = b
          BY <1>0, <3>3, <4>1 DEF Claimed
        <4>5. driver[c] = "none"
          BY <1>00, <3>3 DEF AgentOwned, BeforeAgent
        <4> QED BY <1>0, <1>00, <3>3, <4>1, <4>3, <4>4, <4>5 DEF MapConsistent
      <3> QED BY <1>7, <3>1, <3>2, <3>3 DEF EnsureAgent, Step
    <2> QED BY <2>1, <2>2
  <1>8. ASSUME NEW c \in Clients, WaitCodecParams(c), up PROVE BroadcasterCreatedOnce' /\ MapConsistent'
    <2>1. BroadcasterCreatedOnce'
      BY <1>0, <1>00, <1>8, NoneAssumption, DeviceOfAssumption
      DEF WaitCodecParams, Step, BroadcasterCreatedOnce, LocalsSet, Forget, locals, manager
    <2>2. MapConsistent'
      BY <1>0, <1>00, <1>8, MapQuiet DEF WaitCodecParams, Step, Forget, locals, manager
    <2> QED BY <2>1, <2>2
  <1>9. ASSUME NEW c \in Clients, SetAgent(c), up PROVE BroadcasterCreatedOnce' /\ MapConsistent'
    <2>1. BroadcasterCreatedOnce'
      BY <1>0, <1>00, <1>9, NoneAssumption, DeviceOfAssumption
      DEF SetAgent, StillMissing, Step, BroadcasterCreatedOnce, LocalsSet, Forget, locals, manager
    <2>2. MapConsistent'
      <3>1. hpc[c] = "setAgent" /\ UNCHANGED <<bcast, subs>>
        BY <1>9 DEF SetAgent, StillMissing, Step
      <3>2. CASE /\ hpc' = [hpc EXCEPT ![c] = "start"]
                 /\ feeds' = [feeds EXCEPT ![c] = None]
                 /\ UNCHANGED <<agent, driver>>
        BY <1>0, <1>00, <3>1, <3>2, MapQuiet
      <3>3. CASE /\ hpc' = [hpc EXCEPT ![c] = "initDriver"]
                 /\ agent' = [agent EXCEPT ![feeds[c]] = c]
                 /\ driver' = [driver EXCEPT ![c] = "init"]
                 /\ feeds' = feeds
        <4>1. \A b \in Clients : Claimed(b)' => Claimed(b)
          BY <1>0, <3>1, <3>3 DEF Claimed
        <4>2. \A a \in Clients : driver'[a] = "stopped" => driver[a] = "stopped"
          BY <1>0, <3>3
        <4> QED BY <1>0, <1>00, <3>1, <3>3, <4>1, <4>2 DEF MapConsistent
      <3> QED BY <1>9, <3>2, <3>3 DEF SetAgent, StillMissing, Step, Forget
    <2> QED BY <2>1, <2>2
  <1>10. ASSUME NEW c \in Clients, InitDriver(c), up PROVE BroadcasterCreatedOnce' /\ MapConsistent'
    <2>1. BroadcasterCreatedOnce'
      BY <1>0, <1>00, <1>10, NoneAssumption, DeviceOfAssumption
      DEF InitDriver, Step, BroadcasterCreatedOnce, LocalsSet, Forget, locals, manager
    <2>2. MapConsistent'
      <3>1. /\ hpc[c] = "initDriver" /\ hpc' = [hpc EXCEPT ![c] = "start"]
            /\ driver' = [driver EXCEPT ![c] = "running"] \/ driver' = driver
            /\ UNCHANGED <<bcast, subs, agent, feeds>>
        BY <1>10 DEF InitDriver, Step, locals, manager
      <3>2. \A b \in Clients : Claimed(b)' => Claimed(b)
        BY <1>0, <3>1 DEF Claimed
      <3>3. \A a \in Clients : driver'[a] = "stopped" => driver[a] = "stopped"
        BY <1>0, <3>1
      <3> QED BY <1>0, <1>00, <3>1, <3>2, <3>3 DEF MapConsistent
    <2> QED BY <2>1, <2>2
  <1>11. ASSUME NEW c \in Clients, LookupBroadcaster(c), up PROVE BroadcasterCreatedOnce' /\ MapConsistent'
    <2>1. BroadcasterCreatedOnce'
      BY <1>0, <1>00, <1>11, NoneAssumption, DeviceOfAssumption
      DEF LookupBroadcaster, Step, BroadcasterCreatedOnce, LocalsSet, Forget, locals, manager
    <2>2. MapConsistent'
      BY <1>0, <1>00, <1>11, MapQuiet DEF LookupBroadcaster, Step, Forget, locals, manager
    <2> QED BY <2>1, <2>2
  <1>12. ASSUME NEW c \in Clients, Attach(c), up PROVE BroadcasterCreatedOnce' /\ MapConsistent'
    <2>1. BroadcasterCreatedOnce'
      BY <1>0, <1>00, <1>12, NoneAssumption, DeviceOfAssumption
      DEF Attach, Step, BroadcasterCreatedOnce, LocalsSet, Forget, locals, manager
    <2>2. MapConsistent'
      BY <1>0, <1>00, <1>12, MapQuiet DEF Attach, Step, Forget, locals, manager
    <2> QED BY <2>1, <2>2
  <1>13. ASSUME NEW c \in Clients, SetCleanup(c), up PROVE BroadcasterCreatedOnce' /\ MapConsistent'
    <2>1. BroadcasterCreatedOnce'
      BY <1>0, <1>00, <1>13, NoneAssumption, DeviceOfAssumption
      DEF SetCleanup, Step, BroadcasterCreatedOnce, LocalsSet, Forget, locals, manager
    <2>2. MapConsistent'
      BY <1>0, <1>00, <1>13, MapQuiet DEF SetCleanup, Step, Forget, locals, manager
    <2> QED BY <2>1, <2>2
  <1>14. ASSUME NEW c \in Clients, GetAgent(c), up PROVE BroadcasterCreatedOnce' /\ MapConsistent'
    <2>1. BroadcasterCreatedOnce'
      BY <1>0, <1>00, <1>14, NoneAssumption, DeviceOfAssumption
      DEF GetAgent, Step, BroadcasterCreatedOnce, LocalsSet, Forget, locals, manager
    <2>2. MapConsistent'
      BY <1>0, <1>00, <1>14, MapQuiet DEF GetAgent, Step, Forget, locals, manager
    <2> QED BY <2>1, <2>2
  <1>15. ASSUME NEW c \in Clients, UseNilAgent(c), up PROVE BroadcasterCreatedOnce' /\ MapConsistent'
    <2>1. BroadcasterCreatedOnce'
      BY <1>0, <1>00, <1>15, NoneAssumption, DeviceOfAssumption
      DEF UseNilAgent, Step, BroadcasterCreatedOnce, LocalsSet, Forget, locals, manager
    <2>2. MapConsistent'
      BY <1>0, <1>00, <1>15, MapQuiet DEF UseNilAgent, Step, Forget, locals, manager
    <2> QED BY <2>1, <2>2
  <1>16. ASSUME NEW c \in Clients, Connect(c), up PROVE BroadcasterCreatedOnce' /\ MapConsistent'
    <2>1. BroadcasterCreatedOnce'
      BY <1>0, <1>00, <1>16, NoneAssumption, DeviceOfAssumption
      DEF Connect, Step, BroadcasterCreatedOnce, LocalsSet, Forget, locals, manager
    <2>2. MapConsistent'
      BY <1>0, <1>00, <1>16, MapQuiet DEF Connect, Step, Forget, locals, manager
    <2> QED BY <2>1, <2>2
  <1>17. ASSUME NEW c \in Clients, Disconnect(c), up PROVE BroadcasterCreatedOnce' /\ MapConsistent'
    <2>1. BroadcasterCreatedOnce'
      BY <1>0, <1>00, <1>17, NoneAssumption, DeviceOfAssumption
      DEF Disconnect, Step, BroadcasterCreatedOnce, LocalsSet, Forget, locals, manager
    <2>2. MapConsistent'
      BY <1>0, <1>00, <1>17, MapQuiet DEF Disconnect, Step, Forget, locals, manager
    <2> QED BY <2>1, <2>2
  <1>18. ASSUME NEW c \in Clients, IceFails(c), up PROVE BroadcasterCreatedOnce' /\ MapConsistent'
    <2>1. BroadcasterCreatedOnce'
      BY <1>0, <1>00, <1>18, NoneAssumption, DeviceOfAssumption
      DEF IceFails, Step, BroadcasterCreatedOnce, LocalsSet, Forget, locals, manager
    <2>2. MapConsistent'
      BY <1>0, <1>00, <1>18, MapQuiet DEF IceFails, Step, Forget, locals, manager
    <2> QED BY <2>1, <2>2
  <1>19. ASSUME NEW c \in Clients, BrowserCloses(c), up PROVE BroadcasterCreatedOnce' /\ MapConsistent'
    <2>1. BroadcasterCreatedOnce'
      BY <1>0, <1>00, <1>19, NoneAssumption, DeviceOfAssumption
      DEF BrowserCloses, Step, BroadcasterCreatedOnce, LocalsSet, Forget, locals, manager
    <2>2. MapConsistent'
      BY <1>0, <1>00, <1>19, MapQuiet DEF BrowserCloses, Step, Forget, locals, manager
    <2> QED BY <2>1, <2>2
  <1>20. ASSUME NEW k \in cleanups, CleanupClose(k), up PROVE BroadcasterCreatedOnce' /\ MapConsistent'
    <2>1. BroadcasterCreatedOnce'
      BY <1>0, <1>00, <1>20, NoneAssumption, DeviceOfAssumption
      DEF CleanupClose, Step, BroadcasterCreatedOnce, LocalsSet, Forget, locals, manager
    <2>2. MapConsistent'
      BY <1>0, <1>00, <1>20, MapQuiet DEF CleanupClose, Step, Forget, locals, manager
    <2> QED BY <2>1, <2>2
  <1>21. ASSUME NEW k \in cleanups, CleanupRemove(k), up PROVE BroadcasterCreatedOnce' /\ MapConsistent'
    <2>1. BroadcasterCreatedOnce'
      BY <1>0, <1>00, <1>21, NoneAssumption, DeviceOfAssumption
      DEF CleanupRemove, Without, NoneLeft, RemoveBroadcaster, Step, BroadcasterCreatedOnce, LocalsSet, Forget, locals, manager, StopAgent
    <2>2. MapConsistent'
      <3> DEFINE d    == DeviceOf[k.conn]
                 b    == bcast[d]
                 left == [subs[b] EXCEPT ![k.receipt] = None]
      <3>1. k.receipt \in Receipts /\ d \in Devices
        BY <1>0, DeviceOfAssumption DEF Cleanup
      <3>2. UNCHANGED <<hpc, feeds, agent>>
        BY <1>21 DEF CleanupRemove, Without, NoneLeft, RemoveBroadcaster, locals, manager
      <3>3. \A x \in Clients : Claimed(x)' <=> Claimed(x)
        BY <3>2 DEF Claimed
      <3>4. CASE b = None
        BY <1>0, <1>00, <1>21, <3>2, <3>4, MapQuiet DEF CleanupRemove, Without, NoneLeft, RemoveBroadcaster, manager
      <3>5. CASE b # None
        <4>1. subs' = [subs EXCEPT ![b] = left]
          BY <1>21, <3>5 DEF CleanupRemove, Without, NoneLeft, RemoveBroadcaster
        <4>2. b \in Clients /\ DeviceOf[b] = d
          BY <1>0, <1>00, <3>1, <3>5 DEF BroadcasterCreatedOnce
        <4>3. CASE /\ \E r \in Receipts : left[r] # None
                   /\ UNCHANGED <<driver, bcast>>
          <5>1. subs'[b] = left
            BY <1>0, <4>1, <4>2
          <5>2. \A x \in Clients : x # b => subs'[x] = subs[x]
            BY <1>0, <4>1
          <5> QED BY <1>0, <1>00, <3>2, <3>3, <4>3, <5>1, <5>2 DEF MapConsistent
        <4>4. CASE /\ bcast' = [bcast EXCEPT ![d] = None]
                   /\ StopAgent(agent[b])
          <5>1. \A e \in Devices : bcast'[e] # None => bcast'[e] = bcast[e] /\ bcast[e] # b
            BY <1>0, <1>00, <3>1, <4>2, <4>4 DEF BroadcasterCreatedOnce
          <5>2. \A x \in Clients : x # b => subs'[x] = subs[x]
            BY <1>0, <4>1
          <5>3. \A a \in Clients : driver'[a] = "stopped" => driver[a] = "stopped" \/ feeds[a] = b
            BY <1>0, <1>00, <4>2, <4>4 DEF StopAgent, AgentOwned
          <5> HIDE DEF b, d, left
          <5>4. ASSUME NEW e \in Devices, NEW y, y = bcast'[e], y # None
                PROVE  /\ \A a \in Clients : driver'[a] = "stopped" => feeds'[a] # y
                       /\ Claimed(y)' => \E r \in Receipts : subs'[y][r] # None
            <6>1. y = bcast[e] /\ y # b /\ y \in Clients
              BY <1>0, <5>1, <5>4
            <6>2. \A a \in Clients : driver'[a] = "stopped" => feeds'[a] # y
              BY <1>00, <3>2, <5>3, <5>4, <6>1 DEF MapConsistent
            <6>3. Claimed(y) => \E r \in Receipts : subs[y][r] # None
              BY <1>00, <5>4, <6>1 DEF MapConsistent
            <6> QED BY <3>3, <5>2, <6>1, <6>2, <6>3
          <5> QED BY <5>4 DEF MapConsistent
        <4> QED BY <1>21, <3>5, <4>3, <4>4 DEF CleanupRemove, Without, NoneLeft, RemoveBroadcaster
      <3> QED BY <3>4, <3>5
    <2> QED BY <2>1, <2>2
  <1>22. CASE UNCHANGED vars
    BY <1>00, <1>22 DEF vars, locals, manager, BroadcasterCreatedOnce, MapConsistent, Claimed
  <1> QED BY <1>1, <1>2, <1>3, <1>4, <1>5, <1>6, <1>7, <1>8, <1>9, <1>10, <1>11, <1>12, <1>13, <1>14, <1>15, <1>16, <1>17, <1>18, <1>19, <1>20, <1>21, <1>22 DEF Next, HandlerStep, NetworkStep, CleanupStep

-----------------------------------------------------------------------------
(* The entries.                                                            *)

\* A session is entered once, under the number it was given.
LEMMA EntryStep ==
  InductiveInv /\ [Next]_vars => ReceiptOnce' /\ OneEntryPerConnection'
  <1> SUFFICES ASSUME InductiveInv, [Next]_vars
               PROVE  ReceiptOnce' /\ OneEntryPerConnection'
    OBVIOUS
  <1>0. /\ hpc \in [Clients -> HandlerStates]
        /\ ptr \in [Clients -> Clients \cup {None}]
        /\ receipt \in [Clients -> Receipts \cup {None}]
        /\ bcast \in [Devices -> Clients \cup {None}]
        /\ counter \in [Devices -> Receipts]
        /\ subs \in [Clients -> [Receipts -> Clients \cup {None}]]
        /\ cleanups \subseteq Cleanup
    BY DEF InductiveInv, TypeOK, ClientOrNone, ReceiptOrNone
  <1>00. LocalsSet /\ ReceiptOnce /\ OneEntryPerConnection
    BY DEF InductiveInv
  <1>1. ASSUME NEW c \in Clients, HandshakeFails(c) PROVE ReceiptOnce' /\ OneEntryPerConnection'
    BY <1>0, <1>00, <1>1 DEF HandshakeFails, Step, ReceiptOnce, OneEntryPerConnection, locals, manager
  <1>2. ASSUME NEW c \in Clients, GetOrCreateBroadcaster(c) PROVE ReceiptOnce' /\ OneEntryPerConnection'
    BY <1>0, <1>00, <1>2 DEF GetOrCreateBroadcaster, Step, ReceiptOnce, OneEntryPerConnection, locals, manager
  <1>3. ASSUME NEW c \in Clients, Negotiate(c) PROVE ReceiptOnce' /\ OneEntryPerConnection'
    BY <1>0, <1>00, <1>3 DEF Negotiate, Step, ReceiptOnce, OneEntryPerConnection, locals, manager
  <1>4. ASSUME NEW c \in Clients, RegisterSubscriber(c) PROVE ReceiptOnce' /\ OneEntryPerConnection'
    <2> DEFINE d == DeviceOf[c]
               r == counter[d]
    <2>1. /\ hpc[c] = "register" /\ hpc' = [hpc EXCEPT ![c] = "lookup"]
          /\ receipt' = [receipt EXCEPT ![c] = r]
          /\ subs' = [subs EXCEPT ![ptr[c]] = [@ EXCEPT ![r] = c]]
      BY <1>4 DEF RegisterSubscriber, WithEntry, Step
    <2>2. d \in Devices /\ r \in Receipts /\ ptr[c] \in Clients
      BY <1>0, <1>00, <2>1, DeviceOfAssumption DEF LocalsSet
    <2>3. receipt[c] = None
      BY <1>00, <2>1 DEF ReceiptOnce
    <2>4. \A b \in Clients, q \in Receipts : subs[b][q] # c
      BY <1>0, <1>00, <2>3, NoneAssumption DEF OneEntryPerConnection
    <2>5. \A b \in Clients, q \in Receipts :
            subs'[b][q] = IF b = ptr[c] /\ q = r THEN c ELSE subs[b][q]
      BY <1>0, <2>1, <2>2
    <2> HIDE DEF r
    <2>6. ReceiptOnce'
      BY <1>0, <1>00, <2>1 DEF ReceiptOnce
    <2>7. OneEntryPerConnection'
      <3> SUFFICES ASSUME NEW b \in Clients, NEW q \in Receipts, subs'[b][q] # None
                   PROVE  /\ receipt'[subs'[b][q]] = q
                          /\ \A b2 \in Clients \ {b} : subs'[b2][q] # subs'[b][q]
        BY DEF OneEntryPerConnection
      <3>1. CASE b = ptr[c] /\ q = r
        BY <1>0, <2>1, <2>2, <2>4, <2>5, <3>1
      <3>2. CASE ~(b = ptr[c] /\ q = r)
        <4>1. subs'[b][q] = subs[b][q] /\ subs[b][q] \in Clients /\ subs[b][q] # c
          BY <1>0, <2>4, <2>5, <3>2
        <4>2. receipt[subs[b][q]] = q /\ \A b2 \in Clients \ {b} : subs[b2][q] # subs[b][q]
          BY <1>00, <4>1, NoneAssumption DEF OneEntryPerConnection
        <4> QED BY <1>0, <2>1, <2>5, <4>1, <4>2
      <3> QED BY <3>1, <3>2
    <2> QED BY <2>6, <2>7
  <1>5. ASSUME NEW c \in Clients, GetSubscriber(c) PROVE ReceiptOnce' /\ OneEntryPerConnection'
    BY <1>0, <1>00, <1>5 DEF GetSubscriber, Step, ReceiptOnce, OneEntryPerConnection, locals, manager
  <1>6. ASSUME NEW c \in Clients, PollConnectionState(c) PROVE ReceiptOnce' /\ OneEntryPerConnection'
    BY <1>0, <1>00, <1>6 DEF PollConnectionState, Dead, Step, ReceiptOnce, OneEntryPerConnection, locals, manager
  <1>7. ASSUME NEW c \in Clients, EnsureAgent(c) PROVE ReceiptOnce' /\ OneEntryPerConnection'
    BY <1>0, <1>00, <1>7 DEF EnsureAgent, Step, ReceiptOnce, OneEntryPerConnection, locals, manager
  <1>8. ASSUME NEW c \in Clients, WaitCodecParams(c) PROVE ReceiptOnce' /\ OneEntryPerConnection'
    BY <1>0, <1>00, <1>8 DEF WaitCodecParams, Step, ReceiptOnce, OneEntryPerConnection, locals, manager
  <1>9. ASSUME NEW c \in Clients, SetAgent(c) PROVE ReceiptOnce' /\ OneEntryPerConnection'
    BY <1>0, <1>00, <1>9 DEF SetAgent, StillMissing, Step, ReceiptOnce, OneEntryPerConnection, locals, manager
  <1>10. ASSUME NEW c \in Clients, InitDriver(c) PROVE ReceiptOnce' /\ OneEntryPerConnection'
    BY <1>0, <1>00, <1>10 DEF InitDriver, Step, ReceiptOnce, OneEntryPerConnection, locals, manager
  <1>11. ASSUME NEW c \in Clients, LookupBroadcaster(c) PROVE ReceiptOnce' /\ OneEntryPerConnection'
    BY <1>0, <1>00, <1>11 DEF LookupBroadcaster, Step, ReceiptOnce, OneEntryPerConnection, locals, manager
  <1>12. ASSUME NEW c \in Clients, Attach(c) PROVE ReceiptOnce' /\ OneEntryPerConnection'
    BY <1>0, <1>00, <1>12 DEF Attach, Step, ReceiptOnce, OneEntryPerConnection, locals, manager
  <1>13. ASSUME NEW c \in Clients, SetCleanup(c) PROVE ReceiptOnce' /\ OneEntryPerConnection'
    BY <1>0, <1>00, <1>13 DEF SetCleanup, Step, ReceiptOnce, OneEntryPerConnection, locals, manager
  <1>14. ASSUME NEW c \in Clients, GetAgent(c) PROVE ReceiptOnce' /\ OneEntryPerConnection'
    BY <1>0, <1>00, <1>14 DEF GetAgent, Step, ReceiptOnce, OneEntryPerConnection, locals, manager
  <1>15. ASSUME NEW c \in Clients, UseNilAgent(c) PROVE ReceiptOnce' /\ OneEntryPerConnection'
    BY <1>0, <1>00, <1>15 DEF UseNilAgent, Step, ReceiptOnce, OneEntryPerConnection, locals, manager
  <1>16. ASSUME NEW c \in Clients, Connect(c) PROVE ReceiptOnce' /\ OneEntryPerConnection'
    BY <1>0, <1>00, <1>16 DEF Connect, Step, ReceiptOnce, OneEntryPerConnection, locals, manager
  <1>17. ASSUME NEW c \in Clients, Disconnect(c) PROVE ReceiptOnce' /\ OneEntryPerConnection'
    BY <1>0, <1>00, <1>17 DEF Disconnect, Step, ReceiptOnce, OneEntryPerConnection, locals, manager
  <1>18. ASSUME NEW c \in Clients, IceFails(c) PROVE ReceiptOnce' /\ OneEntryPerConnection'
    BY <1>0, <1>00, <1>18 DEF IceFails, Step, ReceiptOnce, OneEntryPerConnection, locals, manager
  <1>19. ASSUME NEW c \in Clients, BrowserCloses(c) PROVE ReceiptOnce' /\ OneEntryPerConnection'
    BY <1>0, <1>00, <1>19 DEF BrowserCloses, Step, ReceiptOnce, OneEntryPerConnection, locals, manager
  <1>20. ASSUME NEW k \in cleanups, CleanupClose(k) PROVE ReceiptOnce' /\ OneEntryPerConnection'
    BY <1>0, <1>00, <1>20 DEF CleanupClose, Step, ReceiptOnce, OneEntryPerConnection, locals, manager
  <1>21. ASSUME NEW k \in cleanups, CleanupRemove(k) PROVE ReceiptOnce' /\ OneEntryPerConnection'
    <2>1. UNCHANGED <<hpc, receipt>>
      BY <1>21 DEF CleanupRemove, Without, NoneLeft, RemoveBroadcaster, locals
    <2>2. \A b \in Clients, q \in Receipts : subs'[b][q] \in {subs[b][q], None}
      <3> DEFINE b   == bcast[DeviceOf[k.conn]]
                 left == [subs[b] EXCEPT ![k.receipt] = None]
      <3>1. subs' = subs \/ subs' = [subs EXCEPT ![b] = left]
        BY <1>21 DEF CleanupRemove, Without, NoneLeft, RemoveBroadcaster, manager
      <3>2. \A q \in Receipts : b \in Clients => left[q] \in {subs[b][q], None}
        BY <1>0
      <3> HIDE DEF b, left
      <3> QED BY <1>0, <3>1, <3>2
    <2>3. ReceiptOnce'
      BY <1>00, <2>1 DEF ReceiptOnce
    <2>4. OneEntryPerConnection'
      BY <1>00, <2>1, <2>2 DEF OneEntryPerConnection
    <2> QED BY <2>3, <2>4
  <1>22. CASE UNCHANGED vars
    BY <1>00, <1>22 DEF vars, locals, manager, ReceiptOnce, OneEntryPerConnection
  <1> QED BY <1>1, <1>2, <1>3, <1>4, <1>5, <1>6, <1>7, <1>8, <1>9, <1>10, <1>11, <1>12, <1>13, <1>14, <1>15, <1>16, <1>17, <1>18, <1>19, <1>20, <1>21, <1>22 DEF Next, HandlerStep, NetworkStep, CleanupStep

-----------------------------------------------------------------------------
(* Theorems.                                                               *)

\* The empty manager satisfies the invariant.
LEMMA InitInductive == Init => InductiveInv
  <1> SUFFICES ASSUME Init PROVE InductiveInv
    OBVIOUS
  <1>1. TypeOK
    BY ZeroReceipt DEF Init, TypeOK, HandlerStates, ConnStates, DriverStates, ClientOrNone,
       ReceiptOrNone, Cleanup
  <1>2. LocalsSet /\ LockHeld /\ AgentOwned /\ ReceiptOnce
    BY DEF Init, LocalsSet, Registered, LockHeld, AgentOwned, BeforeAgent, ReceiptOnce
  <1>3. BroadcasterCreatedOnce /\ MapConsistent /\ OneEntryPerConnection
    BY DEF Init, BroadcasterCreatedOnce, MapConsistent, Claimed, OneEntryPerConnection
  <1> QED BY <1>1, <1>2, <1>3 DEF InductiveInv

\* The conjunction the other theorems follow from is an invariant of the manager.
THEOREM Inductive == Spec => []InductiveInv
  <1>1. InductiveInv /\ [Next]_vars => InductiveInv'
    BY TypeStep, LockStep, MapStep, EntryStep DEF InductiveInv
  <1> QED BY InitInductive, <1>1, PTL DEF Spec

\* Every variable keeps its type, for any number of sessions and devices.
THEOREM TypeCorrect == Spec => []TypeOK
  <1>1. InductiveInv => TypeOK
    BY DEF InductiveInv
  <1> QED BY Inductive, <1>1, PTL

\* ensureAgent's second check is enough: however many handlers find the agent
\* missing, one of them starts it.
THEOREM AgentsUnique == Spec => []OneAgentPerBroadcaster
  <1>1. InductiveInv => OneAgentPerBroadcaster
    BY DEF InductiveInv, OneAgentPerBroadcaster, AgentOwned
  <1> QED BY Inductive, <1>1, PTL

\* The map never leads to an agent whose driver was stopped.
THEOREM StoppedUnreachable == Spec => []StoppedAgentIsUnreachable
  <1>1. InductiveInv => StoppedAgentIsUnreachable
    <2> SUFFICES ASSUME InductiveInv, NEW d \in Devices,
                        bcast[d] # None, agent[bcast[d]] # None
                 PROVE  driver[agent[bcast[d]]] # "stopped"
      BY DEF StoppedAgentIsUnreachable
    <2>1. bcast[d] \in Clients /\ agent[bcast[d]] \in Clients
      BY DEF InductiveInv, TypeOK, ClientOrNone
    <2>2. feeds[agent[bcast[d]]] = bcast[d]
      BY <2>1 DEF InductiveInv, AgentOwned
    <2> QED BY <2>1, <2>2 DEF InductiveInv, MapConsistent
  <1> QED BY Inductive, <1>1, PTL

\* The map never offers an agent that runs for nobody.
THEOREM ReachableServed == Spec => []ReachableAgentHasSubscriber
  <1>1. InductiveInv => ReachableAgentHasSubscriber
    BY DEF InductiveInv, ReachableAgentHasSubscriber, MapConsistent, Claimed
  <1> QED BY Inductive, <1>1, PTL

\* A connection has one entry at most, under its own receipt number.
THEOREM EntriesUnique == Spec => []OneEntryPerConnection
  <1>1. InductiveInv => OneEntryPerConnection
    BY DEF InductiveInv
  <1> QED BY Inductive, <1>1, PTL

\* An agent that leaves the map takes its driver down in the same step, and what
\* has stopped stays stopped: the lock held across InitDriver keeps setCleanup's
\* callback out, and an agent is created once.
THEOREM LifeCycle == Spec => DriverLifeCycle
  <1> DEFINE A == /\ \A d \in Devices :
                       LET b == bcast[d] IN
                       b # None /\ bcast'[d] # b /\ agent[b] # None =>
                         driver[agent[b]] = "running" /\ driver'[agent[b]] = "stopped"
                  /\ \A a \in Clients : driver[a] = "stopped" => driver'[a] = "stopped"
  <1>1. InductiveInv /\ [Next]_vars => [A]_vars
    <2> SUFFICES ASSUME InductiveInv, Next PROVE A
      OBVIOUS
    <2>0. /\ driver \in [Clients -> DriverStates]
          /\ bcast \in [Devices -> Clients \cup {None}]
          /\ agent \in [Clients -> Clients \cup {None}]
          /\ LockHeld /\ AgentOwned /\ MapConsistent
          /\ up
      BY DEF InductiveInv, TypeOK, ClientOrNone, Next
    <2>1. CASE driver' = driver /\ bcast' = bcast
      BY <2>1
    <2>2. ASSUME NEW c \in Clients, SetAgent(c) PROVE A
      <3>1. driver[c] = "none"
        BY <2>0, <2>2 DEF SetAgent, Step, AgentOwned, BeforeAgent
      <3>2. driver' = driver \/ driver' = [driver EXCEPT ![c] = "init"]
        BY <2>2 DEF SetAgent
      <3>3. bcast' = bcast
        BY <2>2 DEF SetAgent
      <3> QED BY <2>0, <3>1, <3>2, <3>3
    <2>3. ASSUME NEW c \in Clients, InitDriver(c) PROVE A
      <3>1. driver[c] = "init"
        BY <2>0, <2>3 DEF InitDriver, Step, LockHeld
      <3>2. driver' = driver \/ driver' = [driver EXCEPT ![c] = "running"]
        BY <2>3 DEF InitDriver
      <3>3. bcast' = bcast
        BY <2>3 DEF InitDriver, manager
      <3> QED BY <2>0, <3>1, <3>2, <3>3
    <2>7. ASSUME NEW c \in Clients, GetOrCreateBroadcaster(c) PROVE A
      <3>1. driver' = driver
        BY <2>7 DEF GetOrCreateBroadcaster
      <3>2. \/ bcast' = bcast
            \/ bcast[DeviceOf[c]] = None /\ bcast' = [bcast EXCEPT ![DeviceOf[c]] = c]
        BY <2>7, Zenon DEF GetOrCreateBroadcaster
      <3> QED BY <2>0, <3>1, <3>2
    <2>4. ASSUME NEW k \in cleanups, CleanupRemove(k) PROVE A
      <3> DEFINE e == DeviceOf[k.conn]
                 y == bcast[e]
      <3>1. lock = None
        BY <2>4 DEF CleanupRemove
      <3>2. \A a \in Clients : driver[a] # "init"
        BY <2>0, <3>1, NoneAssumption DEF LockHeld
      <3>3. \A a \in Clients : driver[a] = "stopped" => driver'[a] = "stopped"
        BY <2>0, <2>4 DEF CleanupRemove, StopAgent
      <3>4. CASE bcast' = bcast
        BY <3>3, <3>4
      <3>5. CASE bcast' # bcast
        <4>1. /\ StopAgent(agent[y])
              /\ bcast' = [bcast EXCEPT ![e] = None]
          BY <2>4, <3>5 DEF CleanupRemove, RemoveBroadcaster, manager
        <4>2. SUFFICES ASSUME NEW d \in Devices, bcast[d] # None, bcast'[d] # bcast[d],
                              agent[bcast[d]] # None
                       PROVE  /\ driver[agent[bcast[d]]] = "running"
                              /\ driver'[agent[bcast[d]]] = "stopped"
          BY <3>3
        <4>3. d = e
          BY <2>0, <4>1, <4>2
        <4>4. y \in Clients /\ agent[y] \in Clients
          BY <2>0, <4>2, <4>3
        <4>5. driver[agent[y]] # "none" /\ feeds[agent[y]] = y
          BY <2>0, <4>2, <4>3, <4>4 DEF AgentOwned
        <4>6. driver[agent[y]] # "stopped"
          BY <2>0, <4>2, <4>3, <4>4, <4>5 DEF MapConsistent
        <4>7. driver[agent[y]] = "running"
          BY <2>0, <3>2, <4>4, <4>5, <4>6 DEF DriverStates
        <4>8. driver'[agent[y]] = "stopped"
          BY <2>0, <4>1, <4>2, <4>3, <4>4, <4>7 DEF StopAgent
        <4> QED BY <4>3, <4>7, <4>8
      <3> QED BY <3>4, <3>5
    <2>5. ASSUME NEW c \in Clients,
                 \/ HandlerStep(c) /\ ~SetAgent(c) /\ ~InitDriver(c) /\ ~GetOrCreateBroadcaster(c)
                 \/ UseNilAgent(c)
                 \/ NetworkStep(c)
          PROVE  driver' = driver /\ bcast' = bcast
      BY <2>5 DEF HandlerStep, NetworkStep, HandshakeFails, Negotiate, RegisterSubscriber, GetSubscriber, PollConnectionState, EnsureAgent, WaitCodecParams, LookupBroadcaster, Attach, SetCleanup, GetAgent, UseNilAgent, Connect, Disconnect, IceFails, BrowserCloses, manager
    <2>6. ASSUME NEW k \in cleanups, CleanupClose(k) PROVE driver' = driver /\ bcast' = bcast
      BY <2>6 DEF CleanupClose, manager
    <2> HIDE DEF A
    <2> QED BY <2>1, <2>2, <2>3, <2>4, <2>5, <2>6, <2>7 DEF Next, CleanupStep, HandlerStep
  <1>2. [][A]_vars => DriverLifeCycle
    BY PTL DEF DriverLifeCycle
  <1> QED BY Inductive, <1>1, <1>2, PTL DEF Spec

-----------------------------------------------------------------------------
(* The second invariant: a broadcaster is made before anybody points to it.*)

\* No step writes into a broadcaster before its creator has made it.
LEMMA EmptyStep ==
  InductiveInv /\ BroadcasterStartsEmpty /\ [Next]_vars => BroadcasterStartsEmpty'
  <1> SUFFICES ASSUME InductiveInv, BroadcasterStartsEmpty, [Next]_vars
               PROVE  BroadcasterStartsEmpty'
    OBVIOUS
  <1>1. /\ hpc \in [Clients -> HandlerStates]
        /\ ptr \in [Clients -> Clients \cup {None}]
        /\ subs \in [Clients -> [Receipts -> Clients \cup {None}]]
        /\ bcast \in [Devices -> Clients \cup {None}]
        /\ DeviceOf \in [Clients -> Devices]
    BY DeviceOfAssumption DEF InductiveInv, TypeOK, ClientOrNone
  <1>2. \A d \in Devices : bcast[d] # None => bcast[d] \in Clients /\ hpc[bcast[d]] # "idle"
    BY <1>1 DEF InductiveInv, BroadcasterCreatedOnce
  <1>3. \A x \in Clients : hpc'[x] = "idle" => hpc[x] = "idle"
    <2>1. ASSUME NEW c \in Clients, HandlerStep(c) PROVE \A x \in Clients : hpc'[x] = "idle" => hpc[x] = "idle"
      BY <1>1, <2>1
      DEF HandlerStep, Step, HandshakeFails, GetOrCreateBroadcaster, Negotiate, RegisterSubscriber,
          GetSubscriber, PollConnectionState, EnsureAgent, WaitCodecParams, SetAgent, InitDriver,
          LookupBroadcaster, Attach, SetCleanup, GetAgent
    <2> QED
      BY <2>1 DEF Next, vars, UseNilAgent, CleanupStep, CleanupClose, CleanupRemove, NetworkStep,
                  Connect, Disconnect, IceFails, BrowserCloses
  <1>4. \A x \in Clients : ptr'[x] # None => ptr'[x] = ptr[x] \/ hpc'[ptr'[x]] # "idle"
    <2>1. ASSUME NEW c \in Clients, GetOrCreateBroadcaster(c)
          PROVE  \A x \in Clients : ptr'[x] # None => ptr'[x] = ptr[x] \/ hpc'[ptr'[x]] # "idle"
      <3>1. \/ ptr' = ptr
            \/ ptr' = [ptr EXCEPT ![c] = c] /\ hpc' = [hpc EXCEPT ![c] = "negotiate"]
            \/ bcast[DeviceOf[c]] # None /\ ptr' = [ptr EXCEPT ![c] = bcast[DeviceOf[c]]]
        BY <2>1 DEF GetOrCreateBroadcaster, Step
      <3> QED BY <1>1, <1>2, <1>3, <3>1
    <2>2. ASSUME NEW c \in Clients, LookupBroadcaster(c)
          PROVE  \A x \in Clients : ptr'[x] # None => ptr'[x] = ptr[x] \/ hpc'[ptr'[x]] # "idle"
      <3>1. \/ ptr' = ptr
            \/ bcast[DeviceOf[c]] # None /\ ptr' = [ptr EXCEPT ![c] = bcast[DeviceOf[c]]]
        BY <2>2 DEF LookupBroadcaster
      <3> QED BY <1>1, <1>2, <1>3, <3>1
    <2>3. ASSUME NEW c \in Clients, ptr' = [ptr EXCEPT ![c] = None] \/ ptr' = ptr
          PROVE  \A x \in Clients : ptr'[x] # None => ptr'[x] = ptr[x] \/ hpc'[ptr'[x]] # "idle"
      BY <1>1, <2>3
    <2>4. ASSUME NEW c \in Clients, HandlerStep(c)
          PROVE  \A x \in Clients : ptr'[x] # None => ptr'[x] = ptr[x] \/ hpc'[ptr'[x]] # "idle"
      <3>1. CASE GetOrCreateBroadcaster(c) \/ LookupBroadcaster(c)
        BY <2>1, <2>2, <3>1
      <3>2. CASE ~ (GetOrCreateBroadcaster(c) \/ LookupBroadcaster(c))
        <4>1. ptr' = [ptr EXCEPT ![c] = None] \/ ptr' = ptr
          BY <2>4, <3>2
          DEF HandlerStep, HandshakeFails, Negotiate, RegisterSubscriber, GetSubscriber,
              PollConnectionState, EnsureAgent, WaitCodecParams, SetAgent, InitDriver,
              Attach, SetCleanup, GetAgent, Forget, locals
        <4> QED BY <2>3, <4>1
      <3> QED BY <3>1, <3>2
    <2> QED
      BY <2>4 DEF Next, vars, UseNilAgent, CleanupStep, CleanupClose, CleanupRemove, NetworkStep,
                  Connect, Disconnect, IceFails, BrowserCloses, locals
  <1>5. \A x \in Clients : hpc[x] = "idle" => subs'[x] = subs[x]
    <2>1. ASSUME NEW c \in Clients, RegisterSubscriber(c)
          PROVE  \A x \in Clients : hpc[x] = "idle" => subs'[x] = subs[x]
      <3>1. hpc[c] = "register" /\ subs' = WithEntry(ptr[c], counter[DeviceOf[c]], c)
        BY <2>1 DEF RegisterSubscriber, Step
      <3>2. hpc[ptr[c]] # "idle"
        BY <3>1 DEF InductiveInv, LocalsSet, BroadcasterStartsEmpty
      <3> QED BY <1>1, <3>1, <3>2 DEF WithEntry
    <2>2. ASSUME NEW c \in Clients, HandlerStep(c)
          PROVE  \A x \in Clients : hpc[x] = "idle" => subs'[x] = subs[x]
      <3>1. CASE RegisterSubscriber(c)
        BY <2>1, <3>1
      <3>2. CASE ~ RegisterSubscriber(c)
        BY <2>2, <3>2
        DEF HandlerStep, HandshakeFails, GetOrCreateBroadcaster, Negotiate, GetSubscriber,
            PollConnectionState, EnsureAgent, WaitCodecParams, SetAgent, InitDriver,
            LookupBroadcaster, Attach, SetCleanup, GetAgent, manager
      <3> QED BY <3>1, <3>2
    <2>3. ASSUME NEW k \in cleanups, CleanupRemove(k)
          PROVE  \A x \in Clients : hpc[x] = "idle" => subs'[x] = subs[x]
      <3>1. DeviceOf[k.conn] \in Devices
        BY <1>1 DEF InductiveInv, TypeOK, Cleanup
      <3>2. \/ subs' = subs
            \/ /\ bcast[DeviceOf[k.conn]] # None
               /\ subs' = [subs EXCEPT ![bcast[DeviceOf[k.conn]]] =
                                       Without(subs[bcast[DeviceOf[k.conn]]], k.receipt)]
        BY <2>3 DEF CleanupRemove, manager
      <3> QED BY <1>1, <1>2, <3>1, <3>2
    <2> QED
      BY <2>2, <2>3 DEF Next, vars, UseNilAgent, CleanupStep, CleanupClose, NetworkStep,
                        Connect, Disconnect, IceFails, BrowserCloses, manager
  <1>6. \A b \in Clients : hpc'[b] = "idle" => NoneLeft(subs'[b])
    BY <1>3, <1>5 DEF BroadcasterStartsEmpty
  <1>7. \A c \in Clients : ptr'[c] # None => hpc'[ptr'[c]] # "idle"
    BY <1>1, <1>3, <1>4 DEF BroadcasterStartsEmpty
  <1> QED BY <1>6, <1>7 DEF BroadcasterStartsEmpty, NoneLeft

\* Entries and pointers belong to broadcasters somebody has made.
THEOREM StartsEmpty == Spec => [](InductiveInv /\ BroadcasterStartsEmpty)
  <1>1. Init => BroadcasterStartsEmpty
    BY ZeroReceipt DEF Init, BroadcasterStartsEmpty, NoneLeft
  <1> QED BY Inductive, EmptyStep, <1>1, PTL DEF Spec
-----------------------------------------------------------------------------
(* The refinement mapping.                                                 *)

\* A session that newcomers share the device with has the entry of its number.
LEMMA ViewerHasEntry ==
  ASSUME InductiveInv, NEW d \in Devices, NEW v \in Viewers(d)
  PROVE  /\ v \in Clients /\ receipt[v] \in Receipts
         /\ bcast[d] \in Clients /\ subs[bcast[d]][receipt[v]] = v
         /\ \A r \in Receipts : subs[bcast[d]][r] = v => r = receipt[v]
  <1>1. bcast[d] # None
    BY DEF Viewers
  <1>2. bcast[d] \in Clients
    BY <1>1 DEF InductiveInv, TypeOK, ClientOrNone
  <1>3. PICK r \in Receipts : v = subs[bcast[d]][r] /\ v # None
    BY <1>1 DEF Viewers
  <1>4. v \in Clients
    BY <1>2, <1>3 DEF InductiveInv, TypeOK, ClientOrNone
  <1>5. \A q \in Receipts : subs[bcast[d]][q] = v => receipt[v] = q
    BY <1>2, <1>3 DEF InductiveInv, OneEntryPerConnection
  <1> QED BY <1>2, <1>3, <1>4, <1>5

\* There are as many receipt numbers as sessions may share a device.
LEMMA AtMostMaxClients ==
  ASSUME InductiveInv, NEW d \in Devices
  PROVE  Cardinality(Viewers(d)) <= MaxClients
  <1> DEFINE f == [v \in Viewers(d) |-> receipt[v]]
  <1>1. f \in Injection(Viewers(d), Receipts)
    BY ViewerHasEntry DEF Injection, IsInjective
  <1>2. IsFiniteSet(Receipts) /\ Cardinality(Receipts) = MaxClients
    <2>1. 0 \in Int /\ MaxClients - 1 \in Int /\ ~ (0 > MaxClients - 1)
      BY MaxClientsAssumption
    <2>2. IsFiniteSet(0 .. (MaxClients - 1)) /\ Cardinality(0 .. (MaxClients - 1)) = (MaxClients - 1) - 0 + 1
      BY <2>1, FS_Interval
    <2> QED BY <2>2, MaxClientsAssumption DEF Receipts
  <1>3. Cardinality(Viewers(d)) <= Cardinality(Receipts)
    BY <1>1, <1>2, FS_Injection
  <1> QED BY <1>2, <1>3

\* So there are after a step that preserves the invariant.
LEMMA AtMostMaxClientsNext ==
  InductiveInv' => (\A d \in Devices : Cardinality(Viewers(d)) <= MaxClients)'
  <1>1. InductiveInv => \A d \in Devices : Cardinality(Viewers(d)) <= MaxClients
    BY AtMostMaxClients
  <1> QED BY <1>1, PTL

\* What newcomers can reach depends on the map, its entries and the agents only.
LEMMA QuietStep ==
  ASSUME UNCHANGED <<bcast, subs, agent, driver>>
  PROVE  UNCHANGED Sharing!dsVars
  BY DEF Sharing!dsVars, Viewers, Service

\* A step that changes neither the viewers of a device nor its service.
LEMMA Stutter ==
  ASSUME \A d \in Devices : Viewers(d)' = Viewers(d) /\ Service(d)' = Service(d)
  PROVE  UNCHANGED Sharing!dsVars
  BY DEF Sharing!dsVars

\* A viewer comes, in place of at most one other.
LEMMA IsJoin ==
  ASSUME NEW d \in Devices, NEW c \in Clients, NEW out \in {{}} \cup {{v} : v \in Viewers(d)},
         Service(d) # "starting", c \notin Viewers(d),
         Viewers(d)' = (Viewers(d) \ out) \cup {c},
         Cardinality(Viewers(d)') <= MaxClients,
         \A e \in Devices \ {d} : Viewers(e)' = Viewers(e),
         \A e \in Devices : Service(e)' = Service(e)
  PROVE  Sharing!Next
  <1> DEFINE vs == [e \in Devices |-> Viewers(e)]
  <1>1. vs' = [vs EXCEPT ![d] = (@ \ out) \cup {c}]
    OBVIOUS
  <1>2. vs'[d] = Viewers(d)' /\ vs[d] = Viewers(d)
    OBVIOUS
  <1>3. \E o \in {{}} \cup {{v} : v \in vs[d]} : vs' = [vs EXCEPT ![d] = (@ \ o) \cup {c}]
    BY <1>1, <1>2
  <1>4. Cardinality(vs'[d]) <= MaxClients
    BY <1>2
  <1> DEFINE sv == [e \in Devices |-> Service(e)]
  <1>5. sv[d] # "starting" /\ sv' = sv /\ c \notin vs[d]
    BY <1>2
  <1>6. Sharing!Join(d, c)
    BY <1>3, <1>4, <1>5 DEF Sharing!Join, Sharing!Cardinality, Cardinality
  <1> QED BY <1>6 DEF Sharing!Next

\* A viewer goes, and with the last one the service ends.
LEMMA IsLeave ==
  ASSUME NEW d \in Devices, NEW c \in Clients,
         Service(d) # "starting", c \in Viewers(d),
         Viewers(d)' = Viewers(d) \ {c},
         Service(d)' = IF Viewers(d) = {c} THEN "off" ELSE Service(d),
         \A e \in Devices \ {d} : Viewers(e)' = Viewers(e) /\ Service(e)' = Service(e)
  PROVE  Sharing!Next
  <1> DEFINE vs == [e \in Devices |-> Viewers(e)]
             sv == [e \in Devices |-> Service(e)]
  <1>1. vs' = [vs EXCEPT ![d] = @ \ {c}]
    OBVIOUS
  <1>2. sv' = IF vs[d] = {c} THEN [sv EXCEPT ![d] = "off"] ELSE sv
    OBVIOUS
  <1>3. Sharing!Leave(d, c)
    BY <1>1, <1>2 DEF Sharing!Leave
  <1> QED BY <1>3 DEF Sharing!Next

\* The service of a device moves on while its viewers stay.
LEMMA IsService ==
  ASSUME NEW d \in Devices,
         \/ Viewers(d) # {} /\ Service(d) = "off" /\ Service(d)' = "starting"
         \/ Service(d) = "starting" /\ Service(d)' = "on",
         \A e \in Devices : Viewers(e)' = Viewers(e),
         \A e \in Devices \ {d} : Service(e)' = Service(e)
  PROVE  Sharing!Next
  <1> DEFINE vs == [e \in Devices |-> Viewers(e)]
             sv == [e \in Devices |-> Service(e)]
  <1>1. vs' = vs /\ sv' = [sv EXCEPT ![d] = Service(d)']
    OBVIOUS
  <1>2. Sharing!Begin(d) \/ Sharing!Ready(d)
    BY <1>1 DEF Sharing!Begin, Sharing!Ready
  <1> QED BY <1>2 DEF Sharing!Next

\* While nobody is in InitDriver no service is starting.
LEMMA NotStarting ==
  ASSUME InductiveInv, up, lock = None, NEW d \in Devices
  PROVE  Service(d) # "starting"
  <1> SUFFICES ASSUME bcast[d] # None, agent[bcast[d]] # None
               PROVE  driver[agent[bcast[d]]] # "init"
    BY DEF Service, InductiveInv, TypeOK, ClientOrNone, DriverStates
  <1>1. agent[bcast[d]] \in Clients
    BY DEF InductiveInv, TypeOK, ClientOrNone
  <1> QED BY <1>1, NoneAssumption DEF InductiveInv, LockHeld
\* A new broadcaster is as good as none: no entry and no agent.
LEMMA NewBroadcaster ==
  ASSUME InductiveInv, BroadcasterStartsEmpty, NEW c \in Clients, GetOrCreateBroadcaster(c)
  PROVE  UNCHANGED Sharing!dsVars
  <1> DEFINE d == DeviceOf[c]
  <1>1. d \in Devices /\ bcast \in [Devices -> Clients \cup {None}]
    BY DeviceOfAssumption DEF InductiveInv, TypeOK, ClientOrNone
  <1>2. UNCHANGED <<subs, agent, driver>>
    BY DEF GetOrCreateBroadcaster
  <1>3. CASE bcast' = bcast
    BY <1>2, <1>3, QuietStep
  <1>4. CASE bcast[d] = None /\ bcast' = [bcast EXCEPT ![d] = c] /\ hpc[c] = "idle"
    <2>1. \A r \in Receipts : subs[c][r] = None
      BY <1>4 DEF BroadcasterStartsEmpty, NoneLeft
    <2>2. agent[c] = None
      BY <1>4 DEF InductiveInv, AgentOwned, BroadcasterCreatedOnce, TypeOK, ClientOrNone
    <2>3. \A e \in Devices \ {d} : bcast'[e] = bcast[e]
      BY <1>1, <1>4
    <2>4. bcast'[d] = c /\ c # None
      BY <1>1, <1>4, NoneAssumption
    <2>5. Viewers(d) = {} /\ Viewers(d)' = {}
      BY <1>2, <1>4, <2>1, <2>4 DEF Viewers
    <2>6. Service(d) = "off" /\ Service(d)' = "off"
      BY <1>2, <1>4, <2>2, <2>4 DEF Service
    <2>7. \A e \in Devices \ {d} : Viewers(e)' = Viewers(e) /\ Service(e)' = Service(e)
      BY <1>2, <2>3 DEF Viewers, Service
    <2> QED BY <2>5, <2>6, <2>7, Stutter
  <1> QED BY <1>3, <1>4 DEF GetOrCreateBroadcaster, Step

\* Two devices never share a broadcaster.
LEMMA OneDevicePerBroadcaster ==
  ASSUME InductiveInv, NEW d \in Devices, NEW e \in Devices, bcast[d] # None, bcast[d] = bcast[e]
  PROVE  d = e
  BY DEF InductiveInv, BroadcasterCreatedOnce

\* Registering with the device's broadcaster is joining it; with one that has left
\* the map it changes nothing a newcomer can see.
LEMMA RegisterJoins ==
  ASSUME InductiveInv, InductiveInv', up, NEW c \in Clients, RegisterSubscriber(c)
  PROVE  [Sharing!Next]_(Sharing!dsVars)
  <1> DEFINE b == ptr[c]
             r == counter[DeviceOf[c]]
  <1>1. /\ lock = None /\ hpc[c] = "register"
        /\ subs' = WithEntry(b, r, c) /\ UNCHANGED <<bcast, agent, driver>>
    BY DEF RegisterSubscriber, Step
  <1>2. b \in Clients /\ r \in Receipts
    <2>1. ptr[c] # None
      BY <1>1 DEF InductiveInv, LocalsSet
    <2> QED BY <2>1, DeviceOfAssumption DEF InductiveInv, TypeOK, ClientOrNone
  <1>3. subs \in [Clients -> [Receipts -> Clients \cup {None}]]
    BY DEF InductiveInv, TypeOK, ClientOrNone
  <1>4. /\ \A x \in Clients \ {b} : subs'[x] = subs[x]
        /\ \A q \in Receipts \ {r} : subs'[b][q] = subs[b][q]
        /\ subs'[b][r] = c
    BY <1>1, <1>2, <1>3 DEF WithEntry
  <1> HIDE DEF b, r
  <1>5. \A e \in Devices : Service(e)' = Service(e)
    BY <1>1 DEF Service
  <1>6. \A e \in Devices : bcast[e] # b => Viewers(e)' = Viewers(e)
    <2>1. \A e \in Devices : bcast[e] \in Clients \cup {None}
      BY DEF InductiveInv, TypeOK, ClientOrNone
    <2> QED BY <1>1, <1>4, <2>1 DEF Viewers
  <1>7. CASE \A e \in Devices : bcast[e] # b
    BY <1>5, <1>6, <1>7, Stutter
  <1>8. CASE \E e \in Devices : bcast[e] = b
    <2>1. PICK d \in Devices : bcast[d] = b
      BY <1>8
    <2>2. \A e \in Devices \ {d} : Viewers(e)' = Viewers(e)
      BY <1>2, <1>6, <2>1, NoneAssumption, OneDevicePerBroadcaster
    <2>3. Service(d) # "starting"
      BY <1>1, NotStarting
    <2>4. c \notin Viewers(d)
      <3>1. receipt[c] = None
        BY <1>1 DEF InductiveInv, ReceiptOnce
      <3> QED BY <3>1, ViewerHasEntry, NoneAssumption
    <2>5. Cardinality(Viewers(d)') <= MaxClients
      <3>1. (\A e \in Devices : Cardinality(Viewers(e)) <= MaxClients)'
        BY AtMostMaxClientsNext
      <3> QED BY <3>1
    <2>6. b # None /\ bcast'[d] = b
      BY <1>1, <1>2, <2>1, NoneAssumption
    <2>7. Viewers(d) = {subs[b][q] : q \in Receipts} \ {None}
      BY <2>1, <2>6 DEF Viewers
    <2>8. Viewers(d)' = {subs'[b][q] : q \in Receipts} \ {None}
      BY <2>6 DEF Viewers
    <2> DEFINE old == subs[b][r]
               out == {old} \ {None}
    <2>9. out \in {{}} \cup {{v} : v \in Viewers(d)}
      BY <1>2, <2>7
    <2>10. \A q \in Receipts \ {r} : subs[b][q] # old \/ old = None
      <3> SUFFICES ASSUME NEW q \in Receipts \ {r}, subs[b][q] = old, old # None PROVE FALSE
        OBVIOUS
      <3>1. receipt[old] = q /\ receipt[old] = r
        BY <1>2 DEF InductiveInv, OneEntryPerConnection
      <3> QED BY <3>1
    <2>11. Viewers(d)' = (Viewers(d) \ out) \cup {c}
      <3>1. {subs'[b][q] : q \in Receipts} = {subs[b][q] : q \in Receipts \ {r}} \cup {c}
        BY <1>2, <1>4
      <3>2. {subs[b][q] : q \in Receipts} = {subs[b][q] : q \in Receipts \ {r}} \cup {old}
        BY <1>2
      <3>3. c # None
        BY NoneAssumption
      <3> HIDE DEF old
      <3> QED BY <2>7, <2>8, <2>10, <3>1, <3>2, <3>3
    <2> HIDE DEF out
    <2> QED BY <1>5, <2>2, <2>3, <2>4, <2>5, <2>9, <2>11, IsJoin
  <1> QED BY <1>7, <1>8
\* A callback that removes its entry makes that viewer leave; with the last one the
\* agent is closed and the broadcaster gone.
LEMMA RemoveLeaves ==
  ASSUME InductiveInv, up, NEW k \in cleanups, CleanupRemove(k)
  PROVE  [Sharing!Next]_(Sharing!dsVars)
  <1> DEFINE d == DeviceOf[k.conn]
             b == bcast[d]
             q == k.receipt
             x == subs[b][q]
             left == Without(subs[b], q)
  <1>1. d \in Devices /\ q \in Receipts /\ lock = None
    BY DeviceOfAssumption DEF InductiveInv, TypeOK, Cleanup, CleanupRemove
  <1>2. CASE b = None
    <2>1. UNCHANGED <<bcast, subs, agent, driver>>
      BY <1>2 DEF CleanupRemove, manager
    <2> QED BY <2>1, QuietStep
  <1>3. CASE b # None
    <2>1. b \in Clients /\ bcast \in [Devices -> Clients \cup {None}]
          /\ subs \in [Clients -> [Receipts -> Clients \cup {None}]]
          /\ agent \in [Clients -> Clients \cup {None}]
          /\ driver \in [Clients -> DriverStates]
      BY <1>1, <1>3 DEF InductiveInv, TypeOK, ClientOrNone
    <2>2. subs' = [subs EXCEPT ![b] = left] /\ agent' = agent
      BY <1>3 DEF CleanupRemove
    <2>3. \/ /\ NoneLeft(left) /\ StopAgent(agent[b])
             /\ bcast' = [bcast EXCEPT ![d] = None]
          \/ /\ ~ NoneLeft(left)
             /\ driver' = driver /\ bcast' = bcast
      BY <1>3 DEF CleanupRemove, RemoveBroadcaster
    <2>4. \A e \in Devices \ {d} : bcast[e] # b /\ bcast'[e] = bcast[e]
      BY <1>1, <1>3, <2>1, <2>3, OneDevicePerBroadcaster
    <2>5. \A e \in Devices \ {d} : Viewers(e)' = Viewers(e)
      <3>1. \A y \in Clients \ {b} : subs'[y] = subs[y]
        BY <2>1, <2>2
      <3>2. \A e \in Devices : bcast[e] # None => bcast[e] \in Clients
        BY <2>1
      <3> HIDE DEF b, d, left
      <3> QED BY <2>4, <3>1, <3>2 DEF Viewers
    <2>6. \A a \in Clients : a # agent[b] => driver'[a] = driver[a]
      BY <2>1, <2>3 DEF StopAgent
    <2>7. \A e \in Devices \ {d} : bcast[e] # None /\ agent[bcast[e]] # None =>
            agent[bcast[e]] \in Clients /\ agent[bcast[e]] # agent[b]
      <3> SUFFICES ASSUME NEW e \in Devices \ {d}, bcast[e] # None, agent[bcast[e]] # None
                   PROVE  agent[bcast[e]] \in Clients /\ agent[bcast[e]] # agent[b]
        OBVIOUS
      <3>1. bcast[e] \in Clients /\ agent[bcast[e]] \in Clients
        BY <2>1
      <3>2. feeds[agent[bcast[e]]] = bcast[e]
        BY <3>1 DEF InductiveInv, AgentOwned
      <3>3. agent[b] # None => feeds[agent[b]] = b
        BY <2>1 DEF InductiveInv, AgentOwned
      <3> QED BY <2>4, <3>1, <3>2, <3>3
    <2>8. \A e \in Devices \ {d} : Service(e)' = Service(e)
      BY <2>2, <2>4, <2>6, <2>7 DEF Service
    <2>9. Viewers(d) = {subs[b][r] : r \in Receipts} \ {None}
      BY <1>3 DEF Viewers
    <2>10. subs'[b] = left /\ left = [subs[b] EXCEPT ![q] = None]
      BY <2>1, <2>2 DEF Without
    <2>11. \A r \in Receipts \ {q} : left[r] = subs[b][r]
      BY <2>1, <2>10
    <2>12. left[q] = None
      BY <1>1, <2>1, <2>10
    <2> DEFINE others == {subs[b][r] : r \in Receipts \ {q}} \ {None}
    <2>13. Viewers(d) = others \cup ({x} \ {None})
      BY <1>1, <2>9
    <2>14. x # None => x \notin others
      <3> SUFFICES ASSUME x # None, NEW r \in Receipts \ {q}, subs[b][r] = x PROVE FALSE
        OBVIOUS
      <3>1. receipt[x] = q /\ receipt[x] = r
        BY <1>1, <2>1 DEF InductiveInv, OneEntryPerConnection
      <3> QED BY <3>1
    <2>15. NoneLeft(left) <=> others = {}
      BY <1>1, <2>11, <2>12 DEF NoneLeft
    <2>16. {left[r] : r \in Receipts} \ {None} = others
      BY <1>1, <2>11, <2>12
    <2> HIDE DEF left, others
    <2>17. Viewers(d)' = others
      <3>1. CASE NoneLeft(left)
        <4>1. bcast'[d] = None
          BY <1>1, <2>1, <2>3, <3>1
        <4> QED BY <2>15, <3>1, <4>1 DEF Viewers
      <3>2. CASE ~ NoneLeft(left)
        <4>1. bcast'[d] = b
          BY <2>3, <3>2
        <4>2. Viewers(d)' = {subs'[b][r] : r \in Receipts} \ {None}
          BY <1>3, <4>1 DEF Viewers
        <4>3. \A r \in Receipts : subs'[b][r] = left[r]
          BY <2>10
        <4> HIDE DEF b, d
        <4> QED BY <2>16, <4>2, <4>3
      <3> QED BY <3>1, <3>2
    <2>18. Service(d)' = IF others = {} THEN "off" ELSE Service(d)
      <3>1. CASE NoneLeft(left)
        <4>1. bcast'[d] = None
          BY <1>1, <2>1, <2>3, <3>1
        <4> QED BY <2>15, <3>1, <4>1 DEF Service
      <3>2. CASE ~ NoneLeft(left)
        <4>1. bcast'[d] = b /\ driver' = driver
          BY <2>3, <3>2
        <4> QED BY <2>2, <2>15, <3>2, <4>1 DEF Service
      <3> QED BY <3>1, <3>2
    <2>19. CASE x = None
      <3>1. Viewers(d)' = Viewers(d)
        BY <2>13, <2>17, <2>19
      <3>2. others = {} => Service(d) = "off"
        <4> SUFFICES ASSUME others = {} PROVE agent[b] = None
          BY DEF Service
        <4>1. \A r \in Receipts : subs[b][r] = None
          BY <2>9, <2>13, <2>19
        <4> QED BY <1>1, <1>3, <4>1 DEF InductiveInv, MapConsistent, Claimed
      <3>3. Service(d)' = Service(d)
        BY <2>18, <3>2
      <3> QED BY <2>5, <2>8, <3>1, <3>3, Stutter
    <2>20. CASE x # None
      <3>1. x \in Clients /\ x \in Viewers(d)
        BY <1>1, <2>1, <2>13, <2>20
      <3>2. Viewers(d)' = Viewers(d) \ {x}
        BY <2>13, <2>14, <2>17, <2>20
      <3>3. others = {} <=> Viewers(d) = {x}
        BY <2>13, <2>14, <2>20
      <3>4. Service(d)' = IF Viewers(d) = {x} THEN "off" ELSE Service(d)
        BY <2>18, <3>3
      <3>5. Service(d) # "starting"
        BY <1>1, NotStarting
      <3> HIDE DEF d, x
      <3> QED BY <1>1, <2>5, <2>8, <3>1, <3>2, <3>4, <3>5, IsLeave
    <2> QED BY <2>19, <2>20
  <1> QED BY <1>2, <1>3

\* Publishing the agent begins the service of the device its broadcaster stands for.
LEMMA SetAgentBegins ==
  ASSUME InductiveInv, up, NEW c \in Clients, SetAgent(c)
  PROVE  [Sharing!Next]_(Sharing!dsVars)
  <1> DEFINE b == feeds[c]
  <1>1. hpc[c] = "setAgent" /\ UNCHANGED <<bcast, subs>>
    BY DEF SetAgent, Step
  <1>2. CASE UNCHANGED <<agent, driver>>
    BY <1>1, <1>2, QuietStep
  <1>3. CASE /\ agent[b] = None
             /\ agent' = [agent EXCEPT ![b] = c]
             /\ driver' = [driver EXCEPT ![c] = "init"]
    <2>1. b \in Clients /\ driver[c] = "none"
          /\ agent \in [Clients -> Clients \cup {None}]
          /\ driver \in [Clients -> DriverStates]
          /\ bcast \in [Devices -> Clients \cup {None}]
      BY <1>1 DEF InductiveInv, TypeOK, ClientOrNone, LocalsSet, AgentOwned, BeforeAgent
    <2>2. \A e \in Devices : Viewers(e)' = Viewers(e)
      BY <1>1 DEF Viewers
    <2>3. \A y \in Clients : agent[y] # c
      BY <2>1, NoneAssumption DEF InductiveInv, AgentOwned
    <2>4. \A e \in Devices : bcast[e] # b => Service(e)' = Service(e)
      BY <1>1, <1>3, <2>1, <2>3 DEF Service
    <2>5. CASE \A e \in Devices : bcast[e] # b
      BY <2>2, <2>4, <2>5, Stutter
    <2>6. CASE \E e \in Devices : bcast[e] = b
      <3>1. PICK d \in Devices : bcast[d] = b
        BY <2>6
      <3>2. b # None /\ c # None
        BY <2>1, NoneAssumption
      <3>3. \A e \in Devices \ {d} : Service(e)' = Service(e)
        BY <2>4, <3>1, <3>2, OneDevicePerBroadcaster
      <3>4. Service(d) = "off"
        BY <1>3, <3>1, <3>2 DEF Service
      <3>5. Service(d)' = "starting"
        BY <1>1, <1>3, <2>1, <3>1, <3>2 DEF Service
      <3>6. Viewers(d) # {}
        <4>1. PICK r \in Receipts : subs[b][r] # None
          BY <1>1, <3>1, <3>2 DEF InductiveInv, MapConsistent, Claimed
        <4> QED BY <3>1, <3>2, <4>1 DEF Viewers
      <3> QED BY <2>2, <3>3, <3>4, <3>5, <3>6, IsService
    <2> QED BY <2>5, <2>6
  <1> QED BY <1>2, <1>3 DEF SetAgent, StillMissing

\* When InitDriver returns the service is on, unless a missing driver ends the process.
LEMMA InitDriverReady ==
  ASSUME InductiveInv, up, NEW c \in Clients, InitDriver(c)
  PROVE  [Sharing!Next]_(Sharing!dsVars)
  <1> DEFINE b == feeds[c]
  <1>1. hpc[c] = "initDriver" /\ UNCHANGED <<bcast, subs, agent>>
    BY DEF InitDriver, Step, manager
  <1>2. CASE driver' = driver
    BY <1>1, <1>2, QuietStep
  <1>3. CASE driver' = [driver EXCEPT ![c] = "running"]
    <2>1. driver[c] = "init" /\ b \in Clients /\ agent[b] = c /\ c # None
          /\ agent \in [Clients -> Clients \cup {None}]
          /\ driver \in [Clients -> DriverStates]
          /\ bcast \in [Devices -> Clients \cup {None}]
      BY <1>1, NoneAssumption
      DEF InductiveInv, TypeOK, ClientOrNone, LockHeld, AgentOwned
    <2>2. \A e \in Devices : Viewers(e)' = Viewers(e)
      BY <1>1 DEF Viewers
    <2>3. \A y \in Clients : agent[y] = c => y = b
      BY <2>1 DEF InductiveInv, AgentOwned
    <2>4. \A e \in Devices : bcast[e] # b => Service(e)' = Service(e)
      BY <1>1, <1>3, <2>1, <2>3 DEF Service
    <2>5. CASE \A e \in Devices : bcast[e] # b
      BY <2>2, <2>4, <2>5, Stutter
    <2>6. CASE \E e \in Devices : bcast[e] = b
      <3>1. PICK d \in Devices : bcast[d] = b
        BY <2>6
      <3>2. b # None
        BY <2>1, NoneAssumption
      <3>3. \A e \in Devices \ {d} : Service(e)' = Service(e)
        BY <2>4, <3>1, <3>2, OneDevicePerBroadcaster
      <3>4. Service(d) = "starting"
        BY <2>1, <3>1, <3>2 DEF Service
      <3>5. Service(d)' = "on"
        BY <1>1, <1>3, <2>1, <3>1, <3>2 DEF Service
      <3> QED BY <2>2, <3>3, <3>4, <3>5, IsService
    <2> QED BY <2>5, <2>6
  <1> QED BY <1>2, <1>3 DEF InitDriver

\* Every step of the manager is a step of DeviceSharing, or one it does not see.
LEMMA SharingStep ==
  InductiveInv /\ BroadcasterStartsEmpty /\ InductiveInv' /\ [Next]_vars
    => [Sharing!Next]_(Sharing!dsVars)
  <1> SUFFICES ASSUME InductiveInv, BroadcasterStartsEmpty, InductiveInv', [Next]_vars
               PROVE  [Sharing!Next]_(Sharing!dsVars)
    OBVIOUS
  <1>1. ASSUME up, NEW c \in Clients, HandlerStep(c) PROVE [Sharing!Next]_(Sharing!dsVars)
    <2>1. CASE GetOrCreateBroadcaster(c)
      BY <2>1, NewBroadcaster
    <2>2. CASE RegisterSubscriber(c)
      BY <1>1, <2>2, RegisterJoins
    <2>3. CASE SetAgent(c)
      BY <1>1, <2>3, SetAgentBegins
    <2>4. CASE InitDriver(c)
      BY <1>1, <2>4, InitDriverReady
    <2>5. CASE \/ HandshakeFails(c) \/ Negotiate(c) \/ GetSubscriber(c)
               \/ PollConnectionState(c) \/ EnsureAgent(c) \/ WaitCodecParams(c)
               \/ LookupBroadcaster(c) \/ Attach(c) \/ SetCleanup(c) \/ GetAgent(c)
      <3>1. UNCHANGED <<bcast, subs, agent, driver>>
        BY <2>5
        DEF HandshakeFails, Negotiate, GetSubscriber, PollConnectionState, EnsureAgent,
            WaitCodecParams, LookupBroadcaster, Attach, SetCleanup, GetAgent, manager
      <3> QED BY <3>1, QuietStep
    <2> QED BY <1>1, <2>1, <2>2, <2>3, <2>4, <2>5 DEF HandlerStep
  <1>2. ASSUME up, NEW k \in cleanups, CleanupStep(k) PROVE [Sharing!Next]_(Sharing!dsVars)
    <2>1. CASE CleanupRemove(k)
      BY <1>2, <2>1, RemoveLeaves
    <2>2. CASE CleanupClose(k)
      <3>1. UNCHANGED <<bcast, subs, agent, driver>>
        BY <2>2 DEF CleanupClose, manager
      <3> QED BY <3>1, QuietStep
    <2> QED BY <1>2, <2>1, <2>2 DEF CleanupStep
  <1>3. ASSUME NEW c \in Clients, UseNilAgent(c) \/ NetworkStep(c)
        PROVE  [Sharing!Next]_(Sharing!dsVars)
    <2>1. UNCHANGED <<bcast, subs, agent, driver>>
      BY <1>3 DEF UseNilAgent, NetworkStep, Connect, Disconnect, IceFails, BrowserCloses, manager
    <2> QED BY <2>1, QuietStep
  <1>4. CASE UNCHANGED vars
    BY <1>4, QuietStep DEF vars, manager
  <1> QED BY <1>1, <1>2, <1>3, <1>4 DEF Next

\* Before the first session no device has a viewer or a service.
LEMMA SharingStart == Init => Sharing!Init
  BY DEF Init, Sharing!Init, Viewers, Service

\* What newcomers of a device can reach behaves as DeviceSharing says, in every
\* interleaving of handlers, callbacks and connection events.
THEOREM ManagerImplementsSharing == Spec => ImplementsSharing
  BY StartsEmpty, SharingStart, SharingStep, PTL DEF Spec, ImplementsSharing, Sharing!Spec

-----------------------------------------------------------------------------
(* Open connections are counted, attached and not cut off: OrderlyInv, as  *)
(* long as there is no stray.                                              *)

\* The sessions have a receipt number each, and ICE does not fail.
Orderly ==
  /\ IceMayFail = FALSE
  /\ IsFiniteSet(Clients) /\ Cardinality(Clients) <= MaxClients

\* The types of all that the following lemmas speak of.
LEMMA Types ==
  ASSUME InductiveInv
  PROVE  /\ hpc \in [Clients -> HandlerStates]
         /\ conn \in [Clients -> ConnStates]
         /\ ptr \in [Clients -> Clients \cup {None}]
         /\ feeds \in [Clients -> Clients \cup {None}]
         /\ target \in [Clients -> Clients \cup {None}]
         /\ receipt \in [Clients -> Receipts \cup {None}]
         /\ bcast \in [Devices -> Clients \cup {None}]
         /\ counter \in [Devices -> Receipts]
         /\ subs \in [Clients -> [Receipts -> Clients \cup {None}]]
         /\ agent \in [Clients -> Clients \cup {None}]
         /\ hook \in [Clients -> Receipts \cup {None}]
         /\ serving \in [Clients -> Clients \cup {None}]
         /\ \A k \in cleanups : k \in Cleanup /\ k.conn \in Clients /\ k.receipt \in Receipts
         /\ DeviceOf \in [Clients -> Devices] /\ None \notin Clients /\ None \notin Receipts
  BY DeviceOfAssumption, NoneAssumption DEF InductiveInv, TypeOK, ClientOrNone, ReceiptOrNone, Cleanup

\* Who changes what newcomers find.
LEMMA Untouched ==
  ASSUME [Next]_vars
  PROVE  \/ \E c \in Clients : GetOrCreateBroadcaster(c) \/ RegisterSubscriber(c)
         \/ \E k \in cleanups : CleanupRemove(k)
         \/ UNCHANGED <<bcast, subs, receipt, counter>>
  <1>1. ASSUME NEW c \in Clients, HandlerStep(c)
        PROVE  GetOrCreateBroadcaster(c) \/ RegisterSubscriber(c) \/ UNCHANGED <<bcast, subs, receipt, counter>>
    BY <1>1
    DEF HandlerStep, HandshakeFails, Negotiate, GetSubscriber, PollConnectionState, EnsureAgent,
        WaitCodecParams, SetAgent, InitDriver, LookupBroadcaster, Attach, SetCleanup, GetAgent,
        locals, manager
  <1> QED
    BY <1>1 DEF Next, vars, UseNilAgent, CleanupStep, CleanupClose, NetworkStep,
                Connect, Disconnect, IceFails, BrowserCloses, locals, manager

\* The last entry and with it the broadcaster go by the callback of a session of the
\* device, from the broadcaster in the map.
LEMMA Removal ==
  ASSUME InductiveInv, NEW k \in cleanups, CleanupRemove(k)
  PROVE  LET d == DeviceOf[k.conn]
             b == bcast[d]
         IN  /\ d \in Devices /\ cleanups' = cleanups \ {k}
             /\ UNCHANGED <<hpc, conn, ptr, feeds, target, receipt, agent, hook, serving>>
             /\ b = None => UNCHANGED <<bcast, subs, counter>>
             /\ b # None =>
                  /\ b \in Clients /\ DeviceOf[b] = d
                  /\ \A x \in Clients, q \in Receipts :
                       subs'[x][q] = IF x = b /\ q = k.receipt THEN None ELSE subs[x][q]
                  /\ \/ bcast' = bcast /\ counter' = counter
                     \/ /\ bcast' = [bcast EXCEPT ![d] = None]
                        /\ counter' = [counter EXCEPT ![d] = 0]
                        /\ \A q \in Receipts : subs'[b][q] = None
  <1> DEFINE d == DeviceOf[k.conn]
             b == bcast[d]
             left == [subs[b] EXCEPT ![k.receipt] = None]
  <1>1. /\ cleanups' = cleanups \ {k}
        /\ UNCHANGED <<hpc, conn, ptr, feeds, target, receipt, agent, hook, serving>>
        /\ b = None => UNCHANGED <<bcast, subs, counter>>
    BY DEF CleanupRemove, locals, manager
  <1>2. d \in Devices /\ k.receipt \in Receipts
    BY Types
  <1>3. ASSUME b # None
        PROVE  /\ b \in Clients /\ DeviceOf[b] = d
               /\ subs' = [subs EXCEPT ![b] = left]
               /\ \/ bcast' = bcast /\ counter' = counter
                  \/ /\ bcast' = [bcast EXCEPT ![d] = None] /\ counter' = [counter EXCEPT ![d] = 0]
                     /\ \A q \in Receipts : left[q] = None
    <2>1. b \in Clients /\ DeviceOf[b] = d
      BY <1>2, <1>3, Types DEF InductiveInv, BroadcasterCreatedOnce
    <2>2. /\ subs' = [subs EXCEPT ![b] = left]
          /\ IF NoneLeft(left) THEN RemoveBroadcaster(d) ELSE UNCHANGED <<bcast, counter>>
      BY <1>3 DEF CleanupRemove, Without
    <2> HIDE DEF left
    <2>3. CASE NoneLeft(left)
      BY <2>1, <2>2, <2>3 DEF NoneLeft, RemoveBroadcaster
    <2>4. CASE ~NoneLeft(left)
      BY <2>1, <2>2, <2>4
    <2> QED BY <2>3, <2>4
  <1>4. ASSUME b # None, NEW x \in Clients, NEW q \in Receipts
        PROVE  subs'[x][q] = IF x = b /\ q = k.receipt THEN None ELSE subs[x][q]
    <2>1. b \in Clients /\ subs' = [subs EXCEPT ![b] = left] /\ subs[b] \in [Receipts -> Clients \cup {None}]
      BY <1>3, <1>4, Types
    <2>2. left[q] = IF q = k.receipt THEN None ELSE subs[b][q]
      BY <1>2, <2>1
    <2> HIDE DEF left, b
    <2> QED BY <2>1, <2>2, Types
  <1>5. b # None => \A q \in Receipts : subs'[b][q] = left[q]
    BY <1>2, <1>3, <1>4, Types
  <1> HIDE DEF left
  <1> QED BY <1>1, <1>2, <1>3, <1>4, <1>5

\* A stray stays one: nothing leads to it any more.
LEMMA StrayStays ==
  ASSUME InductiveInv, BroadcasterStartsEmpty, [Next]_vars, NoStray'
  PROVE  NoStray
  <1> SUFFICES ASSUME NEW b \in Clients, NEW r \in Receipts, subs[b][r] # None, bcast[DeviceOf[b]] # b
               PROVE  subs'[b][r] # None /\ bcast'[DeviceOf[b]] # b
    BY DEF NoStray
  <1>1. DeviceOf[b] \in Devices
    BY Types
  <1>2. ASSUME NEW c \in Clients, GetOrCreateBroadcaster(c)
        PROVE  subs'[b][r] # None /\ bcast'[DeviceOf[b]] # b
    <2>1. /\ subs' = subs /\ hpc[c] = "idle"
          /\ bcast' = bcast \/ bcast' = [bcast EXCEPT ![DeviceOf[c]] = c]
      BY <1>2 DEF GetOrCreateBroadcaster, Step
    <2>2. b # c
      BY <2>1 DEF BroadcasterStartsEmpty, NoneLeft
    <2> QED BY <1>1, <2>1, <2>2, Types
  <1>3. ASSUME NEW c \in Clients, RegisterSubscriber(c)
        PROVE  subs'[b][r] # None /\ bcast'[DeviceOf[b]] # b
    <2>1. bcast' = bcast /\ subs' = WithEntry(ptr[c], counter[DeviceOf[c]], c)
      BY <1>3 DEF RegisterSubscriber
    <2> QED BY <2>1, Types DEF WithEntry
  <1>4. ASSUME NEW k \in cleanups, CleanupRemove(k)
        PROVE  subs'[b][r] # None /\ bcast'[DeviceOf[b]] # b
    <2>1. CASE bcast[DeviceOf[k.conn]] = None
      BY <1>4, <2>1, Removal
    <2>2. CASE bcast[DeviceOf[k.conn]] # None
      <3>1. b # bcast[DeviceOf[k.conn]]
        BY <1>4, <2>2, Removal
      <3>2. subs'[b][r] = subs[b][r]
        BY <1>4, <2>2, <3>1, Removal
      <3>3. bcast'[DeviceOf[b]] \in {bcast[DeviceOf[b]], None}
        BY <1>1, <1>4, <2>2, Removal, Types
      <3> QED BY <3>2, <3>3, Types
    <2> QED BY <2>1, <2>2
  <1> QED BY <1>2, <1>3, <1>4, Untouched

\* The invariants a step of an orderly manager starts from, and such a step.
Tidy     == InductiveInv /\ BroadcasterStartsEmpty /\ OrderlyInv
TidyStep == Tidy /\ Orderly /\ [Next]_vars /\ NoStray'

\* As long as one session of the device has no number, some number has not been given.
LEMMA NumbersLeft ==
  ASSUME InductiveInv, Orderly, NEW d \in Devices, NEW c \in Clients, receipt[c] = None
  PROVE  ~ \A q \in Receipts : Given(d, q)
  <1> SUFFICES ASSUME \A q \in Receipts : Given(d, q) PROVE FALSE
    OBVIOUS
  <1> DEFINE owner(q) == CHOOSE x \in Clients : DeviceOf[x] = d /\ receipt[x] = q
             f == [q \in Receipts |-> owner(q)]
             others == Clients \ {c}
  <1>1. \A q \in Receipts : owner(q) \in Clients /\ receipt[owner(q)] = q
    BY DEF Given
  <1>2. \A q \in Receipts : owner(q) \in others
    BY <1>1, NoneAssumption
  <1>3. f \in Injection(Receipts, others)
    <2>1. f \in [Receipts -> others]
      BY <1>2
    <2>2. \A p, q \in Receipts : f[p] = f[q] => p = q
      BY <1>1
    <2> QED BY <2>1, <2>2 DEF Injection, IsInjective
  <1>4. Cardinality(Receipts) = MaxClients
    <2>1. 0 \in Int /\ MaxClients - 1 \in Int /\ ~ (0 > MaxClients - 1)
      BY MaxClientsAssumption
    <2>2. Cardinality(0 .. (MaxClients - 1)) = (MaxClients - 1) - 0 + 1
      BY <2>1, FS_Interval
    <2> QED BY <2>2, MaxClientsAssumption DEF Receipts
  <1>5. IsFiniteSet(others) /\ Cardinality(others) = Cardinality(Clients) - 1 /\ Cardinality(Clients) \in Nat
    BY FS_RemoveElement, FS_CardinalityType DEF Orderly
  <1>6. Cardinality(Receipts) <= Cardinality(others)
    BY <1>3, <1>5, FS_Injection
  <1> QED BY <1>4, <1>5, <1>6, MaxClientsAssumption DEF Orderly

\* Registering in the device's broadcaster: the number is free, so nobody is cut off.
LEMMA FreshNumber ==
  ASSUME TidyStep, NEW c \in Clients, RegisterSubscriber(c)
  PROVE  LET d == DeviceOf[c]
             b == bcast[d]
             r == counter[d]
         IN  /\ d \in Devices /\ b \in Clients /\ r \in Receipts
             /\ hpc[c] = "register" /\ receipt[c] = None /\ subs[b][r] = None
             /\ hpc' = [hpc EXCEPT ![c] = "lookup"]
             /\ receipt' = [receipt EXCEPT ![c] = r]
             /\ counter' = [counter EXCEPT ![d] = NextNumber(r)]
             /\ \A x \in Clients, q \in Receipts :
                  subs'[x][q] = IF x = b /\ q = r THEN c ELSE subs[x][q]
             /\ ptr' = [ptr EXCEPT ![c] = None]
             /\ UNCHANGED <<conn, cleanups, bcast, feeds, target, agent, driver, hook, serving>>
  <1> DEFINE d == DeviceOf[c]
             r == counter[d]
  <1>1. InductiveInv
    BY DEF TidyStep, Tidy
  <1>2. /\ hpc[c] = "register" /\ hpc' = [hpc EXCEPT ![c] = "lookup"]
        /\ receipt' = [receipt EXCEPT ![c] = r]
        /\ counter' = [counter EXCEPT ![d] = NextNumber(r)]
        /\ subs' = WithEntry(ptr[c], r, c)
        /\ subs[ptr[c]][r] = None => UNCHANGED <<conn, cleanups>>
        /\ ptr' = [ptr EXCEPT ![c] = None]
        /\ UNCHANGED <<bcast, feeds, target, agent, driver, hook, serving>>
    BY DEF RegisterSubscriber, Step, Forget
  <1>3. d \in Devices /\ r \in Receipts /\ ptr[c] \in Clients /\ receipt[c] = None
    <2>1. ptr[c] # None /\ receipt[c] = None
      BY <1>1, <1>2 DEF InductiveInv, LocalsSet, ReceiptOnce
    <2> QED BY <1>1, <2>1, Types
  <1> HIDE DEF d, r
  <1>4. \A x \in Clients, q \in Receipts :
          subs'[x][q] = IF x = ptr[c] /\ q = r THEN c ELSE subs[x][q]
    BY <1>1, <1>2, <1>3, Types DEF WithEntry
  <1>5. ptr[c] = bcast[d]
    <2>1. subs'[ptr[c]][r] # None
      BY <1>3, <1>4, NoneAssumption
    <2>2. bcast'[DeviceOf[ptr[c]]] = ptr[c]
      BY <1>3, <2>1 DEF TidyStep, NoStray
    <2>3. DeviceOf[ptr[c]] = d
      BY <1>3, NoneAssumption DEF TidyStep, Tidy, OrderlyInv, InTheMap, d
    <2> QED BY <1>2, <2>2, <2>3
  <1>6. subs[ptr[c]][r] = None
    <2>1. ~ \A q \in Receipts : Given(d, q)
      BY <1>1, <1>3, NumbersLeft DEF TidyStep
    <2>2. ~ (r < counter[d])
      BY <1>3, MaxClientsAssumption DEF r, Receipts
    <2> QED BY <1>3, <1>5, <2>1, <2>2, NoneAssumption DEF TidyStep, Tidy, OrderlyInv, NumbersGiven
  <1> QED BY <1>2, <1>3, <1>4, <1>5, <1>6 DEF d, r

\* A session that has no callback yet, or whose callback has not run, keeps its
\* entry and its broadcaster, whatever the others do.
LEMMA CountedStays ==
  ASSUME TidyStep, NEW c \in Clients, receipt[c] # None, Counted(c),
         \A k \in cleanups : k.conn = c => ~CleanupRemove(k)
  PROVE  /\ Counted(c)' /\ receipt'[c] = receipt[c]
         /\ bcast'[DeviceOf[c]] = bcast[DeviceOf[c]]
  <1> DEFINE d == DeviceOf[c]
             b == bcast[d]
  <1>1. InductiveInv
    BY DEF TidyStep, Tidy
  <1>2. /\ d \in Devices /\ b \in Clients /\ receipt[c] \in Receipts
        /\ subs[b][receipt[c]] = c /\ c # None
    BY <1>1, Types DEF Counted, Slot
  <1>3. SUFFICES /\ bcast'[d] = b /\ receipt'[c] = receipt[c]
                 /\ subs'[b][receipt[c]] = c
    BY <1>2 DEF Counted, Slot
  <1> HIDE DEF b, d
  <1>4. ASSUME NEW x \in Clients, GetOrCreateBroadcaster(x)
        PROVE  bcast'[d] = b /\ receipt'[c] = receipt[c] /\ subs'[b][receipt[c]] = c
    <2>1. /\ subs' = subs /\ receipt' = receipt
          /\ \/ bcast' = bcast
             \/ bcast[DeviceOf[x]] = None /\ bcast' = [bcast EXCEPT ![DeviceOf[x]] = x]
      BY <1>4 DEF GetOrCreateBroadcaster
    <2>2. bcast[DeviceOf[x]] = None => DeviceOf[x] # d
      BY <1>1, <1>2, Types DEF b
    <2> QED BY <1>1, <1>2, <2>1, <2>2, Types DEF b
  <1>5. ASSUME NEW x \in Clients, RegisterSubscriber(x)
        PROVE  bcast'[d] = b /\ receipt'[c] = receipt[c] /\ subs'[b][receipt[c]] = c
    <2>1. x # c /\ bcast' = bcast /\ receipt' = [receipt EXCEPT ![x] = counter[DeviceOf[x]]]
      BY <1>5, FreshNumber
    <2>2. subs'[b][receipt[c]] = subs[b][receipt[c]]
      BY <1>2, <1>5, FreshNumber
    <2> QED BY <1>1, <1>2, <2>1, <2>2, Types DEF b
  <1>6. ASSUME NEW k \in cleanups, CleanupRemove(k)
        PROVE  bcast'[d] = b /\ receipt'[c] = receipt[c] /\ subs'[b][receipt[c]] = c
    <2>1. /\ k.conn \in Clients /\ k.conn # c
          /\ Counted(k.conn) /\ k.receipt = receipt[k.conn] /\ k.receipt \in Receipts
      BY <1>1, <1>6, Types DEF TidyStep, Tidy, OrderlyInv, OwnCleanup
    <2>2. /\ bcast[DeviceOf[k.conn]] # None
          /\ subs[bcast[DeviceOf[k.conn]]][k.receipt] = k.conn
      BY <2>1 DEF Counted, Slot
    <2>3. receipt' = receipt
      BY <1>1, <1>6, Removal
    <2>4. CASE DeviceOf[k.conn] = d
      <3>1. subs'[b][receipt[c]] = c
        <4>1. k.receipt # receipt[c]
          BY <1>2, <2>1, <2>2, <2>4 DEF b
        <4> QED BY <1>1, <1>2, <1>6, <2>2, <2>4, <4>1, Removal DEF b
      <3>2. bcast' = bcast
        BY <1>1, <1>2, <1>6, <2>2, <2>4, <3>1, Removal DEF b
      <3> QED BY <2>3, <3>1, <3>2 DEF b
    <2>5. CASE DeviceOf[k.conn] # d
      <3>1. bcast[DeviceOf[k.conn]] # b
        BY <1>1, <1>2, <1>6, <2>2, <2>5, Removal DEF InductiveInv, BroadcasterCreatedOnce, b
      <3>2. subs'[b][receipt[c]] = c
        BY <1>1, <1>2, <1>6, <2>2, <3>1, Removal
      <3>3. bcast'[d] = bcast[d]
        BY <1>1, <1>2, <1>6, <2>2, <2>5, Removal, Types
      <3> QED BY <2>3, <3>2, <3>3 DEF b
    <2> QED BY <2>4, <2>5
  <1>7. CASE UNCHANGED <<bcast, subs, receipt, counter>>
    BY <1>2, <1>7 DEF b
  <1> QED BY <1>4, <1>5, <1>6, <1>7, Untouched DEF TidyStep

\* Only setCleanup installs a callback, for the session that calls it and under its number.
LEMMA HookSet ==
  ASSUME [Next]_vars, Tidy
  PROVE  \/ hook' = hook
         \/ \E c \in Clients :
              /\ hpc[c] = "setCleanup" /\ hpc' = [hpc EXCEPT ![c] = "metainfo"]
              /\ receipt[c] \in Receipts /\ hook' = [hook EXCEPT ![c] = receipt[c]]
              /\ UNCHANGED <<conn, receipt, serving, cleanups, bcast, agent, subs>>
  <1>1. InductiveInv
    BY DEF Tidy
  <1>2. ASSUME NEW c \in Clients, SetCleanup(c)
        PROVE  /\ hpc[c] = "setCleanup" /\ hpc' = [hpc EXCEPT ![c] = "metainfo"]
               /\ receipt[c] \in Receipts /\ hook' = [hook EXCEPT ![c] = receipt[c]]
               /\ UNCHANGED <<conn, receipt, serving, cleanups, bcast, agent, subs>>
    <2>1. /\ hpc[c] = "setCleanup" /\ hpc' = [hpc EXCEPT ![c] = "metainfo"]
          /\ hook' = [hook EXCEPT ![target[c]] = receipt[c]]
          /\ UNCHANGED <<conn, receipt, serving, cleanups, bcast, agent, subs>>
      BY <1>2 DEF SetCleanup, Step, manager
    <2>2. target[c] # None /\ receipt[c] # None
      BY <1>1, <2>1 DEF InductiveInv, LocalsSet, Registered
    <2>3. target[c] = c /\ receipt[c] \in Receipts
      BY <1>1, <2>2, Types DEF Tidy, OrderlyInv, OwnTarget
    <2> QED BY <2>1, <2>3
  <1>3. ASSUME NEW c \in Clients, HandlerStep(c) PROVE SetCleanup(c) \/ hook' = hook
    BY <1>3
    DEF HandlerStep, HandshakeFails, GetOrCreateBroadcaster, Negotiate, RegisterSubscriber,
        GetSubscriber, PollConnectionState, EnsureAgent, WaitCodecParams, SetAgent, InitDriver,
        LookupBroadcaster, Attach, GetAgent
  <1> QED
    BY <1>2, <1>3 DEF Next, vars, UseNilAgent, CleanupStep, CleanupClose, CleanupRemove, NetworkStep,
                      Connect, Disconnect, IceFails, BrowserCloses

\* A connection that is closed and has its callback stays so.
LEMMA GoneStays ==
  ASSUME TidyStep, NEW c \in Clients, Gone(c)
  PROVE  Gone(c)'
  <1>1. /\ Tidy /\ InductiveInv /\ hook[c] # None /\ conn[c] = "closed"
        /\ hpc[c] \in {"metainfo", "streaming", "done"}
    BY DEF TidyStep, Tidy, OrderlyInv, OwnCleanup, Gone
  <1>2. hook'[c] # None
    <2>1. CASE hook' = hook
      BY <1>1, <2>1
    <2>2. ASSUME NEW x \in Clients, receipt[x] \in Receipts, hook' = [hook EXCEPT ![x] = receipt[x]]
          PROVE  hook'[c] # None
      BY <1>1, <2>2, Types
    <2> QED BY <1>1, <2>1, <2>2, HookSet DEF TidyStep
  <1>3. conn'[c] = "closed"
    <2>1. ASSUME NEW x \in Clients, Negotiate(x) PROVE conn'[c] = "closed"
      <3>1. /\ hpc[x] = "negotiate"
            /\ conn' = conn \/ conn' = [conn EXCEPT ![x] = "pending"]
        BY <2>1 DEF Negotiate, Step
      <3> QED BY <1>1, <3>1, Types
    <2>2. ASSUME NEW x \in Clients, RegisterSubscriber(x) PROVE conn'[c] = "closed"
      BY <1>1, <2>2, FreshNumber
    <2>3. ASSUME NEW x \in Clients, HandlerStep(x) PROVE conn'[c] = "closed"
      <3>1. CASE Negotiate(x) \/ RegisterSubscriber(x)
        BY <2>1, <2>2, <3>1
      <3>2. CASE ~ (Negotiate(x) \/ RegisterSubscriber(x))
        <4>1. conn' = conn
          BY <2>3, <3>2
          DEF HandlerStep, HandshakeFails, GetOrCreateBroadcaster, GetSubscriber,
              PollConnectionState, EnsureAgent, WaitCodecParams, SetAgent, InitDriver,
              LookupBroadcaster, Attach, SetCleanup, GetAgent
        <4> QED BY <1>1, <4>1
      <3> QED BY <3>1, <3>2
    <2>4. ASSUME NEW x \in Clients, NetworkStep(x) PROVE conn'[c] = "closed"
      <3>1. \/ conn[x] # "closed" /\ \E s : conn' = [conn EXCEPT ![x] = s]
            \/ conn' = [conn EXCEPT ![x] = "closed"]
        BY <2>4 DEF NetworkStep, Connect, Disconnect, IceFails, BrowserCloses, Close
      <3> QED BY <1>1, <3>1, Types
    <2>5. ASSUME NEW k \in cleanups, CleanupStep(k) PROVE conn'[c] = "closed"
      <3>1. conn' = conn \/ conn' = [conn EXCEPT ![k.conn] = "closed"]
        BY <2>5 DEF CleanupStep, CleanupClose, CleanupRemove, Close
      <3> QED BY <1>1, <3>1, Types
    <2> QED BY <1>1, <2>3, <2>4, <2>5 DEF TidyStep, Next, vars, UseNilAgent
  <1> QED BY <1>2, <1>3 DEF Gone

\* So a session whose entry is still its own keeps it.
LEMMA OpenStays ==
  ASSUME TidyStep, NEW c \in Clients, receipt[c] # None, ~Gone(c)
  PROVE  /\ Counted(c) /\ Counted(c)' /\ receipt'[c] = receipt[c]
         /\ bcast'[DeviceOf[c]] = bcast[DeviceOf[c]] /\ bcast[DeviceOf[c]] \in Clients
  <1>1. Counted(c)
    BY DEF TidyStep, Tidy, OrderlyInv, EntryStays
  <1>2. \A k \in cleanups : k.conn # c
    BY Types DEF TidyStep, Tidy, OrderlyInv, OwnCleanup, Gone
  <1>3. bcast[DeviceOf[c]] \in Clients
    BY <1>1, Types DEF TidyStep, Tidy, Counted
  <1> QED BY <1>1, <1>2, <1>3, CountedStays

\* Every session keeps its entry while its connection is open.
LEMMA EntriesStay == ASSUME TidyStep PROVE EntryStays'
  <1> SUFFICES ASSUME NEW c \in Clients, receipt'[c] # None, ~Gone(c)'
               PROVE  Counted(c)'
    BY DEF EntryStays
  <1>1. ~Gone(c)
    BY GoneStays
  <1>2. CASE receipt[c] # None
    BY <1>1, <1>2, OpenStays
  <1>3. ASSUME NEW x \in Clients, RegisterSubscriber(x), receipt[c] = None PROVE Counted(c)'
    <2>1. x = c
      BY <1>3, FreshNumber, Types DEF TidyStep, Tidy
    <2>2. receipt'[c] = counter[DeviceOf[c]]
      BY <1>3, <2>1, FreshNumber, Types DEF TidyStep, Tidy
    <2>3. bcast'[DeviceOf[c]] = bcast[DeviceOf[c]] /\ bcast[DeviceOf[c]] # None
      BY <1>3, <2>1, FreshNumber, NoneAssumption
    <2>4. subs'[bcast[DeviceOf[c]]][counter[DeviceOf[c]]] = c
      BY <1>3, <2>1, FreshNumber
    <2> QED BY <2>2, <2>3, <2>4 DEF Counted, Slot
  <1>4. ASSUME NEW x \in Clients, GetOrCreateBroadcaster(x) PROVE receipt' = receipt
    BY <1>4 DEF GetOrCreateBroadcaster
  <1>5. ASSUME NEW k \in cleanups, CleanupRemove(k) PROVE receipt' = receipt
    BY <1>5 DEF CleanupRemove, locals
  <1> QED BY <1>2, <1>3, <1>4, <1>5, Untouched DEF TidyStep

\* A handler that has installed its callback goes on to the end.
LEMMA PastSetCleanup ==
  ASSUME InductiveInv, [Next]_vars, NEW c \in Clients, hpc[c] \in {"metainfo", "streaming", "done"}
  PROVE  hpc'[c] \in {"metainfo", "streaming", "done"}
  <1>1. hpc \in [Clients -> HandlerStates]
    BY Types
  <1>2. ASSUME NEW x \in Clients, HandlerStep(x) PROVE hpc'[c] \in {"metainfo", "streaming", "done"}
    BY <1>1, <1>2
    DEF HandlerStep, Step, HandshakeFails, GetOrCreateBroadcaster, Negotiate, RegisterSubscriber,
        GetSubscriber, PollConnectionState, EnsureAgent, WaitCodecParams, SetAgent, InitDriver,
        LookupBroadcaster, Attach, SetCleanup, GetAgent
  <1> QED
    BY <1>2 DEF Next, vars, UseNilAgent, CleanupStep, CleanupClose, CleanupRemove, NetworkStep,
                Connect, Disconnect, IceFails, BrowserCloses

\* A number is given once and for all.
LEMMA ReceiptStays ==
  ASSUME TidyStep, NEW c \in Clients, receipt[c] # None
  PROVE  receipt'[c] = receipt[c]
  <1>1. ASSUME NEW x \in Clients, RegisterSubscriber(x) PROVE receipt'[c] = receipt[c]
    <2>1. x # c /\ \E r : receipt' = [receipt EXCEPT ![x] = r]
      BY <1>1, FreshNumber
    <2> QED BY <2>1, Types DEF TidyStep, Tidy
  <1>2. ASSUME NEW x \in Clients, GetOrCreateBroadcaster(x) PROVE receipt' = receipt
    BY <1>2 DEF GetOrCreateBroadcaster
  <1>3. ASSUME NEW k \in cleanups, CleanupRemove(k) PROVE receipt' = receipt
    BY <1>3 DEF CleanupRemove, locals
  <1> QED BY <1>1, <1>2, <1>3, Untouched DEF TidyStep

\* What becomes of the goroutines of the callbacks: one starts when an open connection
\* with a callback is closed, goes on to its critical section, and ends.
LEMMA CallbackRuns ==
  ASSUME TidyStep
  PROVE  \/ /\ cleanups' \subseteq cleanups
            /\ \A k \in cleanups' : ~CleanupRemove(k)
         \/ \E c \in Clients :
              /\ conn[c] = "connected" /\ conn'[c] = "closed" /\ hook[c] # None
              /\ cleanups' = cleanups \cup
                   {[conn |-> c, cause |-> "closed", receipt |-> hook[c], step |-> "close"]}
              /\ UNCHANGED <<bcast, subs, receipt, hook>>
         \/ \E k \in cleanups :
              /\ cleanups' = (cleanups \ {k}) \cup {[k EXCEPT !.step = "remove"]}
              /\ UNCHANGED <<bcast, subs, receipt, hook>>
  <1>1. InductiveInv
    BY DEF TidyStep, Tidy
  <1> DEFINE Fewer == /\ cleanups' \subseteq cleanups
                      /\ \A k \in cleanups' : ~CleanupRemove(k)
  <1>2. ASSUME cleanups' = cleanups PROVE Fewer
    BY <1>2 DEF CleanupRemove
  <1>3. ASSUME NEW c \in Clients, HandlerStep(c) PROVE Fewer
    <2>1. RegisterSubscriber(c) => cleanups' = cleanups
      BY FreshNumber
    <2>2. cleanups' = cleanups
      BY <1>3, <2>1
      DEF HandlerStep, HandshakeFails, GetOrCreateBroadcaster, Negotiate, GetSubscriber,
          PollConnectionState, EnsureAgent, WaitCodecParams, SetAgent, InitDriver,
          LookupBroadcaster, Attach, SetCleanup, GetAgent
    <2> QED BY <1>2, <2>2
  <1>4. ASSUME NEW k \in cleanups, CleanupRemove(k) PROVE Fewer
    <2>1. cleanups' = cleanups \ {k}
      BY <1>4 DEF CleanupRemove
    <2> QED BY <2>1 DEF CleanupRemove
  <1>5. ASSUME NEW k \in cleanups, CleanupClose(k)
        PROVE  /\ cleanups' = (cleanups \ {k}) \cup {[k EXCEPT !.step = "remove"]}
               /\ UNCHANGED <<bcast, subs, receipt, hook>>
    <2>1. conn[k.conn] = "closed"
      BY DEF TidyStep, Tidy, OrderlyInv, OwnCleanup
    <2> QED BY <1>5, <2>1 DEF CleanupClose, Close, locals, manager
  <1>6. ASSUME NEW c \in Clients, BrowserCloses(c)
        PROVE  \/ cleanups' = cleanups
               \/ /\ conn[c] = "connected" /\ conn'[c] = "closed" /\ hook[c] # None
                  /\ cleanups' = cleanups \cup
                       {[conn |-> c, cause |-> "closed", receipt |-> hook[c], step |-> "close"]}
                  /\ UNCHANGED <<bcast, subs, receipt, hook>>
    <2>1. /\ conn[c] = "connected" /\ cleanups' = cleanups \cup Notify(c, "closed")
          /\ conn' = [conn EXCEPT ![c] = "closed"] /\ UNCHANGED <<bcast, subs, receipt, hook>>
      BY <1>6 DEF BrowserCloses, Close, locals, manager
    <2>2. conn'[c] = "closed"
      BY <1>1, <2>1, Types
    <2> QED BY <2>1, <2>2 DEF Notify
  <1>7. ASSUME NEW c \in Clients, Connect(c) \/ Disconnect(c) \/ UseNilAgent(c) PROVE cleanups' = cleanups
    BY <1>7 DEF Connect, Disconnect, UseNilAgent
  <1>8. ASSUME NEW c \in Clients, IceFails(c) PROVE FALSE
    BY <1>8 DEF IceFails, TidyStep, Orderly
  <1>9. UNCHANGED vars => cleanups' = cleanups
    BY DEF vars
  <1>10. \/ \E c \in Clients : HandlerStep(c) \/ UseNilAgent(c) \/ NetworkStep(c)
         \/ \E k \in cleanups : CleanupStep(k)
         \/ UNCHANGED vars
    BY DEF TidyStep, Next
  <1> HIDE DEF Fewer
  <1>11. ASSUME NEW c \in Clients, NetworkStep(c)
         PROVE  \/ Fewer
                \/ /\ conn[c] = "connected" /\ conn'[c] = "closed" /\ hook[c] # None
                   /\ cleanups' = cleanups \cup
                        {[conn |-> c, cause |-> "closed", receipt |-> hook[c], step |-> "close"]}
                   /\ UNCHANGED <<bcast, subs, receipt, hook>>
    BY <1>2, <1>6, <1>7, <1>8, <1>11 DEF NetworkStep
  <1> SUFFICES ASSUME ~Fewer PROVE
         \/ \E c \in Clients :
              /\ conn[c] = "connected" /\ conn'[c] = "closed" /\ hook[c] # None
              /\ cleanups' = cleanups \cup
                   {[conn |-> c, cause |-> "closed", receipt |-> hook[c], step |-> "close"]}
              /\ UNCHANGED <<bcast, subs, receipt, hook>>
         \/ \E k \in cleanups :
              /\ cleanups' = (cleanups \ {k}) \cup {[k EXCEPT !.step = "remove"]}
              /\ UNCHANGED <<bcast, subs, receipt, hook>>
    BY DEF Fewer
  <1>12. CASE \E c \in Clients : NetworkStep(c)
    BY <1>11, <1>12
  <1>13. CASE \E k \in cleanups : CleanupStep(k)
    BY <1>4, <1>5, <1>13 DEF CleanupStep
  <1> QED BY <1>2, <1>3, <1>7, <1>9, <1>10, <1>12, <1>13

\* Every callback runs once, for the session it was installed for.
LEMMA CleanupsOwn == ASSUME TidyStep PROVE OwnCleanup'
  <1>1. InductiveInv /\ OwnCleanup /\ EntryStays /\ Tidy /\ [Next]_vars
    BY DEF TidyStep, Tidy, OrderlyInv
  <1>2. ASSUME NEW c \in Clients, hook'[c] # None
        PROVE  hook'[c] = receipt'[c] /\ hpc'[c] \in {"metainfo", "streaming", "done"}
    <2>1. CASE hook' = hook
      <3>1. /\ hook[c] = receipt[c] /\ hpc[c] \in {"metainfo", "streaming", "done"}
            /\ receipt[c] # None
        BY <1>1, <1>2, <2>1 DEF OwnCleanup
      <3> QED BY <1>1, <2>1, <3>1, PastSetCleanup, ReceiptStays
    <2>2. ASSUME NEW x \in Clients, receipt[x] \in Receipts, hook' = [hook EXCEPT ![x] = receipt[x]],
                 hpc' = [hpc EXCEPT ![x] = "metainfo"], receipt' = receipt
          PROVE  hook'[c] = receipt'[c] /\ hpc'[c] \in {"metainfo", "streaming", "done"}
      <3>1. CASE x = c
        BY <1>1, <2>2, <3>1, Types
      <3>2. CASE x # c
        <4>1. hook[c] # None /\ hook'[c] = hook[c] /\ hpc'[c] = hpc[c]
          BY <1>1, <1>2, <2>2, <3>2, Types
        <4> QED BY <1>1, <2>2, <4>1 DEF OwnCleanup
      <3> QED BY <3>1, <3>2
    <2> QED BY <1>1, <2>1, <2>2, HookSet
  <1>3. ASSUME NEW k \in cleanups
        PROVE  k.conn \in Clients /\ conn'[k.conn] = "closed" /\ hook'[k.conn] = k.receipt
    <2>1. /\ k.conn \in Clients /\ k.receipt \in Receipts
          /\ conn[k.conn] = "closed" /\ hook[k.conn] = k.receipt /\ hook[k.conn] # None
          /\ hpc[k.conn] # "setCleanup"
      <3>1. k.conn \in Clients /\ k.receipt \in Receipts /\ None \notin Receipts
        BY <1>1, Types
      <3> QED BY <1>1, <3>1 DEF OwnCleanup
    <2>2. conn'[k.conn] = "closed"
      BY <2>1, GoneStays DEF Gone
    <2>3. hook'[k.conn] = hook[k.conn]
      <3>1. ASSUME NEW x \in Clients, hpc[x] = "setCleanup", hook' = [hook EXCEPT ![x] = receipt[x]]
            PROVE  hook'[k.conn] = hook[k.conn]
        BY <1>1, <2>1, <3>1, Types
      <3> QED BY <1>1, <3>1, HookSet
    <2> QED BY <2>1, <2>2, <2>3
  <1>4. ASSUME NEW c \in Clients, Counted(c), UNCHANGED <<bcast, subs, receipt>>
        PROVE  Counted(c)'
    BY <1>4 DEF Counted, Slot
  <1>5. CASE cleanups' \subseteq cleanups /\ \A k \in cleanups' : ~CleanupRemove(k)
    <2>1. ASSUME NEW k \in cleanups' PROVE Counted(k.conn)'
      <3>1. /\ k \in cleanups /\ k.conn \in Clients /\ Counted(k.conn)
            /\ receipt[k.conn] = k.receipt /\ k.receipt # None
        BY <1>1, <1>5, Types DEF OwnCleanup
      <3>2. \A k2 \in cleanups : k2.conn = k.conn => ~CleanupRemove(k2)
        BY <1>1, <1>5, <3>1 DEF OwnCleanup
      <3> QED BY <3>1, <3>2, CountedStays
    <2> QED BY <1>1, <1>2, <1>3, <1>5, <2>1 DEF OwnCleanup
  <1>6. ASSUME NEW c \in Clients, conn[c] = "connected", conn'[c] = "closed", hook[c] # None,
               cleanups' = cleanups \cup
                 {[conn |-> c, cause |-> "closed", receipt |-> hook[c], step |-> "close"]},
               UNCHANGED <<bcast, subs, receipt, hook>>
        PROVE  OwnCleanup'
    <2> DEFINE n == [conn |-> c, cause |-> "closed", receipt |-> hook[c], step |-> "close"]
    <2>1. n.conn = c /\ n.receipt = hook[c] /\ cleanups' = cleanups \cup {n}
      BY <1>6
    <2> HIDE DEF n
    <2>2. receipt[c] # None /\ ~Gone(c) /\ Counted(c)
      BY <1>1, <1>6 DEF OwnCleanup, EntryStays, Gone
    <2>3. \A k \in cleanups : k.conn # c
      BY <1>1, <1>6 DEF OwnCleanup
    <2>4. \A k \in cleanups' : conn'[k.conn] = "closed" /\ hook'[k.conn] = k.receipt /\ Counted(k.conn)'
      BY <1>1, <1>3, <1>4, <1>6, <2>1, <2>2 DEF OwnCleanup
    <2>5. \A k1, k2 \in cleanups' : k1.conn = k2.conn => k1 = k2
      BY <1>1, <2>1, <2>3 DEF OwnCleanup
    <2> QED BY <1>2, <2>4, <2>5 DEF OwnCleanup
  <1>7. ASSUME NEW k0 \in cleanups,
               cleanups' = (cleanups \ {k0}) \cup {[k0 EXCEPT !.step = "remove"]},
               UNCHANGED <<bcast, subs, receipt, hook>>
        PROVE  OwnCleanup'
    <2> DEFINE n == [k0 EXCEPT !.step = "remove"]
    <2>1. n.conn = k0.conn /\ n.receipt = k0.receipt
      <3>1. k0 \in Cleanup
        BY <1>1, Types
      <3> QED BY <3>1 DEF Cleanup
    <2>2. cleanups' = (cleanups \ {k0}) \cup {n}
      BY <1>7
    <2> HIDE DEF n
    <2>3. \A k \in cleanups' : conn'[k.conn] = "closed" /\ hook'[k.conn] = k.receipt /\ Counted(k.conn)'
      BY <1>1, <1>3, <1>4, <1>7, <2>1, <2>2 DEF OwnCleanup
    <2>4. \A k1, k2 \in cleanups' : k1.conn = k2.conn => k1 = k2
      BY <1>1, <2>1, <2>2 DEF OwnCleanup
    <2> QED BY <1>2, <2>3, <2>4 DEF OwnCleanup
  <1> QED BY <1>5, <1>6, <1>7, CallbackRuns

\* A handler on its way from the registration to its callback finds its own entry.
OnTheWay == {"lookup", "poll", "ensure", "codec", "setAgent", "initDriver", "start",
             "attach", "setCleanup"}

\* A session on its way through the handshake has its entry in the broadcaster of the map.
LEMMA OwnEntry ==
  ASSUME Tidy, NEW c \in Clients, hpc[c] \in OnTheWay
  PROVE  /\ receipt[c] # None /\ hook[c] = None /\ ~Gone(c)
         /\ bcast[DeviceOf[c]] \in Clients /\ Slot(bcast[DeviceOf[c]], c) = c
  <1>1. receipt[c] # None /\ hook[c] = None
    BY DEF Tidy, InductiveInv, LocalsSet, Registered, OrderlyInv, OwnCleanup, OnTheWay
  <1>2. ~Gone(c) /\ Counted(c)
    BY <1>1 DEF Tidy, OrderlyInv, EntryStays, Gone
  <1> QED BY <1>1, <1>2, Types DEF Tidy, Counted

\* A session is only ever handed its own connection.
LEMMA TargetsOwn == ASSUME TidyStep PROVE OwnTarget'
  <1>1. /\ Tidy /\ OwnTarget /\ InTheMap /\ [Next]_vars
        /\ target \in [Clients -> Clients \cup {None}]
    BY Types DEF TidyStep, Tidy, OrderlyInv
  <1>2. ASSUME NEW c \in Clients,
               target' = target \/ target' = [target EXCEPT ![c] = None] \/ target' = [target EXCEPT ![c] = c]
        PROVE  OwnTarget'
    BY <1>1, <1>2 DEF OwnTarget
  <1>3. ASSUME NEW c \in Clients, GetSubscriber(c) \/ EnsureAgent(c) PROVE OwnTarget'
    <2>1. hpc[c] \in OnTheWay
      BY <1>3 DEF GetSubscriber, EnsureAgent, Step, OnTheWay
    <2>2. target' = target \/ target' = [target EXCEPT ![c] = Slot(bcast[DeviceOf[c]], c)]
      BY <1>3 DEF GetSubscriber, EnsureAgent
    <2> QED BY <1>1, <1>2, <2>1, <2>2, OwnEntry
  <1>4. ASSUME NEW c \in Clients, Attach(c) PROVE OwnTarget'
    <2>1. /\ hpc[c] = "attach"
          /\ target' = target \/ target' = [target EXCEPT ![c] = Slot(ptr[c], c)]
      BY <1>4 DEF Attach, Step
    <2>2. ptr[c] = bcast[DeviceOf[c]] /\ hpc[c] \in OnTheWay
      BY <1>1, <2>1 DEF InTheMap, OnTheWay
    <2> QED BY <1>1, <1>2, <2>1, <2>2, OwnEntry
  <1>5. ASSUME NEW c \in Clients, HandlerStep(c) PROVE OwnTarget'
    <2>1. CASE GetSubscriber(c) \/ EnsureAgent(c) \/ Attach(c)
      BY <1>3, <1>4, <2>1
    <2>2. CASE ~ (GetSubscriber(c) \/ EnsureAgent(c) \/ Attach(c))
      <3>1. target' = target \/ target' = [target EXCEPT ![c] = None]
        BY <1>5, <2>2
        DEF HandlerStep, HandshakeFails, GetOrCreateBroadcaster, Negotiate, RegisterSubscriber,
            PollConnectionState, WaitCodecParams, SetAgent, InitDriver, LookupBroadcaster,
            SetCleanup, GetAgent, Forget, locals
      <3> QED BY <1>2, <3>1
    <2> QED BY <2>1, <2>2
  <1>6. CASE target' = target
    BY <1>1, <1>6 DEF OwnTarget
  <1> QED
    BY <1>1, <1>5, <1>6
    DEF Next, vars, UseNilAgent, CleanupStep, CleanupClose, CleanupRemove, NetworkStep,
        Connect, Disconnect, IceFails, BrowserCloses, locals

\* What a handler stands at and holds changes by its own steps only.
LEMMA OthersLocals ==
  ASSUME InductiveInv, [Next]_vars, NEW c \in Clients, ~HandlerStep(c)
  PROVE  hpc'[c] = hpc[c] /\ ptr'[c] = ptr[c] /\ feeds'[c] = feeds[c]
  <1>1. /\ hpc \in [Clients -> HandlerStates]
        /\ ptr \in [Clients -> Clients \cup {None}]
        /\ feeds \in [Clients -> Clients \cup {None}]
    BY Types
  <1>2. ASSUME NEW x \in Clients, HandlerStep(x)
        PROVE  hpc'[c] = hpc[c] /\ ptr'[c] = ptr[c] /\ feeds'[c] = feeds[c]
    <2>1. x # c
      BY <1>2
    <2>2. \E s : hpc' = [hpc EXCEPT ![x] = s]
      BY <1>2
      DEF HandlerStep, Step, HandshakeFails, GetOrCreateBroadcaster, Negotiate, RegisterSubscriber,
          GetSubscriber, PollConnectionState, EnsureAgent, WaitCodecParams, SetAgent, InitDriver,
          LookupBroadcaster, Attach, SetCleanup, GetAgent
    <2>3. ptr' = ptr \/ \E p : ptr' = [ptr EXCEPT ![x] = p]
      BY <1>2
      DEF HandlerStep, HandshakeFails, GetOrCreateBroadcaster, Negotiate, RegisterSubscriber,
          GetSubscriber, PollConnectionState, EnsureAgent, WaitCodecParams, SetAgent, InitDriver,
          LookupBroadcaster, Attach, SetCleanup, GetAgent, Forget, locals
    <2>4. feeds' = feeds \/ \E p : feeds' = [feeds EXCEPT ![x] = p]
      BY <1>2
      DEF HandlerStep, HandshakeFails, GetOrCreateBroadcaster, Negotiate, RegisterSubscriber,
          GetSubscriber, PollConnectionState, EnsureAgent, WaitCodecParams, SetAgent, InitDriver,
          LookupBroadcaster, Attach, SetCleanup, GetAgent, Forget, locals
    <2> QED BY <1>1, <2>1, <2>2, <2>3, <2>4
  <1> QED
    BY <1>2
    DEF Next, vars, UseNilAgent, CleanupStep, CleanupClose, CleanupRemove, NetworkStep,
        Connect, Disconnect, IceFails, BrowserCloses, locals

\* The agent of a broadcaster never changes.
LEMMA AgentStays ==
  ASSUME InductiveInv, [Next]_vars, NEW b \in Clients, agent[b] # None
  PROVE  agent'[b] = agent[b]
  <1>1. ASSUME NEW x \in Clients, SetAgent(x) PROVE agent'[b] = agent[b]
    <2>1. \/ agent' = agent
          \/ agent[feeds[x]] = None /\ agent' = [agent EXCEPT ![feeds[x]] = x]
      BY <1>1 DEF SetAgent, StillMissing
    <2> QED BY <2>1, Types
  <1>2. ASSUME NEW x \in Clients, HandlerStep(x) PROVE agent' = agent \/ SetAgent(x)
    BY <1>2
    DEF HandlerStep, HandshakeFails, GetOrCreateBroadcaster, Negotiate, RegisterSubscriber,
        GetSubscriber, PollConnectionState, EnsureAgent, WaitCodecParams, InitDriver,
        LookupBroadcaster, Attach, SetCleanup, GetAgent, manager
  <1>3. ASSUME NEW k \in cleanups, CleanupRemove(k) PROVE agent' = agent
    BY <1>3, Removal
  <1> QED
    BY <1>1, <1>2, <1>3
    DEF Next, vars, UseNilAgent, CleanupStep, CleanupClose, NetworkStep,
        Connect, Disconnect, IceFails, BrowserCloses, manager

\* The broadcaster a handler has looked up is of its own device.
LEMMA PointersStay ==
  ASSUME TidyStep, NEW c \in Clients, ptr'[c] # None
  PROVE  DeviceOf[ptr'[c]] = DeviceOf[c]
  <1>1. /\ InductiveInv /\ InTheMap /\ [Next]_vars
        /\ ptr \in [Clients -> Clients \cup {None}] /\ DeviceOf[c] \in Devices
    BY Types DEF TidyStep, Tidy, OrderlyInv
  <1>2. bcast[DeviceOf[c]] # None => DeviceOf[bcast[DeviceOf[c]]] = DeviceOf[c]
    BY <1>1 DEF InductiveInv, BroadcasterCreatedOnce
  <1>3. CASE ~HandlerStep(c)
    BY <1>1, <1>3, OthersLocals DEF InTheMap
  <1>4. CASE HandlerStep(c)
    <2>1. \/ ptr' = ptr \/ ptr' = [ptr EXCEPT ![c] = None] \/ ptr' = [ptr EXCEPT ![c] = c]
          \/ ptr' = [ptr EXCEPT ![c] = bcast[DeviceOf[c]]]
      BY <1>4
      DEF HandlerStep, HandshakeFails, GetOrCreateBroadcaster, Negotiate, RegisterSubscriber,
          GetSubscriber, PollConnectionState, EnsureAgent, WaitCodecParams, SetAgent, InitDriver,
          LookupBroadcaster, Attach, SetCleanup, GetAgent, Forget, locals
    <2> QED BY <1>1, <1>2, <2>1 DEF InTheMap
  <1> QED BY <1>3, <1>4

\* Between the first look at the agent and the callback, a handler goes by the
\* broadcaster in the map; once past the creation of the agent it has one.
LEMMA LooksInTheMap ==
  ASSUME TidyStep, NEW c \in Clients,
         hpc'[c] \in {"codec", "setAgent", "initDriver", "start", "attach"}
  PROVE  LET b == bcast[DeviceOf[c]] IN
         /\ bcast'[DeviceOf[c]] = b
         /\ hpc'[c] = "attach" => ptr'[c] = b
         /\ hpc'[c] \in {"codec", "setAgent", "initDriver"} => feeds'[c] = b
         /\ hpc'[c] \in {"start", "attach"} => agent'[b] # None
  <1> DEFINE b == bcast[DeviceOf[c]]
  <1>1. /\ Tidy /\ InductiveInv /\ InTheMap /\ [Next]_vars
    BY DEF TidyStep, Tidy, OrderlyInv
  <1>2. /\ hpc \in [Clients -> HandlerStates] /\ ptr \in [Clients -> Clients \cup {None}]
        /\ feeds \in [Clients -> Clients \cup {None}] /\ agent \in [Clients -> Clients \cup {None}]
    BY <1>1, Types
  <1>3. /\ hpc[c] = "attach" => ptr[c] = b
        /\ hpc[c] \in {"codec", "setAgent", "initDriver"} => feeds[c] = b
        /\ hpc[c] \in {"start", "attach"} => agent[b] # None
    BY <1>1 DEF InTheMap
  <1> HIDE DEF b
  <1>4. \/ hpc'[c] = hpc[c] /\ ~HandlerStep(c)
        \/ HandlerStep(c) /\ hpc[c] \in {"ensure", "codec", "setAgent", "initDriver", "start"}
    <2>1. CASE ~HandlerStep(c)
      BY <1>1, <2>1, OthersLocals
    <2>2. CASE HandlerStep(c)
      BY <1>2, <2>2
      DEF HandlerStep, Step, HandshakeFails, GetOrCreateBroadcaster, Negotiate, RegisterSubscriber,
          GetSubscriber, PollConnectionState, EnsureAgent, WaitCodecParams, SetAgent, InitDriver,
          LookupBroadcaster, Attach, SetCleanup, GetAgent
    <2> QED BY <2>1, <2>2
  <1>5. hpc[c] \in OnTheWay
    BY <1>4 DEF OnTheWay
  <1>6. b \in Clients /\ bcast'[DeviceOf[c]] = b
    <2>1. receipt[c] # None /\ ~Gone(c)
      BY <1>1, <1>5, OwnEntry
    <2> QED BY <2>1, OpenStays DEF b
  <1>7. agent[b] # None => agent'[b] # None
    BY <1>1, <1>6, AgentStays
  <1>8. CASE ~HandlerStep(c)
    <2>1. hpc'[c] = hpc[c] /\ ptr'[c] = ptr[c] /\ feeds'[c] = feeds[c]
      BY <1>1, <1>8, OthersLocals
    <2> QED BY <1>3, <1>6, <1>7, <2>1 DEF b
  <1>9. ASSUME EnsureAgent(c)
        PROVE  /\ hpc'[c] # "attach"
               /\ hpc'[c] \in {"codec", "setAgent", "initDriver"} => feeds'[c] = b
               /\ hpc'[c] \in {"start", "attach"} => agent'[b] # None
    <2>1. \/ hpc' = [hpc EXCEPT ![c] = "done"]
          \/ hpc' = [hpc EXCEPT ![c] = "start"] /\ agent[b] # None
          \/ hpc' = [hpc EXCEPT ![c] = "codec"] /\ feeds' = [feeds EXCEPT ![c] = b]
      BY <1>9 DEF EnsureAgent, Step, b
    <2> QED BY <1>2, <1>7, <2>1
  <1>10. ASSUME WaitCodecParams(c)
         PROVE  /\ hpc'[c] # "attach"
                /\ hpc'[c] \in {"codec", "setAgent", "initDriver"} => feeds'[c] = b
                /\ hpc'[c] \in {"start", "attach"} => agent'[b] # None
    <2>1. /\ hpc[c] = "codec"
          /\ \/ hpc' = [hpc EXCEPT ![c] = "done"]
             \/ hpc' = [hpc EXCEPT ![c] = "setAgent"] /\ feeds' = feeds
      BY <1>10 DEF WaitCodecParams, Step
    <2> QED BY <1>2, <1>3, <2>1
  <1>11. ASSUME SetAgent(c)
         PROVE  /\ hpc'[c] # "attach"
                /\ hpc'[c] \in {"codec", "setAgent", "initDriver"} => feeds'[c] = b
                /\ hpc'[c] \in {"start", "attach"} => agent'[b] # None
    <2>1. /\ hpc[c] = "setAgent"
          /\ \/ hpc' = [hpc EXCEPT ![c] = "start"] /\ agent[feeds[c]] # None
             \/ hpc' = [hpc EXCEPT ![c] = "initDriver"] /\ feeds' = feeds
      BY <1>11 DEF SetAgent, Step, StillMissing
    <2> QED BY <1>2, <1>3, <1>7, <2>1
  <1>12. ASSUME InitDriver(c)
         PROVE  /\ hpc'[c] = "start" /\ agent'[b] # None
    <2>1. hpc[c] = "initDriver" /\ hpc' = [hpc EXCEPT ![c] = "start"]
      BY <1>12 DEF InitDriver, Step
    <2>2. driver[c] = "init" /\ feeds[c] = b
      BY <1>1, <1>3, <2>1 DEF InductiveInv, LockHeld
    <2>3. agent[b] = c
      BY <1>1, <2>2 DEF InductiveInv, AgentOwned
    <2> QED BY <1>2, <1>7, <2>1, <2>3, NoneAssumption
  <1>13. ASSUME LookupBroadcaster(c)
         PROVE  /\ hpc'[c] \notin {"codec", "setAgent", "initDriver"}
                /\ hpc'[c] = "attach" => ptr'[c] = b
                /\ hpc'[c] \in {"start", "attach"} => agent'[b] # None
    <2>1. /\ hpc[c] = "start"
          /\ \/ hpc' = [hpc EXCEPT ![c] = "attach"] /\ ptr' = [ptr EXCEPT ![c] = b]
             \/ hpc' = [hpc EXCEPT ![c] = "done"]
      BY <1>13 DEF LookupBroadcaster, Step, b
    <2> QED BY <1>2, <1>3, <1>7, <2>1
  <1>14. HandlerStep(c) =>
           EnsureAgent(c) \/ WaitCodecParams(c) \/ SetAgent(c) \/ InitDriver(c) \/ LookupBroadcaster(c)
    BY <1>2, <1>4
    DEF HandlerStep, Step, HandshakeFails, GetOrCreateBroadcaster, Negotiate, RegisterSubscriber,
        GetSubscriber, PollConnectionState, Attach, SetCleanup, GetAgent
  <1> QED BY <1>6, <1>8, <1>9, <1>10, <1>11, <1>12, <1>13, <1>14 DEF b

\* The broadcaster a handler goes by stays the one newcomers are sent to.
LEMMA MapFollowed == ASSUME TidyStep PROVE InTheMap'
  BY PointersStay, LooksInTheMap DEF InTheMap

\* The agent a connection was attached to is the device's, until the connection is gone.
LEMMA ServiceStays == ASSUME TidyStep PROVE Served'
  <1>1. /\ Tidy /\ InductiveInv /\ InTheMap /\ Served /\ [Next]_vars
    BY DEF TidyStep, Tidy, OrderlyInv
  <1>2. /\ hpc \in [Clients -> HandlerStates] /\ hook \in [Clients -> Receipts \cup {None}]
        /\ serving \in [Clients -> Clients \cup {None}] /\ agent \in [Clients -> Clients \cup {None}]
    BY <1>1, Types
  <1> SUFFICES ASSUME NEW c \in Clients, hpc'[c] = "setCleanup" \/ hook'[c] # None
               PROVE  /\ serving'[c] # None
                      /\ ~Gone(c)' => serving'[c] = agent'[bcast'[DeviceOf[c]]]
    BY DEF Served
  <1>3. ASSUME NEW x \in Clients, Attach(x)
        PROVE  \/ serving' = serving /\ hpc' = [hpc EXCEPT ![x] = "done"]
               \/ /\ hpc[x] = "attach" /\ agent[bcast[DeviceOf[x]]] # None
                  /\ hpc' = [hpc EXCEPT ![x] = "setCleanup"]
                  /\ serving' = [serving EXCEPT ![x] = agent[bcast[DeviceOf[x]]]]
                  /\ UNCHANGED <<agent, bcast, hook>>
    <2>1. /\ hpc[x] = "attach"
          /\ \/ serving' = serving /\ hpc' = [hpc EXCEPT ![x] = "done"]
             \/ /\ hpc' = [hpc EXCEPT ![x] = "setCleanup"]
                /\ serving' = [serving EXCEPT ![Slot(ptr[x], x)] = agent[ptr[x]]]
                /\ UNCHANGED <<agent, bcast, hook>>
      BY <1>3 DEF Attach, Step, manager
    <2>2. ptr[x] = bcast[DeviceOf[x]] /\ agent[bcast[DeviceOf[x]]] # None
      BY <1>1, <2>1 DEF InTheMap
    <2>3. Slot(ptr[x], x) = x
      BY <1>1, <2>1, <2>2, OwnEntry DEF OnTheWay
    <2> QED BY <2>1, <2>2, <2>3
  <1>4. \/ serving' = serving
        \/ \E x \in Clients :
              /\ hpc[x] = "attach" /\ agent[bcast[DeviceOf[x]]] # None
              /\ hpc' = [hpc EXCEPT ![x] = "setCleanup"]
              /\ serving' = [serving EXCEPT ![x] = agent[bcast[DeviceOf[x]]]]
              /\ UNCHANGED <<agent, bcast, hook>>
    <2>1. ASSUME NEW x \in Clients, HandlerStep(x) PROVE serving' = serving \/ Attach(x)
      BY <2>1
      DEF HandlerStep, HandshakeFails, GetOrCreateBroadcaster, Negotiate, RegisterSubscriber,
          GetSubscriber, PollConnectionState, EnsureAgent, WaitCodecParams, SetAgent, InitDriver,
          LookupBroadcaster, SetCleanup, GetAgent
    <2>2. (\A x \in Clients : ~Attach(x)) => serving' = serving
      BY <1>1, <2>1
      DEF Next, vars, UseNilAgent, CleanupStep, CleanupClose, CleanupRemove, NetworkStep,
          Connect, Disconnect, IceFails, BrowserCloses
    <2> QED BY <1>3, <2>2
  <1>5. ASSUME NEW x \in Clients, x = c,
               agent[bcast[DeviceOf[x]]] # None,
               serving' = [serving EXCEPT ![x] = agent[bcast[DeviceOf[x]]]],
               UNCHANGED <<agent, bcast, hook>>
        PROVE  /\ serving'[c] # None
               /\ ~Gone(c)' => serving'[c] = agent'[bcast'[DeviceOf[c]]]
    BY <1>2, <1>5
  <1>6. ASSUME serving'[c] = serving[c], hpc[c] = "setCleanup" \/ hook[c] # None
        PROVE  /\ serving'[c] # None
               /\ ~Gone(c)' => serving'[c] = agent'[bcast'[DeviceOf[c]]]
    <2>1. serving[c] # None /\ (~Gone(c) => serving[c] = agent[bcast[DeviceOf[c]]])
      BY <1>1, <1>6 DEF Served
    <2>2. ASSUME ~Gone(c)' PROVE serving[c] = agent'[bcast'[DeviceOf[c]]]
      <3>1. ~Gone(c)
        BY <2>2, GoneStays
      <3>2. receipt[c] # None
        BY <1>1, <1>6, OwnEntry DEF OnTheWay, Tidy, OrderlyInv, OwnCleanup
      <3>3. bcast[DeviceOf[c]] \in Clients /\ bcast'[DeviceOf[c]] = bcast[DeviceOf[c]]
        BY <3>1, <3>2, OpenStays
      <3>4. agent'[bcast[DeviceOf[c]]] = agent[bcast[DeviceOf[c]]]
        BY <1>1, <2>1, <3>1, <3>3, AgentStays
      <3> QED BY <2>1, <3>1, <3>3, <3>4
    <2> QED BY <1>6, <2>1, <2>2
  <1>7. hook'[c] # None => hpc[c] = "setCleanup" \/ hook[c] # None
    <2>1. ASSUME NEW x \in Clients, hpc[x] = "setCleanup", hook' = [hook EXCEPT ![x] = receipt[x]]
          PROVE  hook'[c] # None => hpc[c] = "setCleanup" \/ hook[c] # None
      BY <1>2, <2>1
    <2> QED BY <1>1, <2>1, HookSet
  <1>8. hpc'[c] = "setCleanup" => hpc[c] = "setCleanup" \/ Attach(c)
    <2>1. ~HandlerStep(c) => hpc'[c] = hpc[c]
      BY <1>1, OthersLocals
    <2>2. HandlerStep(c) /\ hpc'[c] = "setCleanup" => Attach(c)
      BY <1>2
      DEF HandlerStep, Step, HandshakeFails, GetOrCreateBroadcaster, Negotiate, RegisterSubscriber,
          GetSubscriber, PollConnectionState, EnsureAgent, WaitCodecParams, SetAgent, InitDriver,
          LookupBroadcaster, SetCleanup, GetAgent
    <2> QED BY <2>1, <2>2
  <1>9. CASE Attach(c) /\ hpc'[c] = "setCleanup"
    <2>1. ~ (hpc' = [hpc EXCEPT ![c] = "done"])
      BY <1>2, <1>9
    <2> QED BY <1>3, <1>5, <1>9, <2>1
  <1>10. CASE ~(Attach(c) /\ hpc'[c] = "setCleanup")
    <2>1. hpc[c] = "setCleanup" \/ hook[c] # None
      BY <1>7, <1>8, <1>10
    <2>2. hpc[c] # "attach"
      BY <1>1, <2>1 DEF Tidy, OrderlyInv, OwnCleanup
    <2>3. serving'[c] = serving[c]
      BY <1>2, <1>4, <2>2
    <2> QED BY <1>6, <2>1, <2>3
  <1> QED BY <1>9, <1>10

\* The numbers in use have been given, and the next one is free.
LEMMA NumbersStay == ASSUME TidyStep PROVE NumbersGiven'
  <1>1. InductiveInv /\ NumbersGiven /\ BroadcasterStartsEmpty
    BY DEF TidyStep, Tidy, OrderlyInv
  <1>2. \A d \in Devices, r \in Receipts : Given(d, r) => Given(d, r)'
    BY ReceiptStays, NoneAssumption DEF Given
  <1>3. /\ \A d \in Devices : bcast[d] \in Clients \cup {None} /\ counter[d] \in Receipts
        /\ subs \in [Clients -> [Receipts -> Clients \cup {None}]]
        /\ bcast \in [Devices -> Clients \cup {None}] /\ counter \in [Devices -> Receipts]
    BY <1>1, Types
  <1>4. ASSUME NEW d \in Devices, counter'[d] = counter[d],
               \/ bcast'[d] = None
               \/ /\ bcast'[d] = bcast[d]
                  /\ \A r \in Receipts : subs'[bcast[d]][r] # None => subs[bcast[d]][r] # None
        PROVE  /\ \A r \in Receipts : r < counter'[d] => Given(d, r)'
               /\ bcast'[d] # None => \A r \in Receipts : subs'[bcast'[d]][r] # None =>
                    r < counter'[d] \/ (counter'[d] = 0 /\ \A q \in Receipts : Given(d, q)')
    BY <1>1, <1>2, <1>4 DEF NumbersGiven
  <1>5. ASSUME NEW d \in Devices, counter'[d] = 0,
               bcast'[d] = None \/ \A r \in Receipts : subs'[bcast'[d]][r] = None
        PROVE  /\ \A r \in Receipts : r < counter'[d] => Given(d, r)'
               /\ bcast'[d] # None => \A r \in Receipts : subs'[bcast'[d]][r] # None =>
                    r < counter'[d] \/ (counter'[d] = 0 /\ \A q \in Receipts : Given(d, q)')
    BY <1>5 DEF Receipts
  <1> SUFFICES ASSUME NEW d \in Devices
               PROVE  /\ \A r \in Receipts : r < counter'[d] => Given(d, r)'
                      /\ bcast'[d] # None => \A r \in Receipts : subs'[bcast'[d]][r] # None =>
                           r < counter'[d] \/ (counter'[d] = 0 /\ \A q \in Receipts : Given(d, q)')
    BY DEF NumbersGiven
  <1>6. ASSUME NEW c \in Clients, GetOrCreateBroadcaster(c)
        PROVE  /\ \A r \in Receipts : r < counter'[d] => Given(d, r)'
               /\ bcast'[d] # None => \A r \in Receipts : subs'[bcast'[d]][r] # None =>
                    r < counter'[d] \/ (counter'[d] = 0 /\ \A q \in Receipts : Given(d, q)')
    <2>1. /\ UNCHANGED <<counter, subs>> /\ hpc[c] = "idle"
          /\ bcast' = bcast \/ bcast' = [bcast EXCEPT ![DeviceOf[c]] = c]
      BY <1>6 DEF GetOrCreateBroadcaster, Step
    <2>2. \A r \in Receipts : subs[c][r] = None
      BY <1>1, <2>1 DEF BroadcasterStartsEmpty, NoneLeft
    <2>3. bcast'[d] = bcast[d] \/ bcast'[d] = c
      BY <1>3, <2>1
    <2>4. CASE bcast'[d] = bcast[d]
      BY <1>4, <2>1, <2>4
    <2>5. CASE bcast'[d] = c
      BY <1>1, <1>2, <2>1, <2>2, <2>5 DEF NumbersGiven
    <2> QED BY <2>3, <2>4, <2>5
  <1>7. ASSUME NEW c \in Clients, RegisterSubscriber(c), DeviceOf[c] # d
        PROVE  /\ \A r \in Receipts : r < counter'[d] => Given(d, r)'
               /\ bcast'[d] # None => \A r \in Receipts : subs'[bcast'[d]][r] # None =>
                    r < counter'[d] \/ (counter'[d] = 0 /\ \A q \in Receipts : Given(d, q)')
    <2>1. /\ bcast' = bcast /\ bcast[DeviceOf[c]] \in Clients /\ DeviceOf[c] \in Devices
          /\ counter' = [counter EXCEPT ![DeviceOf[c]] = NextNumber(counter[DeviceOf[c]])]
      BY <1>7, FreshNumber
    <2>2. counter'[d] = counter[d]
      BY <1>3, <1>7, <2>1
    <2>3. bcast[d] # None => bcast[d] \in Clients /\ bcast[d] # bcast[DeviceOf[c]]
      BY <1>1, <1>3, <1>7, <2>1 DEF InductiveInv, BroadcasterCreatedOnce
    <2>4. bcast[d] # None => \A r \in Receipts : subs'[bcast[d]][r] = subs[bcast[d]][r]
      BY <1>7, <2>3, FreshNumber
    <2> QED BY <1>4, <2>1, <2>2, <2>4
  <1>8. ASSUME NEW c \in Clients, RegisterSubscriber(c), DeviceOf[c] = d
        PROVE  /\ \A r \in Receipts : r < counter'[d] => Given(d, r)'
               /\ bcast'[d] # None => \A r \in Receipts : subs'[bcast'[d]][r] # None =>
                    r < counter'[d] \/ (counter'[d] = 0 /\ \A q \in Receipts : Given(d, q)')
    <2> DEFINE n == counter[d]
               b == bcast[d]
    <2>1. /\ n \in Receipts /\ receipt[c] = None /\ b \in Clients /\ bcast' = bcast
          /\ receipt' = [receipt EXCEPT ![c] = n]
          /\ counter' = [counter EXCEPT ![d] = NextNumber(n)]
          /\ \A q \in Receipts : subs'[b][q] = IF q = n THEN c ELSE subs[b][q]
      BY <1>8, FreshNumber
    <2>2. counter'[d] = NextNumber(n) /\ receipt'[c] = n
      BY <1>1, <1>3, <2>1, Types
    <2> HIDE DEF n, b
    <2>3. \A q \in Receipts : q = n => Given(d, q)'
      BY <1>8, <2>2 DEF Given
    <2>4. \A q \in Receipts : q < n => Given(d, q)'
      BY <1>1, <1>2 DEF NumbersGiven, n
    <2>5. n \in 0 .. (MaxClients - 1) /\ MaxClients \in Nat
      BY <2>1, MaxClientsAssumption DEF Receipts
    <2>6. \/ n < MaxClients - 1 /\ counter'[d] = n + 1
          \/ n = MaxClients - 1 /\ counter'[d] = 0
      <3>1. CASE n < MaxClients - 1
        BY <2>2, <2>5, <3>1 DEF NextNumber
      <3>2. CASE n = MaxClients - 1
        BY <2>2, <2>5, <3>2, MaxClientsAssumption DEF NextNumber
      <3> QED BY <2>5, <3>1, <3>2
    <2>7. ~ \A q \in Receipts : Given(d, q)
      BY <1>1, <2>1, NumbersLeft DEF TidyStep
    <2>8. \A q \in Receipts : subs'[b][q] # None => q < n \/ q = n
      BY <1>1, <2>1, <2>7, NoneAssumption DEF NumbersGiven, n, b
    <2>9. bcast'[d] = b
      BY <2>1 DEF b
    <2>10. CASE n < MaxClients - 1 /\ counter'[d] = n + 1
      <3>1. \A q \in Receipts : q < n + 1 <=> q < n \/ q = n
        BY <2>5 DEF Receipts
      <3> QED BY <2>3, <2>4, <2>8, <2>9, <2>10, <3>1
    <2>11. CASE n = MaxClients - 1 /\ counter'[d] = 0
      <3>1. \A q \in Receipts : (q < n \/ q = n) /\ ~ (q < 0)
        BY <2>5, <2>11 DEF Receipts
      <3>2. \A q \in Receipts : Given(d, q)'
        BY <2>3, <2>4, <3>1
      <3> QED BY <2>11, <3>1, <3>2
    <2> QED BY <2>6, <2>10, <2>11
  <1>9. ASSUME NEW k \in cleanups, CleanupRemove(k)
        PROVE  /\ \A r \in Receipts : r < counter'[d] => Given(d, r)'
               /\ bcast'[d] # None => \A r \in Receipts : subs'[bcast'[d]][r] # None =>
                    r < counter'[d] \/ (counter'[d] = 0 /\ \A q \in Receipts : Given(d, q)')
    <2>1. CASE bcast[DeviceOf[k.conn]] = None
      <3>1. UNCHANGED <<bcast, subs, counter>>
        BY <1>1, <1>9, <2>1, Removal
      <3> QED BY <1>4, <3>1
    <2>2. CASE bcast[DeviceOf[k.conn]] # None
      <3>1. \A x \in Clients, q \in Receipts : subs'[x][q] # None => subs[x][q] # None
        BY <1>1, <1>9, <2>2, Removal
      <3>2. \/ bcast' = bcast /\ counter' = counter
            \/ /\ bcast' = [bcast EXCEPT ![DeviceOf[k.conn]] = None]
               /\ counter' = [counter EXCEPT ![DeviceOf[k.conn]] = 0]
        BY <1>1, <1>9, <2>2, Removal
      <3>3. CASE bcast'[d] = None /\ counter'[d] = 0
        BY <1>5, <3>3
      <3>4. CASE bcast'[d] = bcast[d] /\ counter'[d] = counter[d]
        <4>1. bcast[d] # None => bcast[d] \in Clients
          BY <1>3
        <4> QED BY <1>4, <3>1, <3>4, <4>1
      <3> QED BY <1>3, <3>2, <3>3, <3>4
    <2> QED BY <2>1, <2>2
  <1>10. CASE UNCHANGED <<bcast, subs, receipt, counter>>
    BY <1>4, <1>10
  <1> QED BY <1>6, <1>7, <1>8, <1>9, <1>10, Untouched DEF TidyStep

\* The empty manager is orderly.
LEMMA OrderlyStart == Init => OrderlyInv
  <1> SUFFICES ASSUME Init PROVE OrderlyInv
    OBVIOUS
  <1>1. EntryStays /\ OwnCleanup /\ OwnTarget
    BY DEF Init, EntryStays, OwnCleanup, OwnTarget
  <1>2. InTheMap /\ Served
    BY DEF Init, InTheMap, Served
  <1>3. NumbersGiven
    BY DEF Init, NumbersGiven, Receipts
  <1> QED BY <1>1, <1>2, <1>3 DEF OrderlyInv

\* With no more sessions than receipt numbers and without failures of ICE: as long as
\* nobody has registered in a broadcaster that had left the map, every session is
\* counted under its own number, handles its own connection, and serves it by the
\* agent newcomers find.
THEOREM OrderlySessions == ASSUME Orderly PROVE Spec => [](NoStray => OrderlyInv)
  <1> DEFINE Inv == InductiveInv /\ BroadcasterStartsEmpty /\ (NoStray => OrderlyInv)
  <1>1. Init => Inv
    <2>1. Init => BroadcasterStartsEmpty
      BY ZeroReceipt DEF Init, BroadcasterStartsEmpty, NoneLeft
    <2> QED BY <2>1, InitInductive, OrderlyStart
  <1>2. Inv /\ [Next]_vars => Inv'
    <2> SUFFICES ASSUME Inv, [Next]_vars PROVE Inv'
      OBVIOUS
    <2>1. InductiveInv'
      BY TypeStep, LockStep, MapStep, EntryStep DEF InductiveInv
    <2>2. BroadcasterStartsEmpty'
      BY EmptyStep
    <2>3. ASSUME NoStray' PROVE OrderlyInv'
      <3>1. NoStray
        BY <2>3, StrayStays
      <3>2. TidyStep
        BY <2>3, <3>1 DEF TidyStep, Tidy
      <3> QED
        BY <3>2, EntriesStay, CleanupsOwn, TargetsOwn, MapFollowed, ServiceStays, NumbersStay DEF OrderlyInv
    <2> QED BY <2>1, <2>2, <2>3
  <1>3. Inv => (NoStray => OrderlyInv)
    OBVIOUS
  <1> QED BY <1>1, <1>2, <1>3, PTL DEF Spec

\* Under the same conditions an open connection with a callback has its entry in the
\* map, ...
THEOREM SessionsCounted == ASSUME Orderly PROVE Spec => [](NoStray => OpenConnectionIsCounted)
  <1>1. OrderlyInv => OpenConnectionIsCounted
    <2> SUFFICES ASSUME OrderlyInv, NEW c \in Clients, hook[c] # None, conn[c] \in {"pending", "connected"}
                 PROVE  bcast[DeviceOf[c]] # None /\ Slot(bcast[DeviceOf[c]], c) = c
      BY DEF OpenConnectionIsCounted
    <2>1. hook[c] = receipt[c] /\ ~Gone(c)
      BY DEF OrderlyInv, OwnCleanup, Gone
    <2> QED BY <2>1 DEF OrderlyInv, EntryStays, Counted
  <1> QED BY OrderlySessions, <1>1, PTL

\* ... every connection with a callback was given an agent, ...
THEOREM SessionsAttached == ASSUME Orderly PROVE Spec => [](NoStray => AttachedToAgent)
  <1>1. OrderlyInv => AttachedToAgent
    BY DEF OrderlyInv, Served, AttachedToAgent
  <1> QED BY OrderlySessions, <1>1, PTL

\* ... and no agent is closed while a connection it serves is open.
THEOREM SessionsServed == ASSUME Orderly PROVE Spec => [](NoStray => ClosedAgentServesNobody)
  <1>1. InductiveInv /\ OrderlyInv => ClosedAgentServesNobody
    <2> SUFFICES ASSUME InductiveInv, OrderlyInv, NEW c \in Clients,
                        hook[c] # None, conn[c] = "connected", serving[c] # None
                 PROVE  driver[serving[c]] # "stopped"
      BY DEF ClosedAgentServesNobody
    <2> DEFINE b == bcast[DeviceOf[c]]
    <2>1. DeviceOf[c] \in Devices /\ b \in Clients \cup {None} /\ agent \in [Clients -> Clients \cup {None}]
      BY Types
    <2>2. hook[c] = receipt[c] /\ ~Gone(c)
      BY DEF OrderlyInv, OwnCleanup, Gone
    <2>3. b # None /\ serving[c] = agent[b]
      BY <2>2 DEF OrderlyInv, EntryStays, Counted, Served
    <2>4. feeds[agent[b]] = b
      BY <2>1, <2>3 DEF InductiveInv, AgentOwned
    <2> QED BY <2>1, <2>3, <2>4 DEF InductiveInv, MapConsistent
  <1> QED BY OrderlySessions, Inductive, <1>1, PTL
=============================================================================
