---------------------------- MODULE DeviceSharing ----------------------------
(***************************************************************************)
(* What the manager promises of a device, without broadcasters, receipt    *)
(* numbers, locks or callbacks: a set of viewers, at most MaxClients of    *)
(* them, and an agent that starts for the first viewer that is ready,      *)
(* never while nobody watches, and that ends with the last viewer.         *)
(***************************************************************************)
EXTENDS Naturals, FiniteSets

CONSTANTS Clients, Devices, MaxClients

VARIABLES viewers,   \* the sessions a newcomer shares the device with
          service    \* the agent that serves them

dsVars == <<viewers, service>>

ServiceStates == {"off", "starting", "on"}

Init ==
  /\ viewers = [d \in Devices |-> {}]
  /\ service = [d \in Devices |-> "off"]

\* A session joins; when the device is full, or the number it is given is
\* taken, one other session is sent away for it.
Join(d, c) ==
  /\ service[d] # "starting"
  /\ c \notin viewers[d]
  /\ \E out \in {{}} \cup {{v} : v \in viewers[d]} :
       viewers' = [viewers EXCEPT ![d] = (@ \ out) \cup {c}]
  /\ Cardinality(viewers'[d]) <= MaxClients
  /\ UNCHANGED service

\* The agent is brought up for somebody, and in peace: no session comes or
\* goes before it is on.
Begin(d) ==
  /\ viewers[d] # {}
  /\ service[d] = "off"
  /\ service' = [service EXCEPT ![d] = "starting"]
  /\ UNCHANGED viewers

Ready(d) ==
  /\ service[d] = "starting"
  /\ service' = [service EXCEPT ![d] = "on"]
  /\ UNCHANGED viewers

\* A session leaves; the last one takes the agent with it.
Leave(d, c) ==
  /\ service[d] # "starting"
  /\ c \in viewers[d]
  /\ viewers' = [viewers EXCEPT ![d] = @ \ {c}]
  /\ service' = IF viewers[d] = {c} THEN [service EXCEPT ![d] = "off"] ELSE service

Next ==
  \E d \in Devices :
    \/ \E c \in Clients : Join(d, c) \/ Leave(d, c)
    \/ Begin(d)
    \/ Ready(d)

Spec == Init /\ [][Next]_dsVars
=============================================================================
