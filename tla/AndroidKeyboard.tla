--------------------------- MODULE AndroidKeyboard ---------------------------
(***************************************************************************)
(* The keyboard of an Android session.  The page has two of them, and the  *)
(* button uhidKeyboardToggleBtn chooses: capabilities/keyboard.js injects  *)
(* key codes, capabilities/uhid_keyboard.js plugs in a virtual HID device  *)
(* and sends it reports.  Both send over the ordered data channel; the     *)
(* agent parses each message and writes it to the control connection.      *)
(*                                                                         *)
(* A handler of the page runs to its end, so it is one step.  The channel  *)
(* is open and this page is the device's only viewer.                      *)
(***************************************************************************)
EXTENDS Naturals, Sequences, SequencesExt, FiniteSets

CONSTANTS
  Letters,      \* keys of KEY_MAP, the modifiers aside
  Modifiers,    \* keys of MODIFIER_MAP
  HidOnly,      \* letters ANDROID_KEYCODES leaves out (F1 to F12, the numpad)
  ReportKeys,   \* letters in a report (6 in the code)
  MaxInFlight   \* bound: messages on their way at once

ASSUME KeyboardAssumption ==
  /\ Letters \cap Modifiers = {} /\ HidOnly \subseteq Letters
  /\ ReportKeys \in Nat \ {0} /\ MaxInFlight \in Nat \ {0, 1}

Keys == Letters \cup Modifiers

VARIABLES
  held, focus,           \* user: keys held down, does the page have the focus?
  missed,                \* (auxiliary) keys whose press or release the page, or
                         \* the keyboard in use, may not have seen
  enabled, initialized,  \* uhidKeyboardEnabled, uhidKeyboardInitialized
  pressed, mods,         \* pressedKeys in order of insertion, currentModifiers
  wire,                  \* messages between page and device
  down, hid              \* device: injected keys, the HID keyboard's last report

user == <<held, focus, missed>>
page == <<enabled, initialized, pressed, mods>>
android == <<down, hid>>
vars == <<user, page, wire, android>>

\* createUHIDKeyboardInputPacket: there is room for the first few keys.
Fill(p) == {p[i] : i \in 1 .. IF Len(p) < ReportKeys THEN Len(p) ELSE ReportKeys}

NoKeys == [keys |-> {}, mods |-> {}]
\* What travels to the phone.
Report == [keys : {S \in SUBSET Letters : Cardinality(S) <= ReportKeys},
           mods : SUBSET Modifiers]
Message == [type : {"down", "up"}, key : Keys \ HidOnly] \cup
           [type : {"create", "destroy"}] \cup
           [type : {"input"}, report : Report]

Init ==
  /\ held = {} /\ focus = TRUE /\ missed = {}
  /\ enabled = FALSE /\ initialized = FALSE
  /\ pressed = <<>> /\ mods = {}
  /\ wire = <<>>
  /\ down = {} /\ hid = {}

-----------------------------------------------------------------------------
(* The page.                                                               *)

\* sendDataChannelMessage, on the ordered channel.
Sent(msgs) == /\ Len(wire) + Len(msgs) <= MaxInFlight
              /\ wire' = wire \o msgs

\* keyboard.js: keys without a key code are ignored.
KeyCode(type, k) == IF k \in HidOnly THEN <<>> ELSE <<[type |-> type, key |-> k]>>

\* sendKeyboardReport.
KeyboardReport(p, m) ==
  IF enabled /\ initialized
  THEN <<[type |-> "input", report |-> [keys |-> Fill(p), mods |-> m]]>>
  ELSE <<>>

\* Both scripts hear a key go down; the browser repeats one that is held.
KeyDown(k) ==
  /\ focus
  /\ held' = held \cup {k}
  /\ \/ /\ ~enabled
        /\ Sent(KeyCode("down", k))
        /\ UNCHANGED <<pressed, mods>>
     \/ /\ enabled /\ k \in Modifiers \ mods
        /\ mods' = mods \cup {k} /\ UNCHANGED pressed
        /\ Sent(KeyboardReport(pressed', mods'))
     \/ /\ enabled /\ k \in Letters \ ToSet(pressed)
        /\ pressed' = Append(pressed, k) /\ UNCHANGED mods
        /\ Sent(KeyboardReport(pressed', mods'))
     \/ /\ enabled /\ k \in mods \cup ToSet(pressed)
        /\ UNCHANGED <<pressed, mods, wire>>
  /\ UNCHANGED <<focus, missed, enabled, initialized, android>>

\* (Broken on purpose: `&` for `& ~`.)
OnlyModifier(k) == mods \cap {k}

\* The modifiers when k is released.
WithoutModifier(k) == mods \ {k}

\* Both scripts hear it come up.
KeyUp(k) ==
  /\ focus /\ k \in held
  /\ held' = held \ {k}
  /\ \/ /\ ~enabled
        /\ Sent(KeyCode("up", k))
        /\ UNCHANGED <<pressed, mods>>
     \/ /\ enabled /\ k \in mods
        /\ mods' = WithoutModifier(k) /\ UNCHANGED pressed
        /\ Sent(KeyboardReport(pressed', mods'))
     \/ /\ enabled /\ UNCHANGED mods
        /\ \E i \in DOMAIN pressed : pressed[i] = k /\ pressed' = RemoveAt(pressed, i)
        /\ Sent(KeyboardReport(pressed', mods'))
     \/ /\ enabled /\ k \notin mods \cup ToSet(pressed)
        /\ UNCHANGED <<pressed, mods, wire>>
  /\ UNCHANGED <<focus, missed, enabled, initialized, android>>

\* (Broken on purpose: modifiers alone are not worth a report.)
LettersPressed == enabled /\ pressed # <<>>

\* There is something to reset.
SomethingPressed == enabled /\ (pressed # <<>> \/ mods # {})

\* The window loses the focus.  keyboard.js does not listen.
Blur ==
  /\ focus /\ focus' = FALSE
  /\ \/ /\ SomethingPressed
        /\ pressed' = <<>> /\ mods' = {}
        /\ Sent(KeyboardReport(pressed', mods'))
     \/ /\ ~SomethingPressed
        /\ UNCHANGED <<pressed, mods, wire>>
  /\ missed' = missed \cup held
  /\ UNCHANGED <<held, enabled, initialized, android>>

\* (Broken on purpose: the old device is removed after the new one is made.)
CreateThenDestroy == <<[type |-> "create"], [type |-> "destroy"]>>

\* initUHIDKeyboard: a device left over from an earlier page goes first.
DestroyThenCreate == <<[type |-> "destroy"], [type |-> "create"]>>

ToggleOn ==
  /\ focus /\ ~enabled
  /\ Sent(IF initialized THEN <<>> ELSE DestroyThenCreate)
  /\ initialized' = TRUE /\ enabled' = TRUE
  /\ missed' = missed \cup held
  /\ UNCHANGED <<held, focus, pressed, mods, android>>

\* (Broken on purpose: the page forgets that the device is gone.)
StillInitialized == initialized

\* destroyUHIDKeyboard leaves pressedKeys and currentModifiers as they are.
DestroyedInitialized == FALSE

ToggleOff ==
  /\ focus /\ enabled
  /\ Sent(IF initialized THEN <<[type |-> "destroy"]>> ELSE <<>>)
  /\ initialized' = DestroyedInitialized /\ enabled' = FALSE
  /\ missed' = missed \cup held
  /\ UNCHANGED <<held, focus, pressed, mods, android>>

-----------------------------------------------------------------------------
(* The user away from the page.                                            *)

Focus ==
  /\ ~focus /\ focus' = TRUE
  /\ UNCHANGED <<held, missed, page, wire, android>>

\* A key moves while another window has the focus.
Elsewhere(k) ==
  /\ ~focus
  /\ held' = IF k \in held THEN held \ {k} ELSE held \cup {k}
  /\ missed' = missed \cup {k}
  /\ UNCHANGED <<focus, page, wire, android>>

-----------------------------------------------------------------------------
(* The device: Agent.HandleEvent, the driver's writes and what they do.    *)

InjectKey(m) ==
  /\ m.type \in {"down", "up"}
  /\ down' = IF m.type = "down" THEN down \cup {m.key} ELSE down \ {m.key}
  /\ UNCHANGED hid

UHIDCreate(m)  == m.type = "create"  /\ hid' = {NoKeys} /\ UNCHANGED down
UHIDDestroy(m) == m.type = "destroy" /\ hid' = {} /\ UNCHANGED down

\* Without a device the report is lost.
UHIDInput(m) ==
  /\ m.type = "input"
  /\ hid' = {m.report : r \in hid}
  /\ UNCHANGED down

HandleEvent ==
  /\ wire # <<>> /\ wire' = Tail(wire)
  /\ \/ InjectKey(Head(wire))
     \/ UHIDCreate(Head(wire))
     \/ UHIDDestroy(Head(wire))
     \/ UHIDInput(Head(wire))
  /\ UNCHANGED <<user, page>>

-----------------------------------------------------------------------------

Next ==
  \/ \E k \in Keys : KeyDown(k) \/ KeyUp(k) \/ Elsewhere(k)
  \/ Blur \/ Focus \/ ToggleOn \/ ToggleOff
  \/ HandleEvent

Spec == Init /\ [][Next]_vars

-----------------------------------------------------------------------------
(* Properties.                                                             *)

TypeOK ==
  /\ held \subseteq Keys /\ missed \subseteq Keys /\ focus \in BOOLEAN
  /\ enabled \in BOOLEAN /\ initialized \in BOOLEAN
  /\ pressed \in Seq(Letters) /\ mods \subseteq Modifiers
  /\ wire \in Seq(Message)
  /\ down \subseteq Keys \ HidOnly /\ hid \subseteq Report

Drained == wire = <<>>

\* The phone has the virtual keyboard exactly when the page believes so, whatever
\* was toggled while earlier messages were under way.
HidDeviceFollows == Drained => (hid # {} <=> initialized)

\* A report never arrives at a phone that has no virtual keyboard (any more).
InputHasDevice == \A i \in 1 .. Len(wire) : i = 1 /\ wire[i].type = "input" => hid # {}

\* "Reset all keys when the window loses the focus": while the page is in the
\* background no key of the virtual keyboard stays down, modifiers included.
BlurReleases == Drained /\ ~focus => hid \subseteq {NoKeys}

\* Keys the virtual keyboard, or the key injection, holds down for the apps.
DownForApps == IF enabled THEN UNION {r.keys \cup r.mods : r \in hid} ELSE down

\* End to end: when every message has arrived, the apps see the keys the user
\* holds, as far as the page has seen them go down and up and the report has room.
WhatIsHeldIsDown ==
  Drained /\ Len(pressed) <= ReportKeys =>
    \A k \in Keys \ missed :
      enabled \/ k \notin HidOnly => (k \in held <=> k \in DownForApps)

-----------------------------------------------------------------------------
(* Why they hold: an inductive invariant.  A property of the phone that    *)
(* holds once every message has arrived is one of the last message under   *)
(* way that bears on it, and of the phone when there is none.              *)

\* The set of keys the page takes for pressed has no key twice, and it is the
\* user's, as far as the page has seen what he did.
PageFollows ==
  /\ enabled = initialized
  /\ \A i, j \in 1 .. Len(pressed) : pressed[i] = pressed[j] => i = j
  /\ \A k \in Keys \ missed : k \in ToSet(pressed) \cup mods <=> enabled /\ k \in held
  /\ enabled /\ ~focus => pressed = <<>> /\ mods = {}

\* Places on the wire w: of messages to the virtual keyboard, and about key k.
ToHid(w) == {i \in 1 .. Len(w) : w[i].type \in {"create", "destroy", "input"}}
OnKey(w, k) == {i \in 1 .. Len(w) : w[i].type \in {"down", "up"} /\ w[i].key = k}
IsLast(i, I) == i \in I /\ \A j \in I : j <= i

\* The phone has, or will have, the virtual keyboard exactly when the page believes so.
Plugged(w) ==
  IF initialized
    THEN /\ hid # {} \/ \E i \in 1 .. Len(w) : w[i].type = "create"
         /\ \A i \in 1 .. Len(w) : w[i].type = "destroy" =>
              \E j \in 1 .. Len(w) : i < j /\ w[j].type = "create"
    ELSE /\ hid = {} \/ \E i \in 1 .. Len(w) : w[i].type = "destroy"
         /\ \A i \in 1 .. Len(w) : w[i].type \in {"create", "input"} =>
              \E j \in 1 .. Len(w) : i < j /\ w[j].type = "destroy"

\* What comes before a report makes the keyboard for it, and does not take it away.
InputsFollow(w) ==
  \A i \in 1 .. Len(w) : w[i].type = "input" =>
    /\ hid # {} \/ \E j \in 1 .. Len(w) : j < i /\ w[j].type = "create"
    /\ \A j \in 1 .. Len(w) : j < i /\ w[j].type = "destroy" =>
         \E l \in 1 .. Len(w) : j < l /\ l < i /\ w[l].type = "create"

\* The report the page would send now; a keyboard plugged in since then shows no key,
\* and the page may only hold keys for pressed whose release it has not seen.
Shown(h) ==
  IF initialized
    THEN \/ h = {[keys |-> Fill(pressed), mods |-> mods]}
         \/ h = {NoKeys} /\ ToSet(pressed) \cup mods \subseteq missed
    ELSE h = {}

\* The virtual keyboard after message m.
Leaves(m) == CASE m.type = "create" -> {NoKeys}
               [] m.type = "input"  -> {m.report}
               [] OTHER             -> {}

HidSettles(w) ==
  /\ ToHid(w) = {} => Shown(hid)
  /\ \A i \in ToHid(w) : IsLast(i, ToHid(w)) => Shown(Leaves(w[i]))

\* The keys of the key injection are those held while it is in use.
Typed(k) == ~enabled /\ k \in held

KeysSettle(w) ==
  \A k \in Keys \ (missed \cup HidOnly) :
    /\ OnKey(w, k) = {} => (k \in down <=> Typed(k))
    /\ \A i \in OnKey(w, k) : IsLast(i, OnKey(w, k)) => (w[i].type = "down" <=> Typed(k))

InductiveInv ==
  /\ TypeOK /\ PageFollows
  /\ Plugged(wire) /\ InputsFollow(wire) /\ HidSettles(wire) /\ KeysSettle(wire)
=============================================================================
