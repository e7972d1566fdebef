----------------------------- MODULE LinuxPointer -----------------------------
(***************************************************************************)
(* The pointer of a Linux session, end to end.  A page with the scripts    *)
(* linux_mouse.js (relative, while the pointer is locked to the video) and *)
(* touch.js (absolute, while it is not) turns what the user does with the  *)
(* mouse into packets on the unordered data channel; the agent passes them *)
(* on, and the recorder's InputController applies them to X11 or to the    *)
(* virtual devices of a Wayland session.                                   *)
(*                                                                         *)
(* A handler of the page runs to its end, so it is one step.  The channel  *)
(* is reliable and may deliver in any order.  One axis of motion stands    *)
(* for both, and absolute positions are left out.                          *)
(***************************************************************************)
EXTENDS Integers, Sequences, SequencesExt, FiniteSets

CONSTANTS
  Backends,     \* of "x11", "wayland": the controller types to consider
  OtherButtons, \* buttons besides the left one
  WheelStep,    \* wheel units for one click on X11 (40 in the code)
  Steps,        \* what one motion or wheel event may carry
  MaxMotion,    \* bound: events of motion in a run
  MaxInFlight   \* bound: packets on their way at once

ASSUME PointerAssumption ==
  /\ Backends \subseteq {"x11", "wayland"} /\ "left" \notin OtherButtons
  /\ WheelStep \in Nat \ {0} /\ Steps \subseteq Int \ {0} /\ MaxMotion \in Nat /\ MaxInFlight \in Nat \ {0, 1}

Buttons == {"left"} \cup OtherButtons
Axes == {"move", "wheel"}

VARIABLES
  backend,         \* InputController.controllerType
  held, inside,    \* user: buttons held, is the pointer over the video?
  moved, events,   \* (auxiliary) all the user moved and turned while locked
  missed,          \* (auxiliary) buttons whose last press or release was not sent
                   \* as one of the mouse's
  lock,            \* pointer lock: "off", "requested", "on"
  mask,            \* mouseButtonsMask
  pending, raf,    \* pendingMovement, rafScheduled
  active,          \* activeMousePointer # null
  touchMove,       \* pendingMoveEvents has an entry: its frame is scheduled
  wire,            \* packets between page and recorder, in the order sent
  overtaken,       \* (auxiliary) a packet arrived before an earlier one
  applied,         \* recorder: motion and wheel turns applied
  buttons, finger  \* recorder: buttons pressed, is slot 0 of the touch pad down?

user     == <<held, inside, moved, events, missed>>
mouse    == <<mask, pending, raf>>
touch    == <<active, touchMove>>
channel  == <<wire, overtaken>>
recorder == <<backend, applied, buttons, finger>>
vars == <<user, lock, mouse, touch, channel, recorder>>

Still == [a \in Axes |-> 0]
Plus(u, v) == [a \in Axes |-> u[a] + v[a]]

Init ==
  /\ backend \in Backends
  /\ held = {} /\ inside = TRUE /\ moved = Still /\ events = 0 /\ missed = {}
  /\ lock = "off" /\ mask = {} /\ pending = Still /\ raf = FALSE
  /\ active = FALSE /\ touchMove = FALSE
  /\ wire = <<>> /\ overtaken = FALSE
  /\ applied = Still /\ buttons = {} /\ finger = FALSE

-----------------------------------------------------------------------------
(* Packets.  `at` (auxiliary) is how far the user had moved when the packet *)
(* was made.                                                               *)

\* createMousePacket.
Mouse(action, delta, btns) ==
  [type |-> "mouse", action |-> action, delta |-> delta, buttons |-> btns,
   at |-> moved["move"]]

\* createTouchPacket.
Touch(action) == [type |-> "touch", action |-> action]

\* sendDataChannelMessage, on the unordered channel.
Sent(packets) ==
  /\ Len(wire) + Len(packets) <= MaxInFlight
  /\ wire' = wire \o packets
  /\ UNCHANGED overtaken

-----------------------------------------------------------------------------
(* linux_mouse.js: flushing what has been collected.                       *)

\* (Broken on purpose: a click does not send the motion before it.)
NoFlush == <<>>

\* flushPendingEvents: nothing is sent when nothing has moved.
Flushed == IF pending = Still THEN <<>> ELSE <<Mouse("move", pending, mask)>>

\* (Broken on purpose: what was sent stays in the account.)
KeepPending == pending

\* The account after a flush.
ResetPending == Still

\* scheduleSend's callback.
Frame ==
  /\ raf /\ raf' = FALSE
  /\ Sent(Flushed) /\ pending' = ResetPending
  /\ UNCHANGED <<user, lock, mask, touch, recorder>>

-----------------------------------------------------------------------------
(* The mouse, as both scripts hear it.                                     *)

\* handleMouseDown: the motion first, then all the buttons that are down.
LockedDown(b) ==
  /\ lock = "on"
  /\ mask' = mask \cup {b}
  /\ Sent(Flushed \o <<Mouse("down", Still, mask')>>)
  /\ pending' = ResetPending
  /\ UNCHANGED <<lock, touch, missed>>

\* touch.js takes the left button for a finger; linux_mouse.js asks for the lock.
\* Only X11 turns the finger into the button.
UnlockedDown(b) ==
  /\ lock # "on" /\ inside
  /\ lock' = "requested"
  /\ IF b = "left" THEN Sent(<<Touch("down")>>) /\ active' = TRUE
                   ELSE UNCHANGED <<channel, active>>
  /\ missed' = IF b = "left" /\ backend = "x11" THEN missed ELSE missed \cup {b}
  /\ UNCHANGED <<mask, pending, touchMove>>

\* Next to the video nobody listens.
OutsideDown(b) ==
  /\ lock # "on" /\ ~inside
  /\ missed' = missed \cup {b}
  /\ UNCHANGED <<lock, mask, pending, touch, channel>>

MouseDown(b) ==
  /\ b \notin held /\ held' = held \cup {b}
  /\ LockedDown(b) \/ UnlockedDown(b) \/ OutsideDown(b)
  /\ UNCHANGED <<inside, moved, events, raf, recorder>>

\* (Broken on purpose: the buttons that are left, not the one released.)
RemainingMask(b) == mask \ {b}

\* The buttons an "up" packet names.
ReleasingMask(b) == {b}

\* handleMouseUp: the motion first, then the one button.
LockedUp(b) ==
  /\ lock = "on"
  /\ Sent(Flushed \o <<Mouse("up", Still, ReleasingMask(b))>>)
  /\ mask' = mask \ {b}
  /\ pending' = ResetPending
  /\ missed' = missed \ {b}
  /\ UNCHANGED touch

\* touch.js: whatever button comes up, the finger does.
UnlockedUp(b) ==
  /\ lock # "on" /\ inside /\ active
  /\ Sent(<<Touch("up")>>) /\ active' = FALSE
  /\ missed' = IF b = "left" THEN missed ELSE missed \cup {"left"}
  /\ UNCHANGED <<mask, pending, touchMove>>

\* Next to the video, or without a finger: nothing is sent.
UnheardUp(b) ==
  /\ lock # "on" /\ (~inside \/ ~active)
  /\ missed' = missed \cup {b}
  /\ UNCHANGED <<mask, pending, touch, channel>>

MouseUp(b) ==
  /\ b \in held /\ held' = held \ {b}
  /\ LockedUp(b) \/ UnlockedUp(b) \/ UnheardUp(b)
  /\ UNCHANGED <<inside, moved, events, raf, lock, recorder>>

\* handleMouseMove and handleWheel: collect, and schedule one frame.
LockedMotion(d) ==
  /\ lock = "on"
  /\ events < MaxMotion /\ events' = events + 1
  /\ moved' = Plus(moved, d)
  /\ pending' = Plus(pending, d) /\ raf' = TRUE
  /\ UNCHANGED <<held, inside, missed, lock, mask, touch, channel, recorder>>

\* touch.js: the finger moves while the left button alone is down.
UnlockedMove ==
  /\ lock # "on" /\ inside /\ active /\ held = {"left"}
  /\ ~touchMove /\ touchMove' = TRUE
  /\ UNCHANGED <<user, lock, mouse, active, channel, recorder>>

\* scheduleMoveSend's callback, whatever has become of the finger since.
TouchFrame ==
  /\ touchMove /\ touchMove' = FALSE
  /\ Sent(<<Touch("move")>>)
  /\ UNCHANGED <<user, lock, mouse, active, recorder>>

\* mouseleave: the finger comes up unless the left button alone is down.
Leave ==
  /\ lock # "on" /\ inside /\ inside' = FALSE
  /\ IF active /\ held # {"left"}
     THEN /\ Sent(<<Touch("up")>>) /\ active' = FALSE
          /\ missed' = missed \cup ({"left"} \cap held)
     ELSE UNCHANGED <<channel, active, missed>>
  /\ UNCHANGED <<held, moved, events, lock, mouse, touchMove, recorder>>

Enter ==
  /\ lock # "on" /\ ~inside /\ inside' = TRUE
  /\ UNCHANGED <<held, moved, events, missed, lock, mouse, touch, channel, recorder>>

\* handlePointerLockChange: the browser grants the lock, or never does.
Lock ==
  /\ lock = "requested" /\ lock' \in {"on", "off"}
  /\ UNCHANGED <<user, mouse, touch, channel, recorder>>

\* The user presses Esc: mask and pending motion stay as they are.
Unlock ==
  /\ lock = "on" /\ lock' = "off"
  /\ inside' \in BOOLEAN
  /\ missed' = missed \cup held \cup mask
  /\ UNCHANGED <<held, moved, events, mouse, touch, channel, recorder>>

-----------------------------------------------------------------------------
(* The recorder: InputController.                                          *)

Press(btns, down) == buttons' = IF down THEN buttons \cup btns ELSE buttons \ btns

\* The turn of the wheel that w units make: X11 has clicks, 20 at most.
Clicks(w) ==
  LET n == (IF w < 0 THEN -w ELSE w) \div WheelStep
      c == IF n = 0 THEN 1 ELSE IF n > 20 THEN 20 ELSE n
  IN  IF w = 0 THEN 0 ELSE IF w < 0 THEN -c ELSE c

Turn(w) == IF backend = "wayland" THEN w ELSE Clicks(w)

\* A packet that turns the wheel presses nothing.  Motion and turns fit 16 bits here:
\* X11 casts the motion to int16, the page packs the wheel as one.
HandleMouseEvent(p) ==
  /\ p.type = "mouse"
  /\ applied' = Plus(applied, [move |-> p.delta["move"], wheel |-> Turn(p.delta["wheel"])])
  /\ IF p.action # "move" /\ p.delta["wheel"] = 0
     THEN Press(p.buttons, p.action = "down")
     ELSE UNCHANGED buttons
  /\ UNCHANGED finger

\* On Wayland a move puts the finger down, on X11 it only moves the pointer.
HandleTouchEvent(p) ==
  /\ p.type = "touch"
  /\ \/ /\ backend = "wayland"
        /\ finger' = (p.action # "up") /\ UNCHANGED buttons
     \/ /\ backend = "x11" /\ p.action # "move"
        /\ Press({"left"}, p.action = "down") /\ UNCHANGED finger
     \/ /\ backend = "x11" /\ p.action = "move"
        /\ UNCHANGED <<buttons, finger>>
  /\ UNCHANGED applied

\* Any packet may be the next to arrive.
Deliver ==
  \E i \in 1 .. Len(wire) :
    /\ wire' = RemoveAt(wire, i)
    /\ overtaken' = (overtaken \/ i > 1)
    /\ HandleMouseEvent(wire[i]) \/ HandleTouchEvent(wire[i])
    /\ UNCHANGED <<user, lock, mouse, touch, backend>>

-----------------------------------------------------------------------------

Unit(a) == {[Still EXCEPT ![a] = d] : d \in Steps}

Next ==
  \/ \E b \in Buttons : MouseDown(b) \/ MouseUp(b)
  \/ \E d \in UNION {Unit(a) : a \in Axes} : LockedMotion(d)
  \/ UnlockedMove \/ Leave \/ Enter \/ Lock \/ Unlock
  \/ Frame \/ TouchFrame
  \/ Deliver

Spec == Init /\ [][Next]_vars

-----------------------------------------------------------------------------
(* Properties.                                                             *)

Drained == wire = <<>>

\* What the first packets of a sequence move the pointer or turn the wheel by.
Delta(p, a) == IF p.type = "mouse" THEN p.delta[a] ELSE 0
Carried(packets, a) ==
  LET sum[n \in 0 .. Len(packets)] == IF n = 0 THEN 0 ELSE sum[n - 1] + Delta(packets[n], a)
  IN  sum

InFlight(a) == Carried(wire, a)[Len(wire)]

\* No motion is lost or applied twice, in whatever order packets arrive: all the
\* user moved waits in the page, with a frame scheduled, is under way or has been
\* applied.  For the wheel it holds on Wayland; X11 makes one click at least of
\* every packet.
MotionConserved ==
  /\ pending # Still => raf
  /\ \A a \in Axes : a = "move" \/ backend = "wayland" =>
       moved[a] = pending[a] + InFlight(a) + applied[a]

\* "Send the accumulated motion first, lest the click jump": as long as no packet
\* overtakes another, a click arrives when the recorder's pointer is where the
\* user clicked.
ClickInPlace ==
  \A i \in 1 .. Len(wire) :
    i = 1 /\ ~overtaken /\ wire[i].type = "mouse" /\ wire[i].action # "move" =>
      wire[i].at = applied["move"]

\* The recorder's buttons are the user's, once everything has arrived in order:
\* presses and releases may be split between the two scripts by the lock, and on
\* X11 still belong together.
ButtonsSettle ==
  Drained /\ ~overtaken => \A b \in Buttons \ missed : b \in held <=> b \in buttons

(***************************************************************************)
(* Why they hold: an inductive invariant.                                  *)
(***************************************************************************)
Packet ==
  [type : {"mouse"}, action : {"move", "down", "up"}, delta : [Axes -> Int],
   buttons : SUBSET Buttons, at : Int]
    \cup [type : {"touch"}, action : {"move", "down", "up"}]

TypeOK ==
  /\ backend \in {"x11", "wayland"}
  /\ held \subseteq Buttons /\ inside \in BOOLEAN
  /\ moved \in [Axes -> Int] /\ events \in Nat /\ missed \subseteq Buttons
  /\ lock \in {"off", "requested", "on"}
  /\ mask \subseteq Buttons /\ pending \in [Axes -> Int] /\ raf \in BOOLEAN
  /\ active \in BOOLEAN /\ touchMove \in BOOLEAN
  /\ wire \in Seq(Packet) /\ overtaken \in BOOLEAN
  /\ applied \in [Axes -> Int] /\ buttons \subseteq Buttons /\ finger \in BOOLEAN

\* Only a packet of motion carries motion.
ClicksAreStill ==
  \A i \in DOMAIN wire : wire[i].type = "mouse" /\ wire[i].action # "move" => wire[i].delta = Still

\* In order, each packet of the mouse finds the pointer where it has to: what is
\* applied, what the packets before it carry and what it carries add up to where
\* the user was.
PlacesAdd ==
  ~overtaken => \A i \in DOMAIN wire :
    wire[i].type = "mouse" => wire[i].at = applied["move"] + Carried(wire, "move")[i]

\* A recorder of this kind presses or releases b on this packet.
Names(kind, p, b) ==
  /\ p.action # "move"
  /\ IF p.type = "mouse" THEN b \in p.buttons ELSE kind = "x11" /\ b = "left"

\* The last packet that names a button decides what becomes of it.
Settles(kind, packets, b, from, to) ==
  LET naming == {i \in DOMAIN packets : Names(kind, packets[i], b)}
  IN  /\ naming = {} => (b \in from <=> b \in to)
      /\ \A i \in naming :
           (\A j \in naming : j <= i) => (b \in to <=> packets[i].action = "down")

\* In order, the recorder's buttons will be the user's in the end.
ButtonsCome ==
  ~overtaken => \A b \in Buttons \ missed : Settles(backend, wire, b, buttons, held)

\* What one of the two scripts has not sent while the other had the mouse is missed.
ScriptsShare ==
  /\ lock = "on" => mask \subseteq held \cup missed
  /\ lock # "on" => mask \subseteq missed /\ held \subseteq missed \cup {"left"}
  /\ lock # "on" /\ backend = "wayland" => held \subseteq missed

InductiveInv ==
  TypeOK /\ MotionConserved /\ ClicksAreStill /\ PlacesAdd /\ ButtonsCome /\ ScriptsShare
=============================================================================
