------------------------------ MODULE ControlPath ------------------------------
(***************************************************************************)
(* What the user does reaches the device: the page sends packets on two    *)
(* data channels, one ordered; each channel has a goroutine that calls     *)
(* Agent.HandleEvent, and the driver writes to the one connection both     *)
(* share.  The recorder of a Linux session (ServeControlConn) or the       *)
(* scrcpy server reads packet after packet from the bytes.                 *)
(*                                                                         *)
(* What a mouse or a touch packet does to the screen is LinuxPointer's.    *)
(***************************************************************************)
EXTENDS ControlWire, FiniteSets, FiniteSetsExt

CONSTANT MaxEvents  \* bound: events of the user in a run

VARIABLES
  target,      \* "x11" or "wayland", the recorder's controller; or "android"
  user,        \* the events this user may cause
  sent,        \* the events caused, in order
  pending,     \* numbers of those on the data channels
  out,         \* per channel: what the goroutine has still to write
  written,     \* numbers of the events whose packet is written, in order
  conn,        \* the bytes on the connection
  serving,     \* the reader runs
  got,         \* what it has read
  keys         \* key codes down on X11 or on the virtual keyboard

controls == <<target, user, sent, pending, out, written, conn, serving, got, keys>>

Channels == {"ordered", "unordered"}

ControlInit(scenario) ==
  /\ target = scenario.target /\ user = scenario.user
  /\ sent = << >> /\ pending = {}
  /\ out = [c \in Channels |-> << >>]
  /\ written = << >> /\ conn = << >> /\ serving = TRUE /\ got = << >> /\ keys = {}

-----------------------------------------------------------------------------
(* The page                                                                *)

\* What keyboard.js sends of a key: 0 for a press, 1 for a release.
KeyEvent(action, name) == Event("key", <<action, ANDROID_KEYCODES[name]>>)

\* The events that the scripts connect.js loads for a session can cause: their values
\* fill the packet, and those without a sign are no greater than their field.
Possible(e, on) ==
  LET v == e.values IN
  /\ e.type \in IF on = "android" THEN DOMAIN Code \ {"mouse"} ELSE {"key", "mouse", "touch"}
  /\ Fill(PageLayout[e.type], v)
  /\ e.type = "key" => Unsigned(v[2], 2)
  /\ e.type = "touch" => Unsigned(v[2], 1) /\ Unsigned(v[3], 2) /\ Unsigned(v[4], 2)
                         /\ Unsigned(v[6], 1)
  /\ e.type = "scroll" => Unsigned(v[1], 2) /\ Unsigned(v[2], 2) /\ Unsigned(v[5], 1)
  /\ e.type = "set" => v[2] \in 0 .. 1
  /\ e.type = "create" => Unsigned(Len(NamePrefix) + v[4], 1)
  /\ e.type = "key" /\ on # "android" =>
       \E action \in 0 .. 1, name \in DOMAIN ANDROID_KEYCODES : e = KeyEvent(action, name)

\* (Broken on purpose: keys travel on the channel that may reorder.)
OneChannel(e) == "unordered"

\* The channel the scripts use: for the reports of virtual devices other than the
\* keyboard, number 1, and for motion the one that may reorder.
ChannelOf(e) ==
  IF e.type \in {"mouse", "touch", "scroll"} \/ (e.type = "input" /\ e.values[1] # 1)
  THEN "unordered" ELSE "ordered"

\* A script's listener: the packet is made and sent in one go.
PageSends(e) ==
  /\ Len(sent) < MaxEvents
  /\ sent' = Append(sent, e)
  /\ pending' = pending \cup {Len(sent) + 1}
  /\ UNCHANGED <<target, user, out, written, conn, serving, got, keys>>

-----------------------------------------------------------------------------
(* The agent and the driver                                                *)

\* MediaMeta's width and height, as far as a driver knows them.
Size == IF target = "android" THEN <<BE(1080, 2), BE(2400, 2)>> ELSE <<BE(1920, 2), BE(1080, 2)>>

Packet(e) == IF target = "android" THEN ScrcpyPacket(e) ELSE LinuxPacket(e)

\* (Broken on purpose: the type goes out in a write of its own.)
TypeFirst(packet) == <<SubSeq(packet, 1, 1), Tail(packet)>>

\* SendEvent writes a packet at once.
Writes(packet) == <<packet>>

Arrived(c) == {i \in pending : ChannelOf(sent[i]) = c}

\* OnMessage, HandleEvent: the next packet of a channel, or any when unordered.
HandleEvent(c) ==
  /\ out[c] = << >>
  /\ \E i \in Arrived(c) :
       /\ c = "ordered" => i = Min(Arrived(c))
       /\ pending' = pending \ {i}
       /\ LET packets == {Packet(e) : e \in ParseEvent(PagePacket(sent[i]), Size)} \ {<< >>}
          IN  out' = [out EXCEPT ![c] =
                FlattenSeq([n \in DOMAIN SetToSeq(packets) |->
                              LET parts == Writes(SetToSeq(packets)[n])
                              IN  [k \in DOMAIN parts |-> [event |-> i, bytes |-> parts[k],
                                                           ends |-> k = Len(parts)]]])]
  /\ UNCHANGED <<target, user, sent, written, conn, serving, got, keys>>

\* conn.Write: one caller at a time; on a closed connection it fails.
SendEvent(c, isOpen) ==
  /\ out[c] # << >>
  /\ out' = [out EXCEPT ![c] = Tail(@)]
  /\ IF isOpen
     THEN /\ conn' = conn \o Head(out[c]).bytes
          /\ written' = IF Head(out[c]).ends THEN Append(written, Head(out[c]).event) ELSE written
     ELSE UNCHANGED <<conn, written>>
  /\ UNCHANGED <<target, user, sent, pending, serving, got, keys>>

-----------------------------------------------------------------------------
(* The device                                                              *)

\* The types the reader knows, by their code, and how it reads them.
Layouts == IF target = "android" THEN ServerLayout ELSE RecorderLayout

\* The code of a key on X11 or on the virtual keyboard, if any: a key the keyboard
\* does not have is ignored, and X11 gets the code of an unknown key as it came.
DeviceCodes(on, keyCode) ==
  IF on = "wayland"
  THEN {AndroidToLinuxEvdevMap[c] : c \in {keyCode} \cap DOMAIN AndroidToLinuxEvdevMap}
  ELSE IF keyCode \in DOMAIN AndroidToX11KeycodeMap THEN {AndroidToX11KeycodeMap[keyCode]}
       ELSE {keyCode % 256}

\* HandleKeyboardEvent: 0 is a press.
HandleKeyboardEvent(action, keyCode) ==
  keys' = IF keyCode = 0 THEN keys
          ELSE IF action = 0 THEN keys \cup DeviceCodes(target, keyCode)
          ELSE keys \ DeviceCodes(target, keyCode)

\* One turn of ServeControlConn: ReadFull waits for a whole packet.
ServeControlConn ==
  /\ serving /\ conn # << >>
  /\ \E t \in Types(conn[1]) \cap DOMAIN Layouts :
       LET r == Fields(Layouts[t], Tail(conn)) IN
       /\ r.whole
       /\ conn' = r.rest
       /\ got' = Append(got, [type |-> t, fields |-> r.fields])
       /\ IF t = "key" /\ target # "android"
          THEN HandleKeyboardEvent(Num(r.fields[1]), Num(r.fields[2]))
          ELSE UNCHANGED keys
  /\ UNCHANGED <<target, user, sent, pending, out, written, serving>>

\* A type it does not know, or a connection that is closed.
ServeControlEnds(isOpen) ==
  /\ serving
  /\ \/ conn # << >> /\ Types(conn[1]) \cap DOMAIN Layouts = {}
     \/ ~isOpen
  /\ serving' = FALSE
  /\ UNCHANGED <<target, user, sent, pending, out, written, conn, got, keys>>

ControlNext(isOpen) ==
  \/ \E e \in user : PageSends(e)
  \/ \E c \in Channels : HandleEvent(c) \/ SendEvent(c, isOpen)
  \/ ServeControlConn
  \/ ServeControlEnds(isOpen)

-----------------------------------------------------------------------------
(* Properties                                                              *)

\* What the device has to read for an event, by the values the user gave it.
Meant(e) ==
  LET v == e.values
      fields ==
        CASE target = "android" /\ e.type = "key" -> <<v[1], v[2], 0, 0>>
          [] target = "android" /\ e.type = "touch" ->
               <<v[1], v[2], v[3], v[4], 1080, 2400, v[5], v[6], v[6]>>
          [] e.type = "scroll" -> <<v[1], v[2], 1080, 2400, v[3], v[4], v[5]>>
          [] e.type = "create" -> <<v[1], v[2], v[3], v[4] + 10, NamePrefix \o v[5], v[6], v[7]>>
          [] OTHER -> v
  IN  [type |-> e.type, fields |-> InBytes(Layouts[e.type], fields)]

\* Two goroutines write packets of different lengths to one stream, and the
\* reader stays in step: it reads the events that were written, in that order
\* and as the user meant them, and never ends over a type it does not know.
InStep(isOpen) ==
  /\ Len(got) <= Len(written)
  /\ \A i \in DOMAIN got : got[i] = Meant(sent[written[i]])
  /\ isOpen => serving

\* The evdev codes of a keyboard, position by position.
Kernel ==
  Names(1, <<"Escape", "Digit1", "Digit2", "Digit3", "Digit4", "Digit5", "Digit6", "Digit7",
             "Digit8", "Digit9", "Digit0", "Minus", "Equal", "Backspace", "Tab", "KeyQ", "KeyW",
             "KeyE", "KeyR", "KeyT", "KeyY", "KeyU", "KeyI", "KeyO", "KeyP", "BracketLeft",
             "BracketRight", "Enter", "ControlLeft", "KeyA", "KeyS", "KeyD", "KeyF", "KeyG",
             "KeyH", "KeyJ", "KeyK", "KeyL", "Semicolon", "Quote", "Backquote", "ShiftLeft",
             "Backslash", "KeyZ", "KeyX", "KeyC", "KeyV", "KeyB", "KeyN", "KeyM", "Comma",
             "Period", "Slash", "ShiftRight">>) @@
  Names(56, <<"AltLeft", "Space", "CapsLock">>) @@ ("ControlRight" :> 97) @@ ("AltRight" :> 100) @@
  Names(102, <<"Home", "ArrowUp", "PageUp", "ArrowLeft", "ArrowRight", "End", "ArrowDown",
               "PageDown", "Insert", "Delete">>) @@ Names(125, <<"MetaLeft", "MetaRight">>)

\* The keys whose last event is a press.
PressedKeys ==
  {k \in DOMAIN Kernel :
     \E i \in DOMAIN sent : /\ sent[i] = KeyEvent(0, k)
                            /\ KeyEvent(1, k) \notin {sent[j] : j \in i + 1 .. Len(sent)}}

\* The virtual keyboard of a Wayland session has no navigation block.
Missing == {"Home", "PageUp", "End", "PageDown", "Insert", "MetaLeft", "MetaRight"}

\* The code's tables against the keyboard: no two keys share a code, and the device
\* has a key's code where the keyboard has it, but for the left Meta key on X11.
TablesAgree ==
  /\ DOMAIN ANDROID_KEYCODES = DOMAIN Kernel /\ Missing \subseteq DOMAIN Kernel
  /\ \A k \in DOMAIN Kernel :
       /\ Kernel[k] \in Nat /\ Unsigned(ANDROID_KEYCODES[k], 2) /\ ANDROID_KEYCODES[k] # 0
       /\ DeviceCodes("wayland", ANDROID_KEYCODES[k]) = {Kernel[k]} \ {Kernel[m] : m \in Missing}
       /\ k # "MetaLeft" => DeviceCodes("x11", ANDROID_KEYCODES[k]) = {Kernel[k] + 8}
       /\ \A other \in DOMAIN Kernel \ {k} :
            Kernel[other] # Kernel[k] /\ ANDROID_KEYCODES[other] # ANDROID_KEYCODES[k]

ASSUME KeyTablesAssumption == TablesAgree

\* When all has arrived, the keys that are down on the device are those that are
\* down in the page: the same keys of the keyboard on both back ends, X11 counting
\* from 8.  Not with the left Meta key, whose line the X11 table lacks: there it
\* presses and releases PageDown.
KeysFollow(isOpen) ==
  /\ isOpen /\ target # "android"
  /\ pending = {} /\ (\A c \in Channels : out[c] = << >>) /\ conn = << >>
  /\ target = "x11" => \A i \in DOMAIN sent : \A a \in 0 .. 1 : sent[i] # KeyEvent(a, "MetaLeft")
  => keys = IF target = "x11" THEN {Kernel[k] + 8 : k \in PressedKeys}
            ELSE {Kernel[k] : k \in PressedKeys \ Missing}
================================================================================
