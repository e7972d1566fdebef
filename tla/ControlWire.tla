------------------------------ MODULE ControlWire ------------------------------
(***************************************************************************)
(* The packets of the control path and the key tables.  The page packs an  *)
(* event with DataView, Agent.parseEvent reads it, the driver's SendEvent  *)
(* packs it again for its device, and the device reads that: the recorder  *)
(* of a Linux session, or the scrcpy server.                               *)
(*                                                                         *)
(* A packet is a type byte and fields.  A layout lists how many bytes each *)
(* field has; Blob is a field as long as the number before it says.  Past  *)
(* the page a field is kept as its bytes, so a conversion widens or cuts.  *)
(***************************************************************************)
EXTENDS Integers, Sequences, SequencesExt, FiniteSetsExt

Blob == 0

\* n without its last bytes: none, one, two, three.
Shifted(n) ==
  LET cut(m) == m \div 256 IN <<n, cut(n), cut(cut(n)), cut(cut(cut(n)))>>

\* n in w bytes, the highest first, in two's complement.
BE(n, w) == [i \in 1 .. w |-> IF w - i > 3 THEN IF n < 0 THEN 255 ELSE 0
                              ELSE Shifted(n)[w - i + 1] % 256]
Num(b) ==
  LET num[i \in 0 .. Len(b)] == IF i = 0 THEN 0 ELSE 256 * num[i - 1] + b[i] IN num[Len(b)]
Widen(b, w) == [i \in 1 .. w - Len(b) |-> 0] \o b
Low(b, w) == SubSeq(b, Len(b) - w + 1, Len(b))

InBytes(layout, values) ==
  [i \in DOMAIN layout |-> IF layout[i] = Blob THEN values[i] ELSE BE(values[i], layout[i])]

\* The fields at the front of the bytes; `whole` is FALSE when they run short.
Fields(layout, bytes) ==
  LET read[i \in 0 .. Len(layout)] ==
        IF i = 0 THEN [fields |-> << >>, rest |-> bytes, whole |-> TRUE]
        ELSE LET r == read[i - 1]
                 n == IF layout[i] = Blob THEN Num(Last(r.fields)) ELSE layout[i]
             IN  [fields |-> Append(r.fields, SubSeq(r.rest, 1, Min({n, Len(r.rest)}))),
                  rest |-> SubSeq(r.rest, n + 1, Len(r.rest)),
                  whole |-> r.whole /\ Len(r.rest) >= n]
  IN  read[Len(layout)]

-----------------------------------------------------------------------------
(* The page                                                                *)

Code == [key |-> 0, mouse |-> 1, touch |-> 2, scroll |-> 3, get |-> 8, set |-> 9,
         rotate |-> 11, create |-> 12, input |-> 13, destroy |-> 14]
Types(code) == {t \in DOMAIN Code : Code[t] = code}

createKeyPacket == <<1, 2>>
createMousePacket == <<1, 4, 4, 4, 2, 2>>
createTouchPacket == <<1, 1, 2, 2, 2, 1>>
createScrollPacket == <<2, 2, 2, 2, 1>>
setClipboard == <<8, 1, 4, Blob>>
getClipboard == <<1>>
createRotatePacket == << >>
createUHIDCreatePacket == <<2, 2, 2, 1, Blob, 2, Blob>>
createUHIDInputPacket == <<2, 2, Blob>>
createUHIDDestroyPacket == <<2>>

PageLayout ==
  [key |-> createKeyPacket, mouse |-> createMousePacket, touch |-> createTouchPacket,
   scroll |-> createScrollPacket, set |-> setClipboard, get |-> getClipboard,
   rotate |-> createRotatePacket, create |-> createUHIDCreatePacket,
   input |-> createUHIDInputPacket, destroy |-> createUHIDDestroyPacket]

\* A number that w bytes hold without a sign.
Unsigned(n, w) == n \in Nat /\ Shifted(n)[w] < 256

\* Values that fill the fields of a layout: a number, or bytes counted before them.
Fill(layout, values) ==
  /\ DOMAIN values = DOMAIN layout
  /\ \A i \in DOMAIN layout :
       IF layout[i] = Blob
       THEN /\ values[i] \in Seq(Int)
            /\ Len(values[i]) = values[i - 1] /\ Unsigned(values[i - 1], layout[i - 1])
       ELSE values[i] \in Int

\* An event of the page: its type and the values it puts into the fields.
Event(type, values) == [type |-> type, values |-> values]
PagePacket(e) == <<Code[e.type]>> \o FlattenSeq(InBytes(PageLayout[e.type], e.values))

-----------------------------------------------------------------------------
(* The agent                                                               *)

\* The types whose packets must have exactly the length of their fields.
Exact == {"touch", "mouse", "key", "scroll", "destroy"}

\* "webscreen ", in front of the name of every virtual device.
NamePrefix == <<119, 101, 98, 115, 99, 114, 101, 101, 110, 32>>

\* The fields of the driver's event, made of those of the packet.  `size` is
\* Width and Height of MediaMeta.
parseTouchEvent(f, size) ==
  <<f[1], Widen(f[2], 8), Widen(f[3], 4), Widen(f[4], 4), size[1], size[2], f[5], Widen(f[6], 4)>>
parseMouseEvent(f) == f
parseKeyEvent(f) == <<f[1], Widen(f[2], 4)>>
parseScrollEvent(f, size) ==
  <<Widen(f[1], 4), Widen(f[2], 4), size[1], size[2], f[3], f[4], Widen(f[5], 4)>>
parseUHIDCreateEvent(f) ==
  LET name == NamePrefix \o f[5] IN <<f[1], f[2], f[3], BE(Len(name), 1), name, f[6], f[7]>>
parseUHIDInputEvent(f) == f
parseSetClipboardEvent(f) == <<f[1], IF f[2] = <<0>> THEN <<0>> ELSE <<1>>, f[4]>>

EventFields(type, f, size) ==
  CASE type = "touch" -> parseTouchEvent(f, size)
    [] type = "mouse" -> parseMouseEvent(f)
    [] type = "key" -> parseKeyEvent(f)
    [] type = "scroll" -> parseScrollEvent(f, size)
    [] type = "create" -> parseUHIDCreateEvent(f)
    [] type = "input" -> parseUHIDInputEvent(f)
    [] type = "set" -> parseSetClipboardEvent(f)
    [] OTHER -> f

\* parseEvent: a set, empty when the packet is refused.  Type 99, a request for a key
\* frame, is left out: no script of the page sends it.
ParseEvent(raw, size) ==
  UNION {LET r == Fields(PageLayout[t], Tail(raw))
         IN  IF r.whole /\ (t \in Exact => r.rest = << >>)
             THEN {[type |-> t, fields |-> EventFields(t, r.fields, size)]} ELSE {} :
         t \in Types(raw[1])}

-----------------------------------------------------------------------------
(* The drivers and their devices                                           *)

\* LinuxDriver.SendEvent: the bytes of a packet, none for what it ignores.
LinuxPacket(e) ==
  LET f == e.fields IN
  CASE e.type = "mouse" -> <<1>> \o FlattenSeq(f)
    [] e.type = "touch" -> <<2>> \o f[1] \o Low(f[2], 1) \o Low(f[3], 2) \o Low(f[4], 2)
                           \o f[7] \o Low(f[8], 1)
    [] e.type = "scroll" -> <<1, 2>> \o f[1] \o f[2] \o f[7] \o f[5] \o f[6]
    [] e.type = "key" -> <<0>> \o FlattenSeq(f)
    [] OTHER -> << >>

\* What ServeControlConn reads after the type, by its Parse functions.
RecorderLayout == [key |-> <<1, 4>>, mouse |-> <<1, 4, 4, 4, 2, 2>>, touch |-> <<1, 1, 2, 2, 2, 1>>]

\* What ScrcpyDriver writes behind the type.
SendKeyEvent(f) == FlattenSeq(f) \o BE(0, 4) \o BE(0, 4)
SendTouchEvent(f) == FlattenSeq(f) \o f[8]
SendScrollEvent(f) == FlattenSeq(f)
SendUHIDInputEvent(f) == FlattenSeq(f)
SendSetClipboardEvent(f) == f[1] \o f[2] \o BE(Len(f[3]), 4) \o f[3]
SendUHIDCreateEvent(f) ==
  LET nameSize == Len(f[5]) % 256
  IN  f[1] \o f[2] \o f[3] \o <<nameSize>> \o SubSeq(f[5], 1, nameSize) \o f[6] \o f[7]

\* ScrcpyDriver.SendEvent; it has no mouse events.  KeyFrameRequest's byte 99, always
\* written whole, is left out.
ScrcpyPacket(e) ==
  LET f == e.fields IN
  CASE e.type = "key" -> <<0>> \o SendKeyEvent(f)
    [] e.type = "touch" -> <<2>> \o SendTouchEvent(f)
    [] e.type = "scroll" -> <<3>> \o SendScrollEvent(f)
    [] e.type = "create" -> <<12>> \o SendUHIDCreateEvent(f)
    [] e.type = "input" -> <<13>> \o SendUHIDInputEvent(f)
    [] e.type = "set" -> <<9>> \o SendSetClipboardEvent(f)
    [] e.type = "mouse" -> << >>
    [] OTHER -> <<Code[e.type]>> \o FlattenSeq(f)

\* What the server on the device reads, field by field.
ServerLayout ==
  [key |-> <<1, 4, 4, 4>>, touch |-> <<1, 8, 4, 4, 2, 2, 2, 4, 4>>,
   scroll |-> <<4, 4, 2, 2, 2, 2, 4>>, get |-> <<1>>, set |-> <<8, 1, 4, Blob>>,
   rotate |-> << >>, create |-> <<2, 2, 2, 1, Blob, 2, Blob>>, input |-> <<2, 2, Blob>>,
   destroy |-> <<2>>]

-----------------------------------------------------------------------------
(* The key tables                                                          *)

\* Consecutive codes from one on.
From(first, row) == [c \in first .. first + Len(row) - 1 |-> row[c - first + 1]]
\* Consecutive numbers.
Run(from, to) == [i \in 1 .. to - from + 1 |-> from + i - 1]
\* The codes of a list of names, consecutive from one on.
Names(first, row) == [n \in {row[i] : i \in DOMAIN row} |-> first - 1 + CHOOSE i \in DOMAIN row : row[i] = n]

Letters == <<"KeyA", "KeyB", "KeyC", "KeyD", "KeyE", "KeyF", "KeyG", "KeyH", "KeyI", "KeyJ",
             "KeyK", "KeyL", "KeyM", "KeyN", "KeyO", "KeyP", "KeyQ", "KeyR", "KeyS", "KeyT",
             "KeyU", "KeyV", "KeyW", "KeyX", "KeyY", "KeyZ">>
Digits == <<"Digit0", "Digit1", "Digit2", "Digit3", "Digit4", "Digit5", "Digit6", "Digit7",
            "Digit8", "Digit9">>

ANDROID_KEYCODES ==
  Names(29, Letters) @@ Names(7, Digits) @@
  Names(66, <<"Enter", "Backspace", "Backquote", "Minus", "Equal", "BracketLeft", "BracketRight",
              "Backslash", "Semicolon", "Quote", "Slash">>) @@
  Names(55, <<"Comma", "Period", "AltLeft", "AltRight", "ShiftLeft", "ShiftRight", "Tab", "Space">>) @@
  Names(111, <<"Escape", "Delete", "ControlLeft", "ControlRight", "CapsLock">>) @@
  Names(117, <<"MetaLeft", "MetaRight">>) @@ Names(123, <<"End", "Insert">>) @@
  Names(92, <<"PageUp", "PageDown">>) @@
  Names(19, <<"ArrowUp", "ArrowDown", "ArrowLeft", "ArrowRight">>) @@ ("Home" :> 3)

\* The numbers of the uinput constants, by Android code.
AndroidToLinuxEvdevMap ==
  From(29, <<30, 48, 46, 32, 18, 33, 34, 35, 23, 36, 37, 38, 50, 49, 24, 25, 16, 19, 31, 20, 22,
             47, 17, 45, 21, 44>>) @@
  From(7, <<11>> \o Run(2, 10)) @@
  From(66, <<28, 14, 41, 12, 13, 26, 27, 43, 39, 40, 53>>) @@
  From(55, <<51, 52, 56, 100, 42, 54, 15, 57>>) @@
  From(111, <<1, 111, 29, 97, 58>>) @@ From(19, <<103, 108, 105, 106>>)

\* 117 stands in the comment of the line before it.
AndroidToX11KeycodeMap ==
  From(29, <<38, 56, 54, 40, 26, 41, 42, 43, 31, 44, 45, 46, 58, 57, 32, 33, 24, 27, 39, 28, 30,
             55, 25, 53, 29, 52>>) @@
  From(7, <<19>> \o Run(10, 18)) @@
  From(66, <<36, 22, 49, 20, 21, 34, 35, 51, 47, 48, 61>>) @@
  From(55, <<59, 60, 64, 108, 50, 62, 23, 65>>) @@
  From(111, <<9, 119, 37, 105, 66>>) @@ From(118, <<134>>) @@ From(120, <<78>>) @@
  From(122, <<110, 115, 118>>) @@ From(131, Run(67, 76) \o <<95, 96>>) @@
  From(85, <<172, 174, 171, 173, 169, 175, 121, 112, 117>>) @@
  From(24, <<123, 122, 156, 212>>) @@ From(19, <<111, 116, 113, 114>>) @@ From(3, <<110, 9>>)
================================================================================
