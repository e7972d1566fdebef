# webscreen: models and proofs

webscreen shows the screen of an Android phone or a Linux session in a browser
and lets several browsers share it. This directory holds TLA+ models of its
concurrent core, TLC configurations that check them on small instances, and
proofs, checked by TLAPS, of the results that matter most for every instance.
Every definition is translated from the source; `PROJECT.json` names the lines.

## 1. The system

A Go server (`webservice/`, `streamAgent/`, `sdriver/`), a second Go binary that
runs next to a Linux desktop (`linuxRecorder/`) and a page of JavaScript
(`public/static/`).

| Part | State | Operations | Interacts with |
|---|---|---|---|
| Session manager (`webservice/webRTCManager.go`, `handleScreen.go`) | `broadcasters`, `currentReceiptNumber`, per broadcaster `Subscribers` and `Agent`; locals of each handler | `handleScreenWS`, `NewSubscriber`, `Start`, `ensureAgent`, `GetAgent`, the callback of `setCleanup` | WebSocket handlers, callbacks of pion, the agent, all under one RWMutex |
| Stream agent (`streamAgent/`) | the driver, its channels, the audio clock | `InitDriver`, `Start`, `Close`, `ServeVideoStream`, `ServeAudioStream`, `HandleEvent` | reads the driver's channels, writes RTP tracks |
| scrcpy start-up (`sdriver/scrcpy/driver.go`, `adb.go`, `interface.go`) | reverse tunnel on the phone, the port, three connections | `New`, `StartScrcpyServer`, `Stop` | adb, the server on the phone; called under the manager's lock |
| scrcpy video path (`transferFrame.go`, `cache.go`, `interface.go`) | payload buffer, `VideoChan`, cached SPS, PPS and IDR | `convertVideoFrame`, `updateCache`, `sendCachedKeyFrame`, `RequestIDR` | the device's stream, the agent's loop |
| Payload buffer (`sdriver/comm/linearBuffer.go`) | one byte array and an offset | `Get` | the readers of every driver |
| Linux driver (`sdriver/linux/`) | connection to the recorder, cached parameter sets | `New`, `handleConnection`, `SendEvent`, `Stop` | the embedded recorder binary, which it writes to a file and runs |
| Recorder (`linuxRecorder/recorder.go`, `session*.go`) | child processes, the list of clean-up functions, files | `LaunchSession`, `WaitTCP`, `WaitSessionReady`, `StartRecord`, `CleanUp` | the display server, signals, the driver's connection |
| Recorder input (`linuxRecorder/inputController.go`) | buttons and fingers of X11 or of virtual devices | `ServeControlConn`, `HandleMouseEvent`, `HandleTouchEvent`, `HandleKeyboardEvent` | the connection to the driver |
| Browser input (`public/static/capabilities/`) | keys and buttons down, motion not yet sent, pointer lock | DOM handlers, animation frames | the two data channels |
| Wire protocol (`public/static/capabilities/`, `eventParser.go`, `sendEvent.go`, `control.go`) | packets of a type byte and fields, key tables | `createKeyPacket` and its like, `parseEvent`, `SendEvent` | page, agent, driver, device, in this order |
| Browser session (`connect.js`) | peer connection, WebSocket | the handshake | the manager |

What is hard in it: handlers and pion's callbacks interleave on one lock; receipt
numbers wrap around and are reused; a blocking start runs under that lock; a
payload is handed to a channel and its memory reused without being given back;
caches are written by a goroutine per packet; a phone's server is started by a
command of another process and may come late, twice or never; signals arrive in
the middle of a start; the driver and the recorder it starts give up after
different times; a video arrives in pieces that know nothing of its units; the
page sends over an unordered channel, two goroutines write to one connection,
and two of the page's scripts share one mouse.

What makes each part correct, in short: one agent per device and generation of
viewers, never a stopped one within reach (manager); parameter sets that belong
together and memory that nobody overwrites (video); a driver connected to the
device that was asked for and nothing left behind (start-up); every child
killed, the display last, and no recorder waiting for nobody (recorder); boxes a
decoder can use (Linux video); packets read as they were meant (wire); no key or
button stuck, no motion lost (input).

## 2. Plan

Done, in this order: the manager with its proofs, the payload buffer with its
proofs, the scrcpy video path on top of it, the recorder, the Android keyboard,
the Linux pointer, the scrcpy start-up; then the Linux driver, composed with the
recorder it starts (`LinuxSession`), the video of a Linux session from the
encoder's bytes to the agent (`LinuxFrames`), the control path from the page to
the device (`ControlWire`, `ControlPath`), the sound of a phone (`AudioStream`),
and all that passes between a session and its device together (`Connection`).

Next:

1. **Several fingers, the UHID mouse and the game pad**: touch identifiers modulo
   10; the report of a virtual device on the unordered channel, its creation on
   the ordered one.
2. **Device messages**: `transferControlMsg`, `FeedbackEvents` and the loop that
   hands them to every viewer.
3. The pure functions `PruneSEI` and `ParseBitrate` against reference
   definitions.
4. **Connect**: the browser's half of the handshake against the manager's.

Every safety property of the runs is proved for every value of the constants; what
has no proof is liveness.

The runs are kept few: a new component joins the run of the component it
interacts with.

## 3. The modules

| Module | Models | Kind |
|---|---|---|
| `WebRTCManager` | the session manager and its handlers | detailed |
| `DeviceSharing` | what the manager promises of a device | abstract, refined by `WebRTCManager` |
| `WebRTCManagerProofs` | safety, the refinement of `DeviceSharing`, open connections | proofs |
| `LinearBuffer` | `Get` and the discipline of its users | abstract, refined by `ScrcpyVideo` |
| `LinearBufferProofs` | when the memory handed out is free | proofs |
| `ScrcpyVideo` | video path from the device to the track | detailed |
| `ScrcpyVideoProofs` | parameter sets, the refinement of `LinearBuffer` | proofs |
| `AudioStream` | sound from the device to the track, and its clock | detailed |
| `ScrcpyStart` | starts and stops of scrcpy drivers | detailed, several devices |
| `ScrcpyStartProofs` | who is connected to whom | proofs |
| `RecorderSession` | life of the recorder process | actions, no specification of its own |
| `LinuxSession` | the Linux driver and the recorder it starts | detailed, extends `RecorderSession` |
| `LinuxSessionProofs` | the clean-up of the recorder | proofs |
| `LinuxFrames` | video of a Linux session, from the encoder's pipe to the agent | detailed |
| `ControlWire` | packets, parsers and key tables | pure operators |
| `ControlPath` | page, channels, agent, driver and device around them | end to end |
| `Connection` | `LinuxFrames`, `ControlPath` and `AudioStream` in one session | composition |
| `ConnectionProofs` | the video of a Linux session, the sound of a phone, the control path of both | proofs |
| `AndroidKeyboard` | both keyboards of the page, the channel, the phone | end to end |
| `AndroidKeyboardProofs` | what the phone has down | proofs |
| `LinuxPointer` | both mouse scripts, the channel, the recorder's input | end to end |
| `LinuxPointerProofs` | motion, clicks and buttons, with an induction over packets | proofs |
| `MC...` | finite instances for TLC | |

Definitions marked "Broken on purpose" are not part of any specification. Each
is a plausible slip in the definition that follows it; put in its place, a run
finds the property that `PROJECT.json` pairs it with violated.

### WebRTCManager

A client is one run of `handleScreenWS`. One action stands for one critical
section of the manager's mutex or one stretch of code between two of them;
`InitDriver`, which blocks inside a critical section, is two actions with `lock`
held in between. `hpc` is where the handler stands, `bcast`, `counter`, `subs`
and `agent` are the maps, `hook` the receipt number captured by the callback and
`cleanups` the callbacks under way. Objects are named after the client that
allocates them, so pointers captured before a broadcaster left the map stay
distinct from new ones. `Connect`, `Disconnect`, `IceFails` and
`BrowserCloses` are pion and the network. A panic (a nil agent) sets `up` to FALSE.

### LinearBuffer and ScrcpyVideo

`LinearBuffer` is the code of `Get` plus the assumption nobody wrote down: a
payload is dropped before `Window` others follow. `ScrcpyVideo` has the reader,
a goroutine per `updateCache`, the first key-frame request, the channel and the
agent's loop; its `InUse` (segments referenced by any of them) is the `live` of
`LinearBuffer`. A parameter set or key frame is represented by the encoder session that made
it. A write of `LastIDR`, done without the mutex, is two steps, because a Go
slice is several words. `Window == (ChanCap + 1) * (MaxQuiet + 1)`: each box
behind it in the channel, and the one being sent, cost one payload and the quiet
ones before it.

### AudioStream

Time is counted in ticks since `Agent.Start`. The device records a packet every
`Frame` ticks; it passes the reader and `AudioChan` in order, so a packet is no
more than its place in line, and when it was recorded follows from that. The
clock of `ServeAudioStream` adds a packet's length each time and is set to the
real time when it is more than `Drift` off. Both are times modulo `RtpWrap`,
compared as plain integers, as the code does. Packets may pile up anywhere and
come in a burst: `late` says that one was taken more than `Drift` after it was recorded.

### ScrcpyStart

`at` is where the start or stop in progress stands: there is one at most,
because `ensureAgent` and `setCleanup` run them under the manager's lock. A
server is numbered by the start that launches it and goes through asleep,
starting, open, spoke (or mute), ended (or gone). A connection is a server and
the role the server opened it for, so that a connection used for another role
can be seen. An error of `New` ends the process: `ensureAgent` drops it and
`agent.Start` dereferences the missing driver; `Panic` follows, and nothing else
of the process is modelled in the moment before it. Commands of adb either
succeed or fail, the one that removes the tunnel too, whose error nobody looks at:
the history variable `stuck` keeps the devices it failed on. A command that never
returns is not modelled. The options for sound and control are "true", "false" or
unset: the server takes an unset one as true and opens the socket (`ServerRoles`),
`New` does not and accepts none (`AfterVideo`, `AfterAudio`).

### RecorderSession and LinuxSession

`RecorderSession`: `main`, the goroutine of the signal, that of `RunCmd` and the
push loop, the children with "started" and "registered" as two steps, and
`CleanUp` behind its `Once`. The back end is a choice of the initial state: the
three kinds of session (Sway, Xorg, Xvfb) and "wayland", the flag's default,
which is none of them. Sway has two sockets, each a file of its own: `CleanUp`
removes sway-ipc ("socket"), the next Wayland session removes wayland-N
("wayland") with its lock.

`LinuxSession` starts it. `dpc` is where `New` stands: it writes the embedded
binary, runs it, and dials once a second until `GiveUp` seconds are over. The
recorder listens when its display is up, for `AcceptWait` seconds. `Second` is a
second for whoever counts; nobody may sleep past an attempt to dial or a
connection to accept. A connection is made by the system before it is accepted
(`backlog`). An earlier driver may have given up and left its own recorder
listening on the same port (`squat`): then the new recorder cannot listen, and
the new driver is connected to the old one (`link = "old"`). `ip` is never set
by `New`, so the start over ssh is unreachable and has no action.

### LinuxFrames

The encoder writes units to a pipe, in bytes: a byte is a number, a unit its
start code and its data, with a last byte that tells it from every other unit.
It ends by itself, or in the middle of a unit. `bufio.Scanner` takes the bytes
from the pipe in pieces of any size and calls `SplitNALU`, translated as a
function of the buffer and of the end of file. `PushFrame` sends a unit with its
length, `Receive` is one turn of `handleConnection`: start code, type, parameter
sets kept, pictures dropped up to the first key frame, one box handed over. A
box says whether it is a copy or a slice of the receive buffer, and
`PicturesOutlast` counts the payloads read behind a slice: `Window` and
`MaxQuiet` are those of `LinearBuffer` and `ScrcpyVideo`. The module ends with the
inductive invariant behind the three properties, `FramesInv`.

### ControlWire and ControlPath

A packet is a type byte and fields; a layout lists the widths of the fields, and
a field of any length has its length in front. An event's numbers become bytes
at the page; from there on fields are bytes that a conversion widens (`Widen`),
cuts (`Low`) or reads (`Num`), in two's complement, so that widths and 16-bit casts
keep their meaning. The four places a packet passes have a layout or an
operator each: the page (`PageLayout`), the agent (`parseTouchEvent` and its
like; `Exact` for the types that ask for an exact length), the driver
(`LinuxPacket`, `ScrcpyPacket`) and the device (`RecorderLayout`,
`ServerLayout`, the last external). `ControlPath` sends events through them:
two data channels, a goroutine for each, one connection that both write to, and
a reader that knows where a packet ends only from its type.

`Meant` says what a device has to read for an event without going through the
conversions, and `Kernel` is the keyboard position by position, written without
the code's tables. `TablesAgree` compares the tables with it. `Possible` says which
events the scripts loaded for a session can cause: their types, and values that
their fields hold.

### AndroidKeyboard and LinuxPointer

A handler of the page runs to its end and is one action. The channel is a
sequence: messages leave it in order (keyboard) or in any order (mouse, whose
data channel is created unordered but reliable). The user, the page, the wire
and the device are separate groups of variables, so the properties relate
the two ends. Auxiliary variables: `missed` names keys or buttons whose last
press or release the page has not seen, or has sent as something else;
`overtaken` says a packet arrived before an earlier one; `moved` sums what the
user did.

## 4. The runs

| Run | Instance | Shows |
|---|---|---|
| `manager_safety` | 3 clients, 1 device, 2 receipts, ICE failures | numbers wrap and are reused; one agent per broadcaster, none stopped within reach, one entry per connection |
| `manager_orderly` | 3 clients, 3 receipts, no ICE failure | open connections are counted, attached, and not cut off |
| `manager_liveness` | 2 clients, 2 receipts, ICE failures, fairness | handshakes end, dead connections leave; `DeviceSharing` is implemented |
| `manager_agent_closed` | 3 clients, 4 receipts, ICE failures | violated, see 7 |
| `video_sessions` | channel of 1, 2 encoder sessions | parameter sets belong together |
| `video_buffer` | channel of 1, 1 quiet packet, fairness | the video path keeps inside the window; `Stop` releases the goroutines |
| `scrcpy_start` | 2 devices, 2 launches, 1 restart, fairness | who is connected to whom, what is left, whether a start ends |
| `linux_session` | every back end, `GiveUp` 2, `AcceptWait` 4, an old recorder or none, fairness | `New` returns; a recorder nobody talks to ends; clean-up is complete, in order, and happens once |
| `linux_stream` | the same, no fairness | violated, see 7 |
| `connection` | see below | boxes can be decoded and are not overwritten; packets are read as they were meant, keys come out as themselves; sound is stamped with the real time, and regularly while nothing is late |
| `keyboard` | 3 letters (one without a key code), 1 modifier, report of 2, 3 messages under way | the phone's keyboard follows the page's, nothing stays down |
| `pointer` | X11 and Wayland, 2 buttons, 1 motion, 2 packets under way | motion is conserved, clicks land in place, buttons settle |

Bounds, and why they are enough:

- One device for the manager: devices share the mutex and nothing else, and the
  proofs cover any number. Three clients and two receipts are the least at which
  a number is reused while its first holder is still there and a third client
  watches.
- `MaxClients` is 3 in `manager_orderly`: room for every client, so that the
  known consequence of reused numbers does not hide the rest. In that instance
  no ICE failure happens, because a failed connection has two callbacks and the
  second one is the finding of 7.
- A channel of one box, a packet of one byte and one quiet packet in `video_buffer` keep the
  proportions of the real values; the room for any values is what
  `LinearBufferProofs` proves. With the code's capacity of 10 and one quiet packet the
  window is 22, and a 20 MB buffer is safe for packets up to 20 MB / 24, some 870 KB.
- Two encoder sessions are enough to mix parameter sets.
- Two launches in `scrcpy_start` are a start and its late server against a later
  start, of the same or the other device, with the process ended and started again
  between them or not; a second restart would have no launch to follow it.
- The report of two keys stands for the six of the code: with three letters it overflows.
- One motion of the hand per run in `pointer`: it may still be split over frames, overtake
  the button before or after it, or fall into a change of the pointer lock.
- `GiveUp` and `AcceptWait` are 2 and 4 for the 5 and 10 seconds of the code:
  half, as there. The driver may give up before the recorder listens, while it
  waits, and not at all.
- `connection` has a channel of one box, one unit on the wire, three bytes in the
  pipe before the encoder waits, and three events of the user. The product of
  any video, any user and sound tells nothing new, since they meet in `open` alone;
  so a scenario is a video nobody touches, a user without a video, one key
  frame and one key together, or sound alone. Videos: H.264 and H.265, with short, long and
  mixed start codes, parameter sets that change, pictures in front of the first
  key frame, units the driver ignores. Users: each key of the keyboard, and a
  modifier with two keys of the navigation block, on X11 and on Wayland; PageDown
  and the left Meta key, which collide on X11; motion,
  wheel and touch among keys; on Android the virtual devices and the
  commands. Numbers are chosen at their borders: negative, above 255, 65535, a
  name or text of a few bytes. Sound: a packet is 2 ticks and the clock may be 6
  off, three packets for the five of the code; 21 ticks until the RTP time starts
  again are no multiple of a packet, as 2^32 is none of 960. Six packets may be
  in line, so that a burst sets the clock back as well as forward, and 26 ticks
  go past the start of the second round.
- `WheelStep` is 3 for the 40 of the code: a turn of 1 and of 2 are both below it.

`CHECK_DEADLOCK FALSE` is set where the system may really stop: sessions end
(manager), the process ends (recorder, start-up), the stream ends (video), the
connection is closed or its user has nothing more to say (connection).

Fairness. Goroutines run (weak fairness per goroutine). Blocked senders of a Go
channel and waiters of its RWMutex are served in turn, which is why the two
senders on `VideoChan` have strong fairness in `ScrcpyVideo`. Commands of adb
return. Nothing is assumed of people, browsers, ICE, signals, or of servers and
children that fail; a server on a phone writes unless it is mute. In
`LinuxSession` `New` and the recorder's goroutines run, time passes, and an old
listener has its deadline; that somebody stops the driver is not assumed.
`Connection` has safety properties only. `HandshakeEnds`
has the hypothesis that a connection does not alternate between connected and
pending for ever.

What the environment is assumed to do: in `ScrcpyVideo`, packets fit the buffer,
at most `MaxQuiet` packets in a row give no box, and an `updateCache` goroutine
has read its packet before `Window` later ones (nothing in the code makes it);
in `AndroidKeyboard`, the channel is open and the page is the device's only
viewer; in `LinuxPointer`, one axis of motion stands for two; in `LinuxFrames`, the
data of a unit holds no start code and does not end with a zero, as both video standards demand.

## 5. What is proved

Every theorem is about `Spec`, for every value of the constants that the named
assumptions of the modules allow. TLC has checked each inductive invariant on
a run's instance first.

### The manager (`WebRTCManagerProofs`)

For any set of clients, finite or not, any devices, any number of receipts from 1
on, with or without ICE failures: `Spec => []InductiveInv`, and from it
`TypeOK`, `OneEntryPerConnection`, `OneAgentPerBroadcaster`,
`StoppedAgentIsUnreachable`, `ReachableAgentHasSubscriber` and the action
property `DriverLifeCycle`.

None of these is inductive alone. That two agents never serve one broadcaster
needs to know that an agent belongs to the broadcaster captured when it was
made, and that the broadcaster's field names it (`AgentOwned`); that a stopped
agent is out of reach needs that a broadcaster enters the map once, at its
creation (`BroadcasterCreatedOnce`), and that who is in `InitDriver` holds the
lock, so no callback closes a half-made agent (`LockHeld`). An agent that
newcomers can reach has a subscriber because a broadcaster counts as claimed
from the moment a handler has seen its own entry in it (`MapConsistent`), and
that the callback removes the right entry rests on `OneEntryPerConnection` with
`ReceiptOnce`. The proof takes one lemma per part and one step per action.

`ManagerImplementsSharing`: each step of the manager is a step of
`DeviceSharing` or a stutter for it. This needs, besides `InductiveInv`, that a
broadcaster nobody has made yet is empty (`BroadcasterStartsEmpty`, proved as
`StartsEmpty`): a newcomer who makes one starts with no viewer.

`SessionsCounted`, `SessionsAttached` and `SessionsServed` say that an open
connection has its entry, hangs on the agent newcomers are sent to, and is not
cut off. They have hypotheses of two kinds. `Orderly` restricts the instance: as
many receipts as sessions, and no ICE failure. `NoStray` restricts the
behaviour: nobody has registered in a broadcaster that had left the map while he
negotiated. Three sessions do without the second, as `manager_orderly` shows.
With five sessions and five receipts there is a behaviour of 64 states that breaks
all three: no callback removes the stray entry, and when the numbers have gone
round its owner may take another session's entry for his own. So the theorems are `Spec => [](NoStray => ...)`. The invariant,
`OrderlyInv`, says that callbacks run once, for their own number (`OwnCleanup`),
that the session a handler looks up or waits for is its own (`OwnTarget`), that handlers go by
the broadcaster in the map (`InTheMap`), and that numbers are given in turn
(`NumbersGiven`).

### The payload buffer and the scrcpy video

`LinearBufferProofs` (for every size, longest payload and window, as
`Room => ...`, where `Room` says that they are natural numbers and that
`Size >= (Window + 2) * MaxLen`; no assumption on the constants):
`InductiveInv`, `GetReturnsFreeMemory` and `TypeOK`. The invariant says where a
payload in use lies behind the offset: in the same round, the bytes between are
those of the `Get`s since, at most `age * MaxLen`; in the round before, the tail
skipped at the end comes on top, less than one more `MaxLen`. A new payload
would have to lie more than `(Window + 1) * MaxLen` behind to reach one that is
still read.

`ScrcpyVideoProofs` (`VideoConstants`: any capacity of the channel, any number of
encoder sessions and quiet packets): `VideoImplementsBuffer`, the video path keeps
the discipline of `LinearBuffer`; with it and `Room`, `BoxesStayIntact`; and
`SetsTogether`, which is `ParametersBelongTogether`. The refinement needs how old a
payload can be at each place it passes: `Fresh` gives the boxes on the channel,
in the reader's hand and in the agent's, each its age, from the capacity and the quiet
packets in between. Parameter sets are together because the cache is written as one
by the packet that brings them (`CacheTogether`), and because the reader holds the
payload it is about to send (`ReaderHolds`).

### The recorder (`LinuxSessionProofs`)

For any `GiveUp` and `AcceptWait` from 1 on (`TimesAssumption`): `TypeOK`,
`RegisteredIsListed`, `ExitIsClean` and the action property `BaseStopsLast`. They
rest on the order in which `main` registers its children (`PushedInTurn`): the
display comes first and nothing can have taken the list before it (`DisplayFirst`),
since the signal is registered later; and `CleanUp` is over for whoever goes on
(`CleanUpInOrder`). The files that may stay are named, too (`LeftoversOf`): of sway
its configuration, and wayland-N with its lock.

### scrcpy start-up (`ScrcpyStartProofs`)

For any devices, any number of launches and restarts (`BoundsAssumption`):
`LateServerShutOut`, `RolesMatch`, `TunnelsFollowDrivers`, `PortIsTheStarters`. The
sockets a start takes from the port are its server's next ones as long as nobody
else calls (`TakenInOrder`), and somebody else can only call through the tunnel
of a running driver, of the start itself or of a device whose tunnel adb failed to
remove (`CallersKnown`, `TunnelsKept`). The theorems leave out what does go wrong,
by name: `stuck` tunnels, and the control connection when sound is unset and
control is asked for (`Misled`).

### The Android keyboard (`AndroidKeyboardProofs`)

For any letters, modifiers, length of the report and number of messages under
way (`KeyboardAssumption`): `HidDeviceFollows`, `InputHasDevice`, `BlurReleases`,
`WhatIsHeldIsDown`. Each speaks of a phone that has received everything; the
invariant therefore says of every message under way what it will lead to: the
last one that bears on the virtual keyboard (`Plugged`, `HidSettles`) or on a key
(`KeysSettle`) decides, and a report finds its keyboard (`InputsFollow`).

### The Linux pointer (`LinuxPointerProofs`)

For any buttons, steps and number of packets under way (`PointerAssumption`):
`MotionConserved`, `ClickInPlace`, `ButtonsSettle`. The motion under way is a sum
over a queue of any length, with a packet taken from any place in it. The proof
is an induction over places: `LeastOf` gives a least place at which a claim
fails, and `Induction` the usual form for a set of numbers; `CarriedAppended` and
`CarriedRemoved` say what happens to the sum when a packet is appended or taken
out. Then each packet finds the pointer where it has to (`PlacesAdd`), the last
packet that names a button decides about it (`ButtonsCome`), and the two
scripts share the mouse (`ScriptsShare`).

### The Linux video (`ConnectionProofs`)

For any capacity of the channel (`ChannelAssumption`), any bounds on the pipe and
the connection, and any scenarios whose streams are sequences of `Unit`, units as
the two video standards demand them (`ScenariosAssumption`): the invariant
`FramesInv`, and from it `NalsAreWhole`, `BoxesDecodable` and `PicturesOutlast`.

- The bytes in the scanner's buffer and the pipe are the units that have not
  been sent, each from a place of its own on, and of the last one as much as the
  encoder wrote (`UnitsLeft`). Given such places, `SplitNALU` finds the second of
  them, with a start code of either length, or asks for more: that is what the
  lemmas on start codes come to. It is proved of the function of the
  code itself, not of a summary. An encoder killed in the middle of a unit is why
  the places of the last two are inequalities and `Kept`, not `Whole`, is the
  border for what is only a prefix (`UnitsInOrder`).
- The driver holds the latest parameter sets and knows whether a key frame has
  come (`DriverKnows`); the boxes in the driver's hand, the channel and the agent's
  hands are pictures in their order, and none was left out between them
  (`BoxesInOrder`, `NoneSkipped`).
- So two boxes next to each other are at most `MaxQuiet + 1` payloads apart
  (`Close`), and there are `ChanCap + 2` boxes at the most.

`UnitsLeft` speaks of a function that TLC cannot look for; on the instance of
`connection` the invariant was checked with the places written down.

### The sound (`ConnectionProofs`)

For any length of a packet, tolerance and RTP range of more than twice the
tolerance (`ClockAssumption`), in a session with any video and any user:
`AudioRegular`. The clock, taken modulo the range, is at most `Drift` ahead of the
packet it is for as long as nothing is late (`ClockFollows`); the arithmetic of
remainders that it takes is proved in the lemmas in front.

### The control path (`ConnectionProofs`)

For any scenarios whose users do what the page lets them (`Possible`, in
`ScenariosAssumption`), any number of events and any video beside them: the
invariant `ControlSafe`, and from it `ReaderInStep` and `KeyboardFollows`.

- One event first. `EventsArriveAsMeant` says that the packet of the page becomes
  one event at the agent, and that event one packet of the driver, with the bytes
  the device has to read. It holds for every value that fills the fields: what is
  widened for scrcpy or for the recorder loses nothing in two's complement
  (`ShiftedOf`, `NumBE`, `NothingLeft` are the arithmetic under it), what is cut was
  small enough. A field of any length is read back by the length in front of it.
- Then their order. The bytes on the connection are the packets of the events
  written and not yet read (`AtPacket`), so the reader is always at the beginning of
  a packet: its type byte has one type, `Fields` takes exactly the packet's
  fields and leaves the others (`PacketRead`). This needs that a goroutine has one
  packet to write and writes it at once (`ControlTypeOK`), whichever of the two
  writes next. `Fields` is a recursive function over the layout; its value after each
  field is one of the numbers for which `Induction` shows the claim.
- Then the keys. On the ordered channel events are written in their order, none
  twice (`OrderedWritten`), none is lost while the connection is open (`NoneLost`), and
  the device's keys are those whose last event read is a press (`KeysOfRead`). When
  all has arrived, what was read of the keys is what was sent of them
  (`AllArrived`).

The last step uses `TablesAgree`, an assumption (`KeyTablesAssumption`) without a
parameter: the tables of the code are finite, and TLC evaluates it. TLC has checked
`ControlSafe` on the instance of `connection`.

### Only model-checked

- Liveness (`HandshakeEnds`, `DeadConnectionLeaves`, `StopReleases`, `StartEnds` and
  those of `linux_session`): the installed TLAPS reasons neither about fairness nor about
  ENABLED.
- `TablesAgree`, see above: facts about constant tables, for TLC to evaluate.

## 6. What is not modelled

Planned (see 2): touches of several fingers, what the UHID mouse and the game
pad keep between their reports, the messages of the device and `FeedbackEvents`,
`PruneSEI`, `ParseBitrate`, the browser's handshake.

Access control
(`handleUnlock.go`, `jwt.go`), the console's pages, request routing, device
discovery and the fixed configuration texts: no state of their own, or outside
this project. The SPS bit readers (`h264SPS.go`, `h265SPS.go`) parse long bit
strings and are left to tests. The `dummy` and `sunshine` drivers are not
reachable from a handler. The start of the recorder over ssh, and
`AndroidKeyCodeToX11` in `sendEvent.go`, have no caller.

Left out of modelled parts: choice of bit rate, size and encoder options in
`scrcpy.New` (data of the server; an error in it is modelled), the RTP time of a
picture (the device's or the agent's, without a state of its own), absolute
pointer positions, the scanner's limit on the length of a unit, and the wording of
messages. The control path has no request for a key frame: the one the page might
send (`eventParser.go:39`, no script does), and the byte 99 that the agent's start
and each viewer's RTCP goroutine write to the phone (`control.go:261-275`), always
as one whole write, between packets. A phone that disconnects takes its tunnel with
it: `ScrcpyStart` leaves the tunnel there, which can only let more servers in. Motion of the pointer and turns of the wheel
keep within 16 bits in `LinuxPointer`: the cast of `inputController.go:168` and
the page's `setInt16` change nothing then. What a mouse or a touch packet does to the screen is in `LinuxPointer`,
how it gets there in `ControlPath`.

## 7. What the code does that its text does not say

Two runs show a statement of the code violated.

- `manager_agent_closed`: pion calls the state callback for "failed" and, since
  the callback closes the connection, again for "closed". The second call
  removes the receipt number once more. If the number was given out again in
  between, a connected viewer loses its entry, and the agent is closed although
  the log says "No more subscribers".
- `linux_stream`: `README.md:31-32` lists "Video, Control" as what Linux supports.
  The last statement of the recorder's `main` is `go session.ServePushFrames()`:
  `main` returns, and the deferred `CleanUp` kills the encoder and the display
  and closes the connection with the first frames under way.

Seen while modelling, stated by no property that a run checks:

- A session that negotiates while the last viewer of its device leaves registers in a
  broadcaster that is no longer in the map. Its handler gives up, but no callback
  removes its entry. With five sessions this can cost another one its count (see
  5, `NoStray`).
- A retry after a time-out on a slow phone is served by the server of the first
  try. Its own server, launched two seconds later, finds the tunnel of a running
  driver, and connects to another device's start if one happens to listen then.
  `LateServerShutOut` leaves this case out.
- `config.go:23-38` gives `audio` and `control` the default true, and the console shows
  them as on (`console.js:193`), but starts a device nobody has configured with no
  options at all. An unset option is dropped from the server's arguments
  (`adbutils.go:54-58`), and the server opens the socket; `New` accepts it only for
  the string "true" (`driver.go:332`, `342`), so such a device has neither sound nor
  control. When sound is unset and control is "true", `New` takes the sound's socket for the control
  connection. `RolesMatch` names both cases.
- The error of the command that removes a tunnel is dropped (`adb.go:58`, and
  `driver.go:320`, `337`, `347`, `adb.go:30`): the tunnel stays, without a driver,
  and a late server of that device may call on another device's start.
  `TunnelsFollowDrivers` and `LateServerShutOut` name the devices concerned.
- `CleanUp` kills sway and removes its sway-ipc socket only (`session.go:249-253`):
  wayland-N and its lock stay until the next Wayland session removes them
  (`sessionWayland.go:26-30`).
- `io.ReadFull` on an accepted connection has no deadline although the comment at
  `driver.go:310` speaks of a total one: a silent server blocks the manager.
  `StartEnds` names it as its exception.
- The default bit rate of `scrcpy.New` never takes effect: the string was read before.
- `RequestIDR(true)` may send a cached key frame without an IDR: the cache is
  tested for being empty altogether.
- The clock of the sound is set although nothing is late when its 32-bit time
  starts again, after some 25 hours: `streaming.go:82` takes the difference of two
  such times as wide integers. `AudioRegular` names that moment as its exception. After a burst
  the clock is set back, so stamps repeat: the "strictly increasing" of
  `streaming.go:100` holds between corrections only.
- The lines that skip the first packet of the sound, which describes its
  encoding, are commented out (`transferFrame.go:110`): it goes to the viewers
  and takes 20 ms of the clock. An error in the middle of a packet is ignored
  (line 109): what the buffer held before is played once.
- When the agent's loop ends with a write error a full `VideoChan` holds the
  reader for ever; `StopReleases` names it.
- `LinearBuffer.Get` never returns nil, as its comment says it may: what is too
  long for the buffer panics.
- The comment at `webRTCManager.go:257` takes the broadcaster to exist; the
  second callback of another connection may have removed it, and the handler
  then reports an error.
- The comment in `recorder.go` promises a clean-up on Ctrl+C. The signal is
  registered only once the session is ready: before that it leaves the display
  running, as `log.Fatal` does later, which runs no deferred call; so does a child
  that registers after `CleanUp` took its list. `ExitIsClean` is about the exits
  that do call `CleanUp`.
- The back end the driver asks for by default, "wayland" (`linux/config.go:11`), is refused by
  the recorder.
- A socket that a killed X server left behind counts as a display that is ready
  (`sessionXorg.go:201`).
- No driver closes its channels: the loops of the agent, and the goroutine that
  hands `FeedbackEvents` to the viewers, outlive it.
- A unit that is cut off in the middle may take a zero of its own start code for the
  end of the one before: the last two units of a killed encoder are not whole, and
  `NalsAreWhole` leaves them out.
- The X11 line of the left Meta key stands inside the comment of the line before
  (`keyCodeMaps.go:128`): the key presses PageDown there, and its release releases
  PageDown. `KeyboardFollows` names it as its exception. On Wayland the virtual
  keyboard has no navigation block: `Missing` names those keys.
- On Wayland a move sent by the last animation frame after the release puts the
  finger down again; a release outside the video leaves finger or button down;
  the pointer lock's mask may keep a button released meanwhile.
