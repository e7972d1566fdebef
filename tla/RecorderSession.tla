--------------------------- MODULE RecorderSession ---------------------------
(***************************************************************************)
(* The life of the recorder binary (linuxRecorder/): main, the goroutines  *)
(* it starts, the child processes of a Session and CleanUp, which a signal *)
(* and the end of main may both call.                                      *)
(*                                                                         *)
(* A child is started and only then handed to cleanupFuncs, in two steps:  *)
(* CleanUp may take the list between them.  Nothing of the process moves   *)
(* before it is started (exit = "off") or when it is gone; its children    *)
(* have process groups of their own and stay.                              *)
(*                                                                         *)
(* The module has the actions of the recorder alone.  LinuxSession starts  *)
(* it, connects it to the driver and gives the specification.              *)
(***************************************************************************)
EXTENDS Naturals, Sequences, SequencesExt

Kids == {"display", "desktop", "shell", "recorder"}
\* What -backend may say: the three session types, and "wayland", the default of
\* the flag and of linux/config.go, which is none of them.
SessionTypes == {"sway", "xorg", "xvfb"}
Backends == SessionTypes \cup {"wayland"}
X11 == {"xorg", "xvfb"}

\* The sockets a display server of the session's type opens.
SocketsOf(type) == IF type = "sway" THEN {"socket", "wayland"} ELSE {"socket"}

VARIABLES
  sessionType,   \* the -backend flag
  mpc,           \* where main stands
  shpc,          \* the goroutine of RunCmd("xterm")
  spc,           \* the goroutine that waits for a signal
  kid,           \* the child processes
  funcs,         \* Session.cleanupFuncs
  once,          \* Session.cleanupOnce
  taken,         \* the functions CleanUp has yet to call
  files,         \* temporary files and sockets of the display
                 \* (of sway: "socket" is sway-ipc, "wayland" wayland-N and its lock)
  conn,          \* the connection to the server: is it open?
  output,        \* Session.recorderOutput is set
  push,          \* the goroutine of ServePushFrames
  cancelled,     \* the context of main
  exit           \* how the process ended

session == <<kid, funcs, once, taken>>
recorder == <<sessionType, mpc, shpc, spc, session, files, conn, output, push, cancelled, exit>>

MainStates == {"new", "launch", "pushDisplay", "listen", "accept", "wait",
               "pushDesktop", "control", "notify", "spawnShell", "record", "pushRecorder", "serve",
               "cleanup", "cancel", "return"}
Exits == {"off", "running", "refused", "fatal", "killed", "signal", "return"}

RecorderTypeOK ==
  /\ sessionType \in Backends
  /\ mpc    \in MainStates
  /\ shpc   \in {"off", "spawn", "push", "end"}
  /\ spc    \in {"off", "wait", "cleanup", "exit"}
  /\ kid    \in [Kids -> {"none", "started", "registered", "dead"}]
  /\ funcs  \in Seq(Kids)
  /\ once   \in {"fresh", "busy", "done"}
  /\ taken  \in Seq(Kids)
  /\ IsInjective(funcs \o taken)           \* no child is listed twice
  /\ files  \subseteq {"config", "socket", "wayland"}
  /\ conn   \in BOOLEAN
  /\ output \in BOOLEAN
  /\ push   \in {"off", "on", "ended"}
  /\ cancelled \in BOOLEAN
  /\ exit   \in Exits

\* A killed display server leaves its sockets for the next run to find.
RecorderInit ==
  /\ sessionType \in Backends
  /\ mpc    = "new"
  /\ shpc   = "off"
  /\ spc    = "off"
  /\ kid    = [p \in Kids |-> "none"]
  /\ funcs  = << >>
  /\ once   = "fresh"
  /\ taken  = << >>
  /\ files  \in SUBSET SocketsOf(sessionType)
  /\ conn   = FALSE
  /\ output = FALSE
  /\ push   = "off"
  /\ cancelled = FALSE
  /\ exit   = "off"

Alive(p) == kid[p] \in {"started", "registered"}

-----------------------------------------------------------------------------
(* SpawnProcess and CleanUp                                                *)

Start(p) == kid' = [kid EXCEPT ![p] = "started"]

\* (Broken on purpose: one function for the group and one for the process.)
PushCleanupTwice(p) ==
  /\ funcs' = funcs \o <<p, p>>
  /\ kid' = IF kid[p] = "started" THEN [kid EXCEPT ![p] = "registered"] ELSE kid

\* PushCleanup, under cleanupMutex.  A child may be dead by now.
PushCleanup(p) ==
  /\ funcs' = Append(funcs, p)
  /\ kid' = IF kid[p] = "started" THEN [kid EXCEPT ![p] = "registered"] ELSE kid

\* (Broken on purpose: the list is cleared before it is copied.)
EnterCleanUpCleared ==
  /\ once = "fresh"
  /\ once' = "busy"
  /\ funcs' = << >>
  /\ taken' = << >>
  /\ UNCHANGED kid

\* Once.Do: who comes first takes the functions, who comes later waits.
EnterCleanUp ==
  /\ once = "fresh"
  /\ once' = "busy"
  /\ taken' = funcs
  /\ funcs' = << >>
  /\ UNCHANGED kid

\* (Broken on purpose: a flag instead of a Once, the second caller does not wait.)
CleanUpFlagged == once # "fresh"

\* The Once has let its caller go.
CleanUpReturned == once = "done"

\* (Broken on purpose: first in, first out.)
KillFirst ==
  /\ kid' = [kid EXCEPT ![Head(taken)] = "dead"]
  /\ taken' = Tail(taken)

\* Last in, first out.
KillNext ==
  /\ kid' = [kid EXCEPT ![Last(taken)] = "dead"]
  /\ taken' = Front(taken)

CleanupKill ==
  /\ once = "busy"
  /\ taken # << >>
  /\ KillNext
  /\ UNCHANGED <<sessionType, mpc, shpc, spc, funcs, once, files, conn, output, push,
                 cancelled, exit>>

\* What CleanUp does not remove: of sway the configuration, and wayland-N with its
\* lock, which sway, being killed, does not remove either.
LeftoversOf(type) == IF type = "sway" THEN {"config", "wayland"} ELSE {}

\* After the processes: the connection, the input devices and the files.
CleanupFiles ==
  /\ once = "busy"
  /\ taken = << >>
  /\ once' = "done"
  /\ conn' = FALSE
  /\ files' = files \cap LeftoversOf(sessionType)
  /\ UNCHANGED <<sessionType, mpc, shpc, spc, kid, funcs, taken, output, push, cancelled, exit>>

-----------------------------------------------------------------------------
(* main                                                                    *)

Fatal == exit' = "fatal"

\* initWaylandEnv, which may fail, removes the sockets of an earlier sway.
InitWaylandEnv ==
  /\ sessionType = "sway"
  /\ files' = files \ SocketsOf("sway")

\* The flags and NewSession.  "wayland" is no session type.
NewSession ==
  /\ mpc = "new"
  /\ \/ /\ exit' = "refused"
        /\ UNCHANGED <<mpc, files>>
     \/ /\ \/ InitWaylandEnv
           \/ sessionType \in X11 /\ UNCHANGED files
        /\ mpc' = "launch"
        /\ UNCHANGED exit
  /\ UNCHANGED <<sessionType, shpc, spc, session, conn, output, push, cancelled>>

\* log.Fatal ends the process without the deferred calls.
LaunchFails ==
  /\ Fatal
  /\ UNCHANGED <<mpc, kid>>

Launches ==
  /\ mpc' = "pushDisplay"
  /\ Start("display")
  /\ UNCHANGED exit

LaunchWaylandSession ==
  /\ sessionType = "sway"
  /\ files' = files \cup {"config"}
  /\ Launches \/ LaunchFails

\* writeXorgConfig may fail, the start of the server too.
LaunchXorgSession ==
  /\ sessionType = "xorg"
  /\ \/ files' = files \cup {"config"} /\ (Launches \/ LaunchFails)
     \/ UNCHANGED files /\ LaunchFails

LaunchXvfbSession ==
  /\ sessionType = "xvfb"
  /\ UNCHANGED files
  /\ Launches \/ LaunchFails

LaunchSession ==
  /\ mpc = "launch"
  /\ LaunchWaylandSession \/ LaunchXorgSession \/ LaunchXvfbSession
  /\ UNCHANGED <<sessionType, shpc, spc, funcs, once, taken, conn, output, push, cancelled>>

RegisterDisplay ==
  /\ mpc = "pushDisplay"
  /\ mpc' = "listen"
  /\ PushCleanup("display")
  /\ UNCHANGED <<sessionType, shpc, spc, once, taken, files, conn, output, push,
                 cancelled, exit>>

\* WaitTCP, first half: the port may be taken.
Listen(busy) ==
  /\ mpc = "listen"
  /\ \/ /\ ~busy
        /\ mpc' = "accept"
        /\ UNCHANGED exit
     \/ /\ busy
        /\ Fatal
        /\ UNCHANGED mpc
  /\ UNCHANGED <<sessionType, shpc, spc, session, files, conn, output, push, cancelled>>

\* WaitTCP, second half: a connection, which its other end may have closed.
Accept(open) ==
  /\ mpc = "accept"
  /\ mpc' = "wait"
  /\ conn' = open
  /\ UNCHANGED <<sessionType, shpc, spc, session, files, output, push, cancelled, exit>>

\* (Broken on purpose: the listener has no deadline.)
DeadlineWaits == UNCHANGED exit

\* The deadline of the listener.
DeadlineEnds == Fatal

AcceptTimeout ==
  /\ mpc = "accept"
  /\ DeadlineEnds
  /\ UNCHANGED <<sessionType, mpc, shpc, spc, session, files, conn, output, push, cancelled>>

\* Five seconds for the socket; then the desktop, whose failure is only logged.
WaitX11Ready ==
  /\ sessionType \in X11
  /\ "socket" \in files
  /\ \/ mpc' = "pushDesktop" /\ Start("desktop")
     \/ mpc' = "control" /\ UNCHANGED kid

\* Five seconds for the two sockets of sway.
WaitWaylandReady ==
  /\ sessionType = "sway"
  /\ SocketsOf("sway") \subseteq files
  /\ mpc' = "control"
  /\ UNCHANGED kid

WaitReady ==
  /\ mpc = "wait"
  /\ \/ (WaitX11Ready \/ WaitWaylandReady) /\ UNCHANGED exit
     \/ Fatal /\ UNCHANGED <<mpc, kid>>
  /\ UNCHANGED <<sessionType, shpc, spc, funcs, once, taken, files, conn, output, push,
                 cancelled>>

RegisterDesktop ==
  /\ mpc = "pushDesktop"
  /\ mpc' = "control"
  /\ PushCleanup("desktop")
  /\ UNCHANGED <<sessionType, shpc, spc, once, taken, files, conn, output, push,
                 cancelled, exit>>

\* SetupController; its failure is only a warning.
SetupController ==
  /\ mpc = "control"
  /\ mpc' = "notify"
  /\ UNCHANGED <<sessionType, shpc, spc, session, files, conn, output, push, cancelled, exit>>

\* signal.Notify, the goroutine behind it and the deferred CleanUp.
NotifySignals ==
  /\ mpc = "notify"
  /\ mpc' = "spawnShell"
  /\ spc' = "wait"
  /\ UNCHANGED <<sessionType, shpc, session, files, conn, output, push, cancelled, exit>>

GoRunCmd ==
  /\ mpc = "spawnShell"
  /\ mpc' = "record"
  /\ shpc' = "spawn"
  /\ UNCHANGED <<sessionType, spc, session, files, conn, output, push, cancelled, exit>>

RecorderStarts == mpc' = "pushRecorder" /\ Start("recorder")
RecordFails == mpc' = "cleanup" /\ UNCHANGED kid    \* "Failed to start recording"

\* A codec ffmpeg is not asked for, no pipe, or no process.
StartFFmpeg == sessionType \in X11 /\ (RecorderStarts \/ RecordFails)

StartWfRecorder == sessionType = "sway" /\ (RecorderStarts \/ RecordFails)

StartRecord ==
  /\ mpc = "record"
  /\ StartFFmpeg \/ StartWfRecorder
  /\ UNCHANGED <<sessionType, shpc, spc, funcs, once, taken, files, conn, output, push,
                 cancelled, exit>>

RegisterRecorder ==
  /\ mpc = "pushRecorder"
  /\ mpc' = "serve"
  /\ PushCleanup("recorder")
  /\ output' = TRUE
  /\ UNCHANGED <<sessionType, shpc, spc, once, taken, files, conn, push, cancelled, exit>>

\* go session.ServePushFrames(), the last statement of main.
GoServePushFrames ==
  /\ mpc = "serve"
  /\ mpc' = "cleanup"
  /\ push' = "on"
  /\ UNCHANGED <<sessionType, shpc, spc, session, files, conn, output, cancelled, exit>>

\* The deferred calls: CleanUp, then cancel; then the process ends.
MainCleanUp ==
  /\ mpc = "cleanup"
  /\ \/ /\ EnterCleanUp
        /\ UNCHANGED mpc
     \/ /\ CleanUpReturned
        /\ mpc' = "cancel"
        /\ UNCHANGED session
  /\ UNCHANGED <<sessionType, shpc, spc, files, conn, output, push, cancelled, exit>>

MainCancel ==
  /\ mpc = "cancel"
  /\ mpc' = "return"
  /\ cancelled' = TRUE
  /\ UNCHANGED <<sessionType, shpc, spc, session, files, conn, output, push, exit>>

MainReturns ==
  /\ mpc = "return"
  /\ exit' = "return"
  /\ UNCHANGED <<sessionType, mpc, shpc, spc, session, files, conn, output, push, cancelled>>

-----------------------------------------------------------------------------
(* The other goroutines                                                    *)

X11RunCmd == sessionType \in X11 /\ Start("shell")

\* swaymsg, which asks sway to run the command.
WaylandRunCmd == sessionType = "sway" /\ Start("shell")

\* RunCmd("xterm"); its failure is only logged.
RunCmd ==
  /\ \/ /\ shpc = "spawn"
        /\ shpc' = "push"
        /\ X11RunCmd \/ WaylandRunCmd
        /\ UNCHANGED funcs
     \/ /\ shpc = "spawn"
        /\ shpc' = "end"
        /\ UNCHANGED <<kid, funcs>>
     \/ /\ shpc = "push"
        /\ shpc' = "end"
        /\ PushCleanup("shell")
  /\ UNCHANGED <<sessionType, mpc, spc, once, taken, files, conn, output, push,
                 cancelled, exit>>

\* The push loop ends at the end of the recorder's output or with a write error.
ServePushFrames ==
  /\ push = "on"
  /\ ~Alive("recorder") \/ ~conn
  /\ push' = "ended"
  /\ UNCHANGED <<sessionType, mpc, shpc, spc, session, files, conn, output, cancelled, exit>>

SignalCleanUp ==
  /\ spc = "cleanup"
  /\ \/ /\ EnterCleanUp
        /\ UNCHANGED spc
     \/ /\ CleanUpReturned
        /\ spc' = "exit"
        /\ UNCHANGED session
  /\ UNCHANGED <<sessionType, mpc, shpc, files, conn, output, push, cancelled, exit>>

SignalExits ==
  /\ spc = "exit"
  /\ exit' = "signal"
  /\ UNCHANGED <<sessionType, mpc, shpc, spc, session, files, conn, output, push, cancelled>>

\* exec.CommandContext kills its process when the context is cancelled; Xorg
\* is started without one.  (The goroutine of NewSession that waits for the
\* context calls CleanUp, which main has called before it cancels.)
CtxKill(p) ==
  /\ cancelled
  /\ Alive(p)
  /\ ~(p = "display" /\ sessionType = "xorg")
  /\ kid' = [kid EXCEPT ![p] = "dead"]
  /\ UNCHANGED <<sessionType, mpc, shpc, spc, funcs, once, taken, files, conn, output, push,
                 cancelled, exit>>

-----------------------------------------------------------------------------
(* The user and the children                                               *)

\* SIGINT or SIGTERM: without signal.Notify it ends the process at once; after
\* the first one the goroutine no longer listens.
Signal ==
  /\ \/ /\ spc = "off"
        /\ exit' = "killed"
        /\ UNCHANGED spc
     \/ /\ spc = "wait"
        /\ spc' = "cleanup"
        /\ UNCHANGED exit
  /\ UNCHANGED <<sessionType, mpc, shpc, session, files, conn, output, push, cancelled>>

\* A display server opens its sockets one by one.
DisplayReady ==
  /\ Alive("display")
  /\ \E f \in SocketsOf(sessionType) \ files : files' = files \cup {f}
  /\ UNCHANGED <<sessionType, mpc, shpc, spc, session, conn, output, push, cancelled, exit>>

KidEnds(p) ==
  /\ Alive(p)
  /\ kid' = [kid EXCEPT ![p] = "dead"]
  /\ UNCHANGED <<sessionType, mpc, shpc, spc, funcs, once, taken, files, conn, output, push,
                 cancelled, exit>>

-----------------------------------------------------------------------------

\* main, but for WaitTCP.
MainStep ==
  \/ NewSession
  \/ LaunchSession
  \/ RegisterDisplay
  \/ WaitReady
  \/ RegisterDesktop
  \/ SetupController
  \/ NotifySignals
  \/ GoRunCmd
  \/ StartRecord
  \/ RegisterRecorder
  \/ GoServePushFrames
  \/ MainCleanUp
  \/ MainCancel
  \/ MainReturns

SignalStep == SignalCleanUp \/ SignalExits

CleanupStep == CleanupKill \/ CleanupFiles

\* Everything else that happens by itself.
OtherStep ==
  \/ RunCmd
  \/ ServePushFrames
  \/ \E p \in Kids : CtxKill(p) \/ KidEnds(p)
  \/ Signal
  \/ DisplayReady

-----------------------------------------------------------------------------
(* Properties                                                              *)

\* A child that was handed to PushCleanup is on the list or in the hands of
\* CleanUp until it is dead, however CleanUp and PushCleanup interleave.
RegisteredIsListed ==
  \A p \in Kids : kid[p] = "registered" => p \in Range(funcs) \cup Range(taken)

\* What depends on the display goes first: CleanUp kills the display when every
\* other child it was given is dead.
BaseStopsLast ==
  [][taken # << >> /\ kid["display"] = "registered" /\ kid'["display"] = "dead" /\ taken' # taken =>
       \A p \in Kids \ {"display"} : kid[p] = "registered" => p \in Range(funcs)]_recorder

\* Whoever ends the process after calling CleanUp, main or the signal's
\* goroutine, ends it after the whole of CleanUp: no file is left (of sway none but
\* its configuration and wayland-N with its lock), and no child but those registered
\* after CleanUp took the list.
ExitIsClean ==
  exit \in {"signal", "return"} =>
    /\ files \subseteq LeftoversOf(sessionType)
    /\ \A p \in Kids : kid[p] = "registered" => p \in Range(funcs)
-----------------------------------------------------------------------------
(* Why they hold: what is true of main, of CleanUp and of the lists at any *)
(* moment.                                                                 *)

BeforeDisplay == {"new", "launch", "pushDisplay"}
BeforeDesktop == BeforeDisplay \cup {"listen", "accept", "wait", "pushDesktop"}
BeforeSignals == BeforeDesktop \cup {"control", "notify"}
BeforeShell == BeforeSignals \cup {"spawnShell"}
BeforeRecorder == BeforeShell \cup {"record", "pushRecorder"}

Listed == Range(funcs) \cup Range(taken)

\* Each of the four is handed over once, by the step that follows its start.
PushedInTurn ==
  /\ mpc \in BeforeDisplay  => "display" \notin Listed
  /\ mpc \in BeforeDesktop  => "desktop" \notin Listed
  /\ mpc \in BeforeShell    => shpc = "off"
  /\ shpc # "end"           => "shell" \notin Listed
  /\ mpc \in BeforeRecorder => "recorder" \notin Listed

\* The display server is registered before anybody can take the list, so it is
\* the first of the list or, once CleanUp has begun, of what CleanUp took.
DisplayFirst ==
  /\ kid["display"] = "started" => mpc = "pushDisplay"
  /\ "display" \in Range(funcs) => once = "fresh" /\ funcs[1] = "display"
  /\ "display" \in Range(taken) => taken[1] = "display"

\* CleanUp runs once, and its callers go on when it is over.
CleanUpInOrder ==
  /\ mpc \in BeforeSignals => spc = "off" /\ once = "fresh"
  /\ once # "busy" => taken = << >>
  /\ spc = "exit" \/ mpc \in {"cancel", "return"} \/ exit \in {"signal", "return"} => once = "done"
  /\ once = "done" => files \subseteq LeftoversOf(sessionType)

RecorderInvariant ==
  /\ RecorderTypeOK
  /\ PushedInTurn
  /\ DisplayFirst
  /\ CleanUpInOrder
  /\ RegisteredIsListed
=============================================================================
