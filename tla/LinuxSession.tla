----------------------------- MODULE LinuxSession -----------------------------
(***************************************************************************)
(* The Linux driver (sdriver/linux/driver.go: New and Stop) and the        *)
(* recorder it starts on the same machine (New never sets ip, so the copy  *)
(* over ssh is never taken).  New writes the embedded binary to a file,    *)
(* runs it and dials the recorder's port once a second until it gives up;  *)
(* the recorder listens when its display is started, and gives up too.     *)
(*                                                                         *)
(* The process of the driver may have been replaced since an earlier start *)
(* gave up: the recorder of that start may still be listening (squat).     *)
(* Time is counted in seconds, while somebody counts: `dialed` since New   *)
(* began to dial, `waited` since the recorder began to listen.             *)
(***************************************************************************)
EXTENDS RecorderSession

CONSTANTS
  GiveUp,        \* seconds after which New gives up: 5
  AcceptWait     \* seconds the recorder's listener waits: 10

ASSUME TimesAssumption == GiveUp \in Nat \ {0} /\ AcceptWait \in Nat \ {0}

VARIABLES
  dpc,           \* where the driver stands
  binary,        \* the file "recorder"
  link,          \* the driver's connection: to this recorder or to an old one
  backlog,       \* a connection nobody has accepted yet
  squat,         \* an old recorder listens on the port
  dialed, waited

driver == <<dpc, binary, link, backlog, squat, dialed, waited>>
vars == <<recorder, driver>>

TypeOK ==
  /\ RecorderTypeOK
  /\ dpc \in {"write", "launch", "dial", "sleep", "connected", "failed", "stopped"}
  /\ binary \in BOOLEAN
  /\ link \in {"none", "own", "old", "closed"}
  /\ backlog \in BOOLEAN
  /\ squat \in BOOLEAN
  /\ dialed \in 0 .. GiveUp
  /\ waited \in 0 .. AcceptWait

Init ==
  /\ RecorderInit
  /\ dpc = "write"
  /\ binary = FALSE
  /\ link = "none"
  /\ backlog = FALSE
  /\ squat \in BOOLEAN
  /\ dialed = 0
  /\ waited = 0

Running == exit = "running"
Listening == Running /\ mpc = "accept"

-----------------------------------------------------------------------------
(* New                                                                     *)

\* The binary may fail to be written, e.g. while an old recorder runs from it.
WriteBinary ==
  /\ dpc = "write"
  /\ \/ dpc' = "launch" /\ binary' = TRUE
     \/ dpc' = "failed" /\ binary' = FALSE
  /\ UNCHANGED <<recorder, link, backlog, squat, dialed, waited>>

\* LocalStartRecorder.
LocalStartRecorder ==
  /\ dpc = "launch"
  /\ \/ /\ dpc' = "dial"
        /\ exit' = "running"
        /\ UNCHANGED binary
     \/ /\ dpc' = "failed"
        /\ binary' = FALSE
        /\ UNCHANGED exit
  /\ UNCHANGED <<sessionType, mpc, shpc, spc, session, files, conn, output, push, cancelled,
                 link, backlog, squat, dialed, waited>>

\* A connection is made as soon as somebody listens; it is accepted later.
Dial ==
  /\ dpc = "dial"
  /\ \/ /\ Listening
        /\ dpc' = "connected"
        /\ link' = "own"
        /\ backlog' = TRUE
        /\ UNCHANGED squat
     \/ /\ squat
        /\ dpc' = "connected"
        /\ link' = "old"
        /\ squat' = FALSE          \* it accepts and closes its listener
        /\ UNCHANGED backlog
     \/ /\ ~Listening /\ ~squat
        /\ dpc' = "sleep"
        /\ UNCHANGED <<link, backlog, squat>>
  /\ UNCHANGED <<recorder, binary, dialed, waited>>

\* (Broken on purpose: the clock starts again with every attempt.)
NeverOver == FALSE

\* time.Since(startTime) > 5 s, after a second of sleep.
TimeIsOver == dialed + 1 = GiveUp

\* One more second for those who count.  A connection is accepted within it.
Second ==
  /\ dpc # "dial"
  /\ dpc = "sleep" \/ Listening
  /\ ~(Listening /\ (backlog \/ waited = AcceptWait))
  /\ IF dpc # "sleep" THEN UNCHANGED <<dpc, binary, dialed>>
     ELSE IF TimeIsOver
     THEN dpc' = "failed" /\ binary' = FALSE /\ dialed' = 0
     ELSE dpc' = "dial" /\ dialed' = (dialed + 1) % GiveUp /\ UNCHANGED binary
  /\ waited' = IF Listening THEN waited + 1 ELSE waited
  /\ UNCHANGED <<recorder, link, backlog, squat>>

Stop ==
  /\ dpc = "connected"
  /\ dpc' = "stopped"
  /\ link' = "closed"
  /\ binary' = FALSE
  /\ conn' = (conn /\ link # "own")
  /\ UNCHANGED <<sessionType, mpc, shpc, spc, session, files, output, push, cancelled, exit,
                 backlog, squat, dialed, waited>>

-----------------------------------------------------------------------------
(* The recorder's half of the connection                                   *)

RecorderListens ==
  /\ Listen(squat)
  /\ UNCHANGED driver

RecorderAccepts ==
  /\ backlog
  /\ Accept(link = "own")
  /\ backlog' = FALSE
  /\ waited' = 0
  /\ UNCHANGED <<dpc, binary, link, squat, dialed>>

RecorderTimesOut ==
  /\ waited = AcceptWait
  /\ ~backlog
  /\ AcceptTimeout
  /\ UNCHANGED driver

\* The deadline of the old recorder.
OldRecorderEnds ==
  /\ squat
  /\ squat' = FALSE
  /\ UNCHANGED <<recorder, dpc, binary, link, backlog, dialed, waited>>

-----------------------------------------------------------------------------

DriverStep == WriteBinary \/ LocalStartRecorder \/ Dial

RecorderMain ==
  /\ Running
  /\ \/ MainStep /\ UNCHANGED driver
     \/ RecorderListens
     \/ RecorderAccepts
     \/ RecorderTimesOut

RecorderSignals == Running /\ SignalStep /\ UNCHANGED driver
RecorderCleans == Running /\ CleanupStep /\ UNCHANGED driver

Next ==
  \/ DriverStep
  \/ Second
  \/ Stop
  \/ RecorderMain
  \/ RecorderSignals
  \/ RecorderCleans
  \/ Running /\ OtherStep /\ UNCHANGED driver
  \/ OldRecorderEnds

Spec == Init /\ [][Next]_vars

\* New and the recorder's goroutines run, time passes and an old listener has its
\* deadline too; Stop, signals and children owe nothing.
Fairness ==
  /\ WF_vars(DriverStep)
  /\ WF_vars(Second)
  /\ WF_vars(RecorderMain)
  /\ WF_vars(RecorderSignals)
  /\ WF_vars(RecorderCleans)
  /\ WF_vars(OldRecorderEnds)

FairSpec == Spec /\ Fairness

-----------------------------------------------------------------------------
(* Properties                                                              *)

\* New comes back, connected or with an error, whatever the recorder does: it
\* holds the lock every session of every device needs.
StartReturns == dpc = "write" ~> dpc \in {"connected", "failed", "stopped"}

\* A recorder nobody will ever talk to ends by itself: the one New gave up, and
\* the one whose driver is connected to an older recorder.
RecorderEnds == dpc \in {"failed", "stopped"} \/ link = "old" ~> ~Running

\* README.md: "Linux supports (Xvfb/Xorg/Sway): Video, Control".  main comes to
\* its clean-up with an encoder at work only when the connection is gone.
StreamLasts == mpc = "cleanup" /\ output => ~conn \/ ~Alive("recorder")

\* What the proofs about driver and recorder rest on.
InductiveInv == TypeOK /\ RecorderInvariant
=============================================================================
