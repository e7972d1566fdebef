------------------------------ MODULE Connection ------------------------------
(***************************************************************************)
(* What passes between a session and its device: the boxes of the video    *)
(* (LinuxFrames), the packets of the control path (ControlPath), which a   *)
(* Linux driver has on one connection, and the sound of a phone            *)
(* (AudioStream).  Stop closes all of it.                                  *)
(***************************************************************************)
EXTENDS LinuxFrames, ControlPath, AudioStream

CONSTANT Scenarios  \* what may happen in a session: [stream, target, user, sounds]

ASSUME ScenariosAssumption ==
  \A s \in Scenarios :
    /\ s.stream.units \in Seq(Unit)
    /\ s.target \in {"x11", "wayland", "android"}
    /\ \A e \in s.user : Possible(e, s.target)

Init ==
  \E s \in Scenarios : FramesInit(s.stream) /\ ControlInit(s) /\ AudioInit(s.sounds)

Video == FramesNext /\ UNCHANGED <<controls, audio>>
Control == ControlNext(open) /\ UNCHANGED <<frames, audio>>
Sound == AudioNext(open) /\ UNCHANGED <<frames, controls>>

Next == Video \/ Control \/ Sound

Spec == Init /\ [][Next]_<<frames, controls, audio>>

\* InStep, of this connection.
ReaderInStep == InStep(open)

\* KeysFollow, of this connection.
KeyboardFollows == KeysFollow(open)
================================================================================
