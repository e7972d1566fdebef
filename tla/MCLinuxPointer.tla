---------------------------- MODULE MCLinuxPointer ----------------------------
(* A finite instance of LinuxPointer for TLC. *)
EXTENDS LinuxPointer

BothBackends == {"x11", "wayland"}
RightButton  == {"right"}
=============================================================================
