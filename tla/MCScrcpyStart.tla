----------------------------- MODULE MCScrcpyStart -----------------------------
(* A finite instance of ScrcpyStart for TLC. *)
EXTENDS ScrcpyStart

CONSTANTS phone, tablet
MCDevices == {phone, tablet}
=============================================================================
