--------------------------- MODULE MCWebRTCManager ---------------------------
(* Finite instances of WebRTCManager for TLC. *)
EXTENDS WebRTCManager, TLC

CONSTANTS d1, c1, c2, c3

\* All sessions ask for the same device.
OneDevice == [c \in Clients |-> d1]

\* Sessions are interchangeable: they differ by what happens to them only.
Symmetry == Permutations(Clients)
=============================================================================
