---------------------------- MODULE MCScrcpyVideo -----------------------------
(* Finite instances of ScrcpyVideo for TLC. *)
EXTENDS ScrcpyVideo

\* The smallest buffer with room for the boxes a full channel leaves in use.
EnoughSize == (Window + 2) * MaxLen
=============================================================================
