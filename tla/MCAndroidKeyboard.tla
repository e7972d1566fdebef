-------------------------- MODULE MCAndroidKeyboard ---------------------------
(* A finite instance of AndroidKeyboard for TLC. *)
EXTENDS AndroidKeyboard, TLC

CONSTANTS a, b, f1, ctrl

\* Letters with a key code may change places.
Symmetry == Permutations({a, b})
=============================================================================
