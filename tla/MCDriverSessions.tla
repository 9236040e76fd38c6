--------------------------- MODULE MCDriverSessions ---------------------------
(***************************************************************************)
(* DriverSessions for TLC: files and addresses are interchangeable.        *)
(***************************************************************************)
EXTENDS DriverSessions, TLC

Symmetry == Permutations(Files) \cup Permutations(Bufs)
=============================================================================
