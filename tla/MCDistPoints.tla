----------------------------- MODULE MCDistPoints -----------------------------
(***************************************************************************)
(* Instances of DistPoints: the arguments qsim gives, a bucket of 0.31%    *)
(* without and 1.1% with a limit (no two points of a table differ by just  *)
(* these fractions), and as draws every percent and both ends.             *)
(***************************************************************************)
EXTENDS DistPoints

MCArguments == {<<1000000, 0>>, <<0, 3100000>>, <<10000, 11000000>>}
MCDraws == {k * 10000000 : k \in 0..99} \cup {1, One - 1}
=============================================================================
