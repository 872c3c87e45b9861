----------------------------- MODULE ScalarMult -----------------------------
(***************************************************************************)
(* What the scalar multiplications have in common, in ref10 and in         *)
(* amd64-64-24k-pic: the base point, the scalar and the loop.              *)
(***************************************************************************)
EXTENDS Edwards, Sums

CONSTANT B          \* the base point

ASSUME BaseAssumption == B \in Curve

VARIABLES
  lib,              \* "ref10" or "amd64"
  a,                \* the scalar
  pc, i             \* the loop and its index

Abs(d) == IF d < 0 THEN -d ELSE d
=============================================================================
