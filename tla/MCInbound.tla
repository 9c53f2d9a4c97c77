------------------------------ MODULE MCInbound ------------------------------
(* Model values of Inbound for TLC.                                          *)
EXTENDS Inbound, TLC

\* Users are alike: nothing tells them apart.
Symmetry == Permutations(Users)
=============================================================================
