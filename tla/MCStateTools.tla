---------------------------- MODULE MCStateTools ----------------------------
(* Model values of StateTools for TLC.                                       *)
EXTENDS StateTools

CONSTANTS c1, c2, bridge, other

\* The clock's times.
Clock == 0..2
=============================================================================
