------------------------------- MODULE MCChat -------------------------------
(* Model values of Chat for TLC.                                            *)
EXTENDS Chat

CONSTANTS s1, s2, p1

TwoMessages == {1, 2}
TwoSlots    == {s1, s2}
OnePoll     == {p1}
=============================================================================
