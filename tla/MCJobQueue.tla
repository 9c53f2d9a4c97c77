----------------------------- MODULE MCJobQueue -----------------------------
(* Model values of JobQueue for TLC: one or two jobs, two handlers.         *)
EXTENDS JobQueue, TLC

CONSTANTS h1, h2

OneJob       == {1}
TwoJobs      == {1, 2}
NoJobs       == {}
OneAttempt   == [j \in {1} |-> 1]
TwoAttempts  == [j \in {1} |-> 2]
TwoThenOne   == <<2, 1>>
TwoHandlers  == {h1, h2}
Symmetry     == Permutations(TwoHandlers)
=============================================================================
