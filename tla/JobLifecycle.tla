---------------------------- MODULE JobLifecycle ----------------------------
(***************************************************************************)
(* What the job queue promises its clients, without documents, versions or *)
(* handlers: a job waits, is attempted at most so many times, may be       *)
(* parked while somebody else works on it, and finishes once.  The promise *)
(* to a job ends when one of its updates is lost; that to the others does  *)
(* not.                                                                    *)
(***************************************************************************)
EXTENDS Naturals

CONSTANTS Jobs, MaxAttempts

VARIABLES
    phase,   \* "absent", "waiting", "active", "parked", "done", "failed" or "spoilt"
    tries    \* how many attempts were begun on each job

vars == <<phase, tries>>

Init ==
    /\ phase = [j \in Jobs |-> "absent"]
    /\ tries = [j \in Jobs |-> 0]

Move(j, from, to) ==
    /\ phase[j] \in from
    /\ phase' = [phase EXCEPT ![j] = to]

Submit(j) == Move(j, {"absent"}, "waiting") /\ UNCHANGED tries

Begin(j) ==
    /\ Move(j, {"waiting"}, "active")
    /\ tries[j] < MaxAttempts[j]
    /\ tries' = [tries EXCEPT ![j] = @ + 1]

Park(j) == Move(j, {"active"}, "parked") /\ UNCHANGED tries

Retry(j) ==
    /\ Move(j, {"active", "parked"}, "waiting")
    /\ tries[j] < MaxAttempts[j]
    /\ UNCHANGED tries

Finish(j) ==
    /\ \E outcome \in {"done", "failed"} : Move(j, {"active", "parked"}, outcome)
    /\ UNCHANGED tries

\* One writer's update replaces another's: from here on nothing is promised.
Spoil(j) ==
    /\ Move(j, {"waiting", "active", "parked", "done", "failed"}, "spoilt")
    /\ tries' = [tries EXCEPT ![j] = 0]

Next ==
    \E j \in Jobs : Submit(j) \/ Begin(j) \/ Park(j) \/ Retry(j) \/ Finish(j) \/ Spoil(j)

Spec == Init /\ [][Next]_vars
=============================================================================
