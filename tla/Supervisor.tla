----------------------------- MODULE Supervisor -----------------------------
(***************************************************************************)
(* The supervisor of the OpenClaw gateway: its fields, the gateway         *)
(* processes it has spawned, and the restart timers it has armed.  A       *)
(* method or a callback runs to its end without an await, so each is one   *)
(* step; what interleaves is the callers of start() and stop(), the exits  *)
(* of the processes and the timers.                                        *)
(*                                                                         *)
(* A definition named Op_Something is Op with a plausible slip in it; the  *)
(* specification never uses it.                                            *)
(***************************************************************************)
EXTENDS Integers, FiniteSets

CONSTANTS
    MaxRestarts,  \* config.maxRestarts, when it is finite
    MaxStarts     \* bound: calls of start() that spawn

ASSUME BudgetAssumption == MaxRestarts \in Nat /\ MaxStarts \in Nat

VARIABLES
    status,        \* the status reported to the dashboard
    child,         \* the process stop() would kill, or Nobody
    restartCount,  \* crashes since the last start()
    restartTimer,  \* the timer stop() would clear, or Nobody
    stopping,      \* stop() was the last call
    proc,          \* the life of each process, numbered in spawn order
    armed,         \* timers due to fire, each named by the process whose exit armed it
    starts,        \* calls of start() that spawned
    sinceStart,    \* processes spawned since the last start()
    hasty          \* some start() came while the exit of a process it had been told
                   \* to stop, or a restart, was still due

vars == <<status, child, restartCount, restartTimer, stopping, proc, armed,
          starts, sinceStart, hasty>>

-----------------------------------------------------------------------------

Nobody == 0

\* Every start() allows one process and MaxRestarts restarts.
Processes == 1..(MaxStarts * (MaxRestarts + 1))

\* "told": sent SIGTERM, its exit not yet seen.
Lives == {"unborn", "alive", "told", "gone"}

Spawned == {p \in Processes : proc[p] # "unborn"}
Live    == {p \in Processes : proc[p] \in {"alive", "told"}}

Init ==
    /\ status = "stopped"
    /\ child = Nobody
    /\ restartCount = 0
    /\ restartTimer = Nobody
    /\ stopping = FALSE
    /\ proc = [p \in Processes |-> "unborn"]
    /\ armed = {}
    /\ starts = 0
    /\ sinceStart = 0
    /\ hasty = FALSE

\* spawnNow(): the new process becomes `child`, whatever `child` was.
SpawnNow ==
    \E p \in Processes :
        /\ \A q \in Processes : q < p <=> q \in Spawned
        /\ proc' = [proc EXCEPT ![p] = "alive"]
        /\ child' = p
        /\ status' = "running"

Startable_Always == TRUE

\* "starting" is set and replaced within one call of start().
Startable == status # "running"

\* start(): returns at once when running; a restart that is due stays due.
Start ==
    /\ Startable
    /\ starts < MaxStarts
    /\ starts' = starts + 1
    /\ stopping' = FALSE
    /\ restartCount' = 0
    /\ SpawnNow
    /\ sinceStart' = 1
    /\ hasty' = (hasty \/ armed # {} \/ \E p \in Processes : proc[p] = "told")
    /\ UNCHANGED <<restartTimer, armed>>

Stop_ForgetsToKill ==
    /\ stopping' = TRUE
    /\ restartTimer' = Nobody
    /\ armed' = armed \ {restartTimer}
    /\ child' = Nobody
    /\ status' = "stopped"
    /\ UNCHANGED <<proc, restartCount, starts, sinceStart, hasty>>

\* stop(): the timer and the process it still knows of, and no other.
Stop ==
    /\ stopping' = TRUE
    /\ restartTimer' = Nobody
    /\ armed' = armed \ {restartTimer}
    /\ child' = Nobody
    /\ proc' = IF child = Nobody THEN proc ELSE [proc EXCEPT ![child] = "told"]
    /\ status' = "stopped"
    /\ UNCHANGED <<restartCount, starts, sinceStart, hasty>>

MayRestart_OffByOne(n) == n <= MaxRestarts + 1

MayRestart(n) == n <= MaxRestarts

Exit_CurrentOnly(p) ==
    /\ p \in Live
    /\ proc' = [proc EXCEPT ![p] = "gone"]
    /\ child' = Nobody
    /\ IF stopping \/ child # p
       THEN UNCHANGED <<restartCount, status, armed, restartTimer>>
       ELSE /\ restartCount' = restartCount + 1
            /\ IF MayRestart(restartCount + 1)
               THEN /\ status' = "crashed"
                    /\ armed' = armed \union {p}
                    /\ restartTimer' = p
               ELSE /\ status' = "gave_up"
                    /\ UNCHANGED <<armed, restartTimer>>
    /\ UNCHANGED <<stopping, starts, sinceStart, hasty>>

\* handleExit(): it is not told which process exited, and forgets `child`.
Exit(p) ==
    /\ p \in Live
    /\ proc' = [proc EXCEPT ![p] = "gone"]
    /\ child' = Nobody
    /\ IF stopping
       THEN UNCHANGED <<restartCount, status, armed, restartTimer>>
       ELSE /\ restartCount' = restartCount + 1
            /\ IF MayRestart(restartCount + 1)
               THEN /\ status' = "crashed"
                    /\ armed' = armed \union {p}
                    /\ restartTimer' = p
               ELSE /\ status' = "gave_up"
                    /\ UNCHANGED <<armed, restartTimer>>
    /\ UNCHANGED <<stopping, starts, sinceStart, hasty>>

\* A gateway may end by itself; one that was sent SIGTERM does end.
Crash(p) == proc[p] = "alive" /\ Exit(p)
Obey(p)  == proc[p] = "told" /\ Exit(p)

MayFire_Unguarded(t) == TRUE

MayFire_KnownOnly(t) == ~stopping /\ restartTimer = t

\* The test in the timer's callback; `restartTimer` has just been cleared.
MayFire(t) == ~stopping

\* The restart timer armed by the exit of t fires.
Fire(t) ==
    /\ t \in armed
    /\ armed' = armed \ {t}
    /\ restartTimer' = Nobody
    /\ IF MayFire(t)
       THEN SpawnNow /\ sinceStart' = sinceStart + 1
       ELSE UNCHANGED <<proc, child, status, sinceStart>>
    /\ UNCHANGED <<restartCount, stopping, starts, hasty>>

Next ==
    \/ Start \/ Stop
    \/ \E p \in Processes : Crash(p) \/ Obey(p) \/ Fire(p)

Spec == Init /\ [][Next]_vars

\* Timers fire; a process that was sent SIGTERM ends.
FairSpec == Spec /\ \A p \in Processes : WF_vars(Fire(p)) /\ WF_vars(Obey(p))
-----------------------------------------------------------------------------
(* Properties *)

\* Every variable keeps its shape.
TypeOK ==
    /\ status \in {"stopped", "running", "crashed", "gave_up"}
    /\ child \in Processes \union {Nobody}
    /\ restartCount \in Nat
    /\ restartTimer \in Processes \union {Nobody}
    /\ stopping \in BOOLEAN
    /\ proc \in [Processes -> Lives]
    /\ armed \subseteq Processes
    /\ starts \in Nat
    /\ sinceStart \in Nat
    /\ hasty \in BOOLEAN

\* As long as start() is never called while the exit of a stopped gateway or a
\* restart is due, there is at most one gateway at a time, however crashes,
\* timers, start() and stop() fall.
SingleGateway == ~hasty => \A p, q \in Live : p = q

\* Under the same condition a gateway nobody told to stop is the one stop()
\* would kill, and a timer that is due is the one stop() would clear.
StopReachesAll ==
    ~hasty =>
        /\ \A p \in Processes : proc[p] = "alive" => child = p
        /\ \A t \in armed : restartTimer = t

\* Under the same condition every crash counted is answered by one restart, at
\* most MaxRestarts of them between two calls of start().
RestartsWithinBudget ==
    ~hasty =>
        /\ status = "running" => sinceStart = restartCount + 1
        /\ sinceStart <= MaxRestarts + 1

\* Whatever the callers do, a gateway reported as running is there.
RunningIsAlive == status = "running" => \E p \in Processes : proc[p] = "alive"

\* Whatever the callers do, nothing but start() spawns a gateway after stop().
QuietAfterStop ==
    [][\A p \in Processes :
        (stopping /\ proc[p] = "unborn" /\ proc'[p] = "alive") => ~stopping']_vars

\* Whatever the callers do, a crash is not the end: a restart, a stop() or a
\* start() follows, or the supervisor gives up.
CrashIsAnswered == (status = "crashed") ~> (status # "crashed")

=============================================================================
