-------------------------- MODULE SupervisorProofs --------------------------
(***************************************************************************)
(* Theorems about Supervisor, for every restart budget and every number of *)
(* calls of start().                                                       *)
(***************************************************************************)
EXTENDS Supervisor, TLAPS

LEMMA NobodyIsNoProcess == Nobody \notin Processes
  BY DEF Nobody, Processes

\* A step is one method or callback of the class, or nothing.
LEMMA Steps ==
    ASSUME [Next]_vars
    PROVE  Start \/ Stop \/ (\E p \in Processes : Exit(p) \/ Fire(p)) \/ UNCHANGED vars
  BY DEF Next, Crash, Obey

LEMMA TypeStep == TypeOK /\ [Next]_vars => TypeOK'
<1> SUFFICES ASSUME TypeOK, [Next]_vars PROVE TypeOK'
  OBVIOUS
<1> USE DEF TypeOK
<1>0. {"unborn", "alive", "told", "gone"} = Lives /\ MaxRestarts \in Nat
  BY BudgetAssumption DEF Lives
<1>1. ASSUME SpawnNow
      PROVE  /\ status' \in {"stopped", "running", "crashed", "gave_up"}
             /\ child' \in Processes \union {Nobody} /\ proc' \in [Processes -> Lives]
  BY <1>0, <1>1 DEF SpawnNow
<1>2. CASE Start
  <2>1. hasty' \in BOOLEAN /\ stopping' \in BOOLEAN
    BY <1>2, Zenon DEF Start
  <2>2. /\ starts' \in Nat /\ restartCount' \in Nat /\ sinceStart' \in Nat
        /\ UNCHANGED <<restartTimer, armed>> /\ SpawnNow
    BY <1>2 DEF Start
  <2>3. QED
    BY <1>1, <2>1, <2>2
<1>3. CASE Stop
  BY <1>0, <1>3 DEF Stop
<1>4. ASSUME NEW p \in Processes, Exit(p)
      PROVE  TypeOK'
  BY <1>0, <1>4 DEF Exit
<1>5. ASSUME NEW p \in Processes, Fire(p)
      PROVE  TypeOK'
  BY <1>1, <1>5 DEF Fire
<1>6. CASE UNCHANGED vars
  BY <1>6 DEF vars
<1>7. QED
  BY <1>2, <1>3, <1>4, <1>5, <1>6, Steps

\* The fields and the histories keep their shape.
THEOREM TypeCorrect == Spec => []TypeOK
<1>1. Init => TypeOK
  <2>1. Init => stopping \in BOOLEAN /\ hasty \in BOOLEAN
    BY Zenon DEF Init
  <2>2. Init => /\ status \in {"stopped", "running", "crashed", "gave_up"}
                /\ child \in Processes \union {Nobody}
                /\ restartTimer \in Processes \union {Nobody}
                /\ restartCount \in Nat /\ starts \in Nat /\ sinceStart \in Nat
                /\ proc \in [Processes -> Lives] /\ armed \subseteq Processes
    BY DEF Init, Lives
  <2>3. QED
    BY <2>1, <2>2 DEF TypeOK
<1>2. QED
  BY <1>1, TypeStep, PTL DEF Spec

-----------------------------------------------------------------------------
(* What holds whatever the callers do.                                      *)

\* A supervisor that was stopped does not report a gateway.
Truthful == RunningIsAlive /\ (stopping => status # "running")

\* However start(), stop(), exits and timers fall, a gateway that is reported
\* as running is there: handleExit() never leaves "running" behind.
THEOREM RunningGatewayIsAlive == Spec => []RunningIsAlive
<1> USE DEF Truthful, RunningIsAlive
<1>1. Init => Truthful
  BY DEF Init
<1>2. TypeOK /\ Truthful /\ [Next]_vars => Truthful'
  <2> SUFFICES ASSUME TypeOK, Truthful, [Next]_vars PROVE Truthful'
    OBVIOUS
  <2>t. proc \in [Processes -> Lives]
    BY DEF TypeOK
  <2>1. ASSUME SpawnNow
        PROVE  \E p \in Processes : proc'[p] = "alive"
    BY <2>t, <2>1 DEF SpawnNow
  <2>2. CASE Start
    BY <2>1, <2>2 DEF Start
  <2>3. CASE Stop
    BY <2>3 DEF Stop
  <2>4. ASSUME NEW p \in Processes, Exit(p)
        PROVE  Truthful'
    BY <2>t, <2>4 DEF Exit
  <2>5. ASSUME NEW p \in Processes, Fire(p)
        PROVE  Truthful'
    BY <2>1, <2>5 DEF Fire, MayFire
  <2>6. CASE UNCHANGED vars
    BY <2>6 DEF vars
  <2>7. QED
    BY <2>2, <2>3, <2>4, <2>5, <2>6, Steps
<1>3. QED
  BY <1>1, <1>2, TypeCorrect, PTL DEF Spec

\* However timers armed before it fall, nothing but start() spawns a gateway
\* after stop().
THEOREM StoppedIsQuiet == Spec => QuietAfterStop
<1> DEFINE Quiet == \A p \in Processes :
                      (stopping /\ proc[p] = "unborn" /\ proc'[p] = "alive") => ~stopping'
<1>1. TypeOK /\ [Next]_vars => [Quiet]_vars
  <2> SUFFICES ASSUME TypeOK, [Next]_vars PROVE Quiet
    OBVIOUS
  <2>t. proc \in [Processes -> Lives]
    BY DEF TypeOK
  <2>1. CASE Start
    BY <2>1 DEF Start
  <2>2. CASE Stop
    BY <2>t, <2>2 DEF Stop
  <2>3. ASSUME NEW p \in Processes, Exit(p)
        PROVE  Quiet
    BY <2>t, <2>3 DEF Exit
  <2>4. ASSUME NEW p \in Processes, Fire(p)
        PROVE  Quiet
    BY <2>4 DEF Fire, MayFire
  <2>5. CASE UNCHANGED vars
    BY <2>5 DEF vars
  <2>6. QED
    BY <2>1, <2>2, <2>3, <2>4, <2>5, Steps
<1>2. QED
  BY <1>1, TypeCorrect, PTL DEF Spec, QuietAfterStop

-----------------------------------------------------------------------------
(* What holds as long as start() never comes while an exit or a restart is  *)
(* due.                                                                     *)

\* `child` is the one gateway nobody told to stop, and the status shows it.
ChildIsTheGateway ==
    /\ \A p \in Processes : proc[p] = "alive" => child = p /\ status = "running"
    /\ stopping => child = Nobody

\* At most one exit of a stopped gateway is due, and only after stop().
OneFarewell ==
    /\ \A p, q \in Processes : proc[p] = "told" /\ proc[q] = "told" => p = q
    /\ ~stopping => \A p \in Processes : proc[p] # "told"

\* At most one restart is due, the one stop() would clear, and then no gateway
\* is left and stop() was not the last call.
OneTimer ==
    /\ \A t \in armed : restartTimer = t
    /\ armed # {} => /\ ~stopping
                     /\ \A p \in Processes : proc[p] # "alive"

\* Each crash counted is answered by one restart, which is within the budget.
Counted ==
    /\ status = "running" => sinceStart = restartCount + 1
    /\ armed # {} => sinceStart = restartCount /\ restartCount <= MaxRestarts
    /\ sinceStart <= MaxRestarts + 1

Orderly == ChildIsTheGateway /\ OneFarewell /\ OneTimer /\ Counted

CalmInv == ~hasty => Orderly

LEMMA CalmStep == TypeOK /\ CalmInv /\ [Next]_vars => CalmInv'
<1> SUFFICES ASSUME TypeOK, CalmInv, [Next]_vars, ~hasty' PROVE Orderly'
  BY DEF CalmInv
<1>t. /\ proc \in [Processes -> Lives] /\ armed \subseteq Processes
      /\ restartCount \in Nat /\ sinceStart \in Nat /\ MaxRestarts \in Nat
      /\ child \in Processes \union {Nobody} /\ stopping \in BOOLEAN
  BY BudgetAssumption DEF TypeOK
<1>n. Nobody \notin Processes
  BY NobodyIsNoProcess
<1>o. Orderly
  <2>1. ~hasty
    BY Steps DEF Start, Stop, Exit, Fire, vars
  <2>2. QED
    BY <2>1 DEF CalmInv
<1> USE DEF ChildIsTheGateway, OneFarewell, OneTimer
\* A gateway spawned when none is left and no restart is due afterwards.
<1>1. ASSUME SpawnNow, ~stopping', armed' = {},
             \A p \in Processes : proc[p] # "alive" /\ proc[p] # "told"
      PROVE  ChildIsTheGateway' /\ OneFarewell' /\ OneTimer' /\ status' = "running"
  <2>1. PICK p \in Processes : /\ proc' = [proc EXCEPT ![p] = "alive"]
                              /\ child' = p /\ status' = "running"
    BY <1>1 DEF SpawnNow
  <2>2. \A q \in Processes : proc'[q] = IF q = p THEN "alive" ELSE proc[q]
    BY <1>t, <2>1
  <2>3. QED
    BY <1>1, <2>1, <2>2
<1>2. CASE Start
  <2>1. armed = {} /\ \A p \in Processes : proc[p] # "told"
    BY <1>2 DEF Start
  <2>2. \A p \in Processes : proc[p] # "alive"
    BY <1>o, <1>2 DEF Start, Startable, Orderly
  <2>3. ChildIsTheGateway' /\ OneFarewell' /\ OneTimer' /\ status' = "running"
    BY <1>1, <1>2, <2>1, <2>2 DEF Start
  <2>4. Counted'
    BY <1>t, <1>2, <2>1 DEF Start, Counted
  <2>5. QED
    BY <2>3, <2>4 DEF Orderly
<1>3. CASE Stop
  <2>1. armed' = {}
    BY <1>o, <1>3 DEF Stop, Orderly
  <2>2. \A p \in Processes : proc'[p] = IF p = child THEN "told" ELSE proc[p]
    BY <1>t, <1>n, <1>3 DEF Stop
  <2>3. \A p \in Processes : proc'[p] # "alive"
    BY <1>o, <2>2 DEF Orderly
  <2>4. \A p, q \in Processes : proc'[p] = "told" /\ proc'[q] = "told" => p = q
    <3>1. CASE child = Nobody
      BY <1>n, <1>o, <2>2, <3>1 DEF Orderly
    <3>2. CASE child # Nobody
      BY <1>o, <2>2, <3>2 DEF Orderly
    <3>3. QED
      BY <3>1, <3>2
  <2>5. Counted'
    BY <1>t, <1>o, <1>3, <2>1 DEF Stop, Orderly, Counted
  <2>6. QED
    BY <1>3, <2>1, <2>3, <2>4, <2>5 DEF Stop, Orderly
<1>4. ASSUME NEW p \in Processes, Exit(p)
      PROVE  Orderly'
  <2>1. \A q \in Processes : proc'[q] = IF q = p THEN "gone" ELSE proc[q]
    BY <1>t, <1>4 DEF Exit
  <2>2. child' = Nobody /\ stopping' = stopping /\ sinceStart' = sinceStart
    BY <1>4 DEF Exit
  <2>3. CASE stopping
    <3>1. UNCHANGED <<restartCount, status, armed, restartTimer>>
      BY <1>4, <2>3 DEF Exit
    <3>2. \A q \in Processes : proc[q] # "alive"
      BY <1>n, <1>o, <2>3 DEF Orderly
    <3>3. ChildIsTheGateway' /\ OneFarewell' /\ OneTimer'
      BY <1>o, <2>1, <2>2, <2>3, <3>1, <3>2 DEF Orderly
    <3>4. Counted'
      BY <1>o, <2>2, <3>1 DEF Orderly, Counted
    <3>5. QED
      BY <3>3, <3>4 DEF Orderly
  <2>4. CASE ~stopping
    <3>1. proc[p] = "alive"
      BY <1>o, <1>4, <2>4 DEF Exit, Live, Orderly
    <3>2. \A q \in Processes : proc'[q] # "alive" /\ proc'[q] # "told"
      BY <1>o, <2>1, <2>4, <3>1 DEF Orderly
    <3>3. armed = {} /\ sinceStart = restartCount + 1
      BY <1>o, <3>1 DEF Orderly, Counted
    <3>4. restartCount' = sinceStart /\ status' # "running"
      BY <1>4, <2>4, <3>3 DEF Exit
    <3>5. \/ armed' = {}
          \/ armed' = {p} /\ restartTimer' = p /\ restartCount' <= MaxRestarts
      BY <1>4, <2>4, <3>3 DEF Exit, MayRestart
    <3>6. QED
      BY <1>o, <2>2, <2>4, <3>2, <3>4, <3>5 DEF Orderly, Counted
  <2>5. QED
    BY <2>3, <2>4
<1>5. ASSUME NEW t \in Processes, Fire(t)
      PROVE  Orderly'
  <2>1. t \in armed /\ ~stopping /\ armed' = {}
    BY <1>o, <1>5 DEF Fire, Orderly
  <2>2. \A p \in Processes : proc[p] # "alive" /\ proc[p] # "told"
    BY <1>o, <2>1 DEF Orderly
  <2>3. /\ SpawnNow /\ sinceStart' = sinceStart + 1
        /\ UNCHANGED <<restartCount, stopping>>
    BY <1>5, <2>1 DEF Fire, MayFire
  <2>4. ChildIsTheGateway' /\ OneFarewell' /\ OneTimer' /\ status' = "running"
    BY <1>1, <2>1, <2>2, <2>3
  <2>5. Counted'
    BY <1>t, <1>o, <2>1, <2>3, <2>4 DEF Orderly, Counted
  <2>6. QED
    BY <2>4, <2>5 DEF Orderly
<1>6. CASE UNCHANGED vars
  BY <1>o, <1>6 DEF vars, Orderly, Counted
<1>7. QED
  BY <1>2, <1>3, <1>4, <1>5, <1>6, Steps

LEMMA CalmInvariant == Spec => []CalmInv
<1>1. Init => CalmInv
  BY BudgetAssumption DEF Init, CalmInv, Orderly, ChildIsTheGateway, OneFarewell, OneTimer, Counted
<1>2. QED
  BY <1>1, CalmStep, TypeCorrect, PTL DEF Spec

\* Unless start() comes while an exit or a restart is due, there is one gateway
\* at a time.
THEOREM GatewayIsSingle == Spec => []SingleGateway
<1>1. CalmInv => SingleGateway
  BY NobodyIsNoProcess DEF CalmInv, Orderly, ChildIsTheGateway, OneFarewell, SingleGateway, Live
<1>2. QED
  BY <1>1, CalmInvariant, PTL

\* Under the same condition stop() knows every gateway and timer there is.
THEOREM StopKnowsAll == Spec => []StopReachesAll
<1>1. CalmInv => StopReachesAll
  BY DEF CalmInv, Orderly, ChildIsTheGateway, OneTimer, StopReachesAll
<1>2. QED
  BY <1>1, CalmInvariant, PTL

\* Under the same condition the gateway is restarted at most MaxRestarts times
\* between two calls of start().
THEOREM RestartsAreBounded == Spec => []RestartsWithinBudget
<1>1. CalmInv => RestartsWithinBudget
  BY DEF CalmInv, Orderly, Counted, RestartsWithinBudget
<1>2. QED
  BY <1>1, CalmInvariant, PTL
=============================================================================
