------------------------------ MODULE TaskSync ------------------------------
(***************************************************************************)
(* The task list in its three homes and the bridge that keeps them in      *)
(* step: the server's list, Tasks/Active.md and Tasks/Done.md.  Three      *)
(* parties act: the dashboard, whose requests read the list, read it again *)
(* and set it; the person who edits Active.md; and reconcileOnce(), which  *)
(* awaits between its read of the vault, its GET, its two writes and its   *)
(* PUT.  The _running flag keeps reconciles apart, so one is modelled.     *)
(*                                                                         *)
(* Time passes in whole days; every timestamp is the value of a clock that *)
(* ticks whenever one is taken, so no two are equal.                       *)
(*                                                                         *)
(* A definition named Op_Something is Op with a plausible slip in it; the  *)
(* specification never uses it.                                            *)
(***************************************************************************)
EXTENDS Integers, FiniteSets

CONSTANTS
    Ids,        \* task ids
    None,       \* no task, no date
    LastDay,    \* bound: the day the model's time ends
    MaxChanges, \* bound: requests of the dashboard and edits by hand, together
    MaxHand,    \* bound: tasks edited by hand in Active.md
    MaxTyped,   \* bound: tasks typed into Active.md without an id
    MaxFaults   \* bound: reconciles cut short and reads of the vault that fail

\* A task: body is the time its content was written, whoever wrote it, completed the
\* day or None, stamp is updated_at, and `on` its day.
Tasks == [body : Nat, done : BOOLEAN, completed : Nat \union {None}, stamp : Nat, on : Nat]

ASSUME NoneAssumption == None \notin Ids \union Nat /\ None \notin Tasks
ASSUME BoundAssumption ==
    {LastDay, MaxChanges, MaxHand, MaxTyped, MaxFaults} \subseteq Nat

VARIABLES
    server,   \* the server's list, by id
    active,   \* the tasks of Active.md, by id
    typed,    \* the text of a task typed into Active.md without an id, or None
    done,     \* how often each task stands in Done.md, up to 2
    sync,     \* the reconcile in progress
    dash,     \* the dashboard request in progress
    clock,    \* the newest timestamp taken
    today,
    known,    \* ids created by the dashboard or found in the first Active.md
    edits, hand, lines, faults,  \* what has been spent of the bounds
    raced     \* a reconcile and a request changed the list under each other

vault == <<active, typed, done>>
spent == <<edits, hand, lines, faults>>
vars  == <<server, vault, sync, dash, clock, today, known, spent, raced>>

-----------------------------------------------------------------------------
(* Data *)

Empty == [i \in Ids |-> None]

TaskOf(body, isDone, completed, stamp) ==
    [body |-> body, done |-> isDone, completed |-> completed,
     stamp |-> stamp, on |-> today]

SameContent(t, u) ==
    t.body = u.body /\ t.done = u.done /\ t.completed = u.completed

Reading(v) == [pc |-> "get", vault |-> v, snap |-> Empty, merged |-> Empty, archived |-> Empty]
Idle       == [Reading(Empty) EXCEPT !.pc = "idle"]
DashIdle   == [pc |-> "idle", id |-> None, task |-> None, list |-> Empty]

\* The bridge finds an Active.md written by the seed script, whose tasks the
\* server does not know.
Init ==
    /\ known \in SUBSET Ids
    /\ server = Empty
    /\ active = [i \in Ids |-> IF i \in known
                               THEN [body |-> 0, done |-> FALSE, completed |-> None,
                                     stamp |-> 0, on |-> 0]
                               ELSE None]
    /\ typed = None
    /\ done = [i \in Ids |-> 0]
    /\ sync = Idle
    /\ dash = DashIdle
    /\ clock = 0
    /\ today = 0
    /\ edits = 0 /\ hand = 0 /\ lines = 0 /\ faults = 0
    /\ raced = FALSE

-----------------------------------------------------------------------------
(* The dashboard *)

\* newTaskId() and genId('t') are random: a new id is in use nowhere.
Fresh(i) ==
    i \notin known /\ server[i] = None /\ active[i] = None /\ sync.vault[i] = None

New == {TaskOf(clock + 1, FALSE, None, clock + 1)}

\* What the handlers make of a task they found: PATCH with new content or
\* another done flag (feedback and escalations change content too), done, undo.
Patched(t) == {TaskOf(clock + 1, d, t.completed, clock + 1) : d \in BOOLEAN}

MarkedDone(t) == {TaskOf(clock + 1, TRUE, today, clock + 1)}

\* normalizeTaskInput() takes the old completed_on for a null one.
MarkedUndone(t) == {TaskOf(clock + 1, FALSE, t.completed, clock + 1)}

\* getTaskById() and normalizeTaskInput(); a new task needs no reading.
Request(i) ==
    /\ dash.pc = "idle"
    /\ edits + hand + lines < MaxChanges
    /\ \E t \in (IF Fresh(i) THEN New ELSE {}) \union
               (IF server[i] = None THEN {}
                ELSE Patched(server[i]) \union MarkedDone(server[i])
                                        \union MarkedUndone(server[i])) :
         dash' = [pc |-> "list", id |-> i, task |-> t, list |-> Empty]
    /\ edits' = edits + 1
    /\ clock' = clock + 1
    /\ known' = known \union {i}
    /\ UNCHANGED <<server, vault, sync, today, hand, lines, faults, raced>>

\* upsertTask(): the get.
ReadList ==
    /\ dash.pc = "list"
    /\ dash' = [dash EXCEPT !.pc = "set", !.list = server]
    /\ UNCHANGED <<server, vault, sync, clock, today, known, spent, raced>>

\* upsertTask(): the set.
SetList ==
    /\ dash.pc = "set"
    /\ server' = [dash.list EXCEPT ![dash.id] = dash.task]
    /\ dash' = DashIdle
    /\ raced' = (raced \/ sync.pc \in {"active", "done", "put", "set"})
    /\ UNCHANGED <<vault, sync, clock, today, known, spent>>

-----------------------------------------------------------------------------
(* The person at the editor *)

\* A task's text is changed or its box ticked or cleared, with or without the
\* date the Tasks plugin sets; the metadata comment stays as it is.
EditByHand(i) ==
    /\ hand < MaxHand
    /\ edits + hand + lines < MaxChanges
    /\ active[i] # None
    /\ \E d \in BOOLEAN : \E on \in {active[i].completed, IF d THEN today ELSE None} :
         active' = [active EXCEPT ![i] =
                      [@ EXCEPT !.body = clock + 1, !.done = d, !.completed = on]]
    /\ hand' = hand + 1
    /\ clock' = clock + 1
    /\ UNCHANGED <<server, typed, done, sync, dash, today, known, edits, lines, faults, raced>>

\* A new task is typed, without a metadata comment.
TypeByHand ==
    /\ lines < MaxTyped
    /\ edits + hand + lines < MaxChanges
    /\ typed = None
    /\ typed' = clock + 1
    /\ lines' = lines + 1
    /\ clock' = clock + 1
    /\ UNCHANGED <<server, active, done, sync, dash, today, known, edits, hand, faults, raced>>

NextDay ==
    /\ today < LastDay
    /\ today' = today + 1
    /\ UNCHANGED <<server, vault, sync, dash, clock, known, spent, raced>>

-----------------------------------------------------------------------------
(* mergeTaskLists() and vaultNeedsRewrite() *)

Winner_VaultFirst(s, v) == IF v = None THEN s ELSE v

\* Newer updated_at wins, the vault's copy on a tie.
Winner(s, v) ==
    IF s = None \/ v = None
    THEN IF s = None THEN v ELSE s
    ELSE IF s.stamp > v.stamp THEN s ELSE v

\* 24 hours after the end of the day of completion or, without a completion
\* date, after the last update.
Archivable(t) ==
    t # None /\ t.done /\ IF t.completed # None THEN t.completed + 2 <= today
                                                ELSE t.on + 1 <= today

Merged_ServerIdsOnly(S, V) ==
    [i \in Ids |-> IF S[i] = None \/ Archivable(S[i]) THEN None ELSE Winner(S[i], V[i])]

Merged(S, V) ==
    [i \in Ids |-> IF Archivable(Winner(S[i], V[i])) THEN None ELSE Winner(S[i], V[i])]
Archived(S, V) ==
    [i \in Ids |-> IF Archivable(Winner(S[i], V[i])) THEN Winner(S[i], V[i]) ELSE None]

\* toServer, toVault or archived is not empty.
MustPush(S, V) ==
    \E i \in Ids :
        LET s == S[i]  v == V[i] IN
        \/ Archived(S, V)[i] # None
        \/ s = None /\ v # None
        \/ v = None /\ s # None
        \/ s # None /\ v # None /\ s.stamp # v.stamp

NeedsRewrite_ByLength(V, M) ==
    Cardinality({i \in Ids : V[i] # None}) # Cardinality({i \in Ids : M[i] # None})

NeedsRewrite(V, M) ==
    \E i \in Ids : \/ (V[i] = None) # (M[i] = None)
                   \/ V[i] # None /\ M[i] # None /\ V[i].stamp # M[i].stamp

-----------------------------------------------------------------------------
(* reconcileOnce() *)

\* The step that follows the ones before `pc` which have nothing to do.
After(pc, s) ==
    CASE pc = "merge" /\ NeedsRewrite(s.vault, s.merged) -> "active"
      [] pc \in {"merge", "active"} /\ s.archived # Empty -> "done"
      [] OTHER -> IF MustPush(s.snap, s.vault) THEN "put" ELSE "idle"

GoTo(pc, s) == IF pc = "idle" THEN Idle ELSE [s EXCEPT !.pc = pc]

\* parseTasksFile(): a task without a metadata comment gets a new id and the
\* current time, in memory.
ReadVault ==
    /\ sync.pc = "idle"
    /\ IF typed = None
       THEN sync' = Reading(active) /\ UNCHANGED clock
       ELSE /\ \E i \in Ids :
                 /\ Fresh(i)
                 /\ sync' = Reading([active EXCEPT ![i] = TaskOf(typed, FALSE, None, clock + 1)])
            /\ clock' = clock + 1
    /\ UNCHANGED <<server, vault, dash, today, known, spent, raced>>

\* The snapshot arrives and is merged.
GetSnapshot ==
    /\ sync.pc = "get"
    /\ LET s == [sync EXCEPT !.snap = server,
                             !.merged = Merged(server, sync.vault),
                             !.archived = Archived(server, sync.vault)]
       IN  sync' = GoTo(After("merge", s), s)
    /\ UNCHANGED <<server, vault, dash, clock, today, known, spent, raced>>

\* Active.md is replaced, whatever was typed meanwhile.
WriteActive ==
    /\ sync.pc = "active"
    /\ active' = sync.merged
    /\ typed' = None
    /\ sync' = GoTo(After("active", sync), sync)
    /\ UNCHANGED <<server, done, dash, clock, today, known, spent, raced>>

\* Done.md is read and written with the archived tasks appended.
AppendDone ==
    /\ sync.pc = "done"
    /\ done' = [i \in Ids |-> IF sync.archived[i] = None \/ done[i] = 2
                              THEN done[i] ELSE done[i] + 1]
    /\ sync' = GoTo(After("done", sync), sync)
    /\ UNCHANGED <<server, active, typed, dash, clock, today, known, spent, raced>>

Sent_MergedOnly == sync.merged

\* The list the bridge puts: merged and archived.
Sent == [i \in Ids |-> IF sync.archived[i] # None THEN sync.archived[i] ELSE sync.merged[i]]

\* handleTasksSnapshotPut(): the get of the stored list.
PutArrives ==
    /\ sync.pc = "put"
    /\ sync' = [sync EXCEPT !.pc = "set", !.snap = server]
    /\ UNCHANGED <<server, vault, dash, clock, today, known, spent, raced>>

\* The stored timestamp stays if nothing else differs, else it is the present.
Restamped(prev, t) ==
    IF prev # None /\ SameContent(prev, t)
    THEN [t EXCEPT !.stamp = prev.stamp, !.on = prev.on]
    ELSE TaskOf(t.body, t.done, t.completed, clock + 1)

\* handleTasksSnapshotPut(): the set replaces the whole list.
PutList ==
    /\ sync.pc = "set"
    /\ server' = [i \in Ids |-> IF Sent[i] = None THEN None
                                ELSE Restamped(sync.snap[i], Sent[i])]
    /\ clock' = IF \E i \in Ids : server'[i] # None /\ server'[i].stamp = clock + 1
                THEN clock + 1 ELSE clock
    /\ sync' = Idle
    /\ raced' = (raced \/ dash.pc # "idle")
    /\ UNCHANGED <<vault, dash, today, known, spent>>

\* readOrEmpty(): a read of Active.md that fails passes for an empty file.
ReadVaultFails ==
    /\ sync.pc = "idle"
    /\ faults < MaxFaults
    /\ faults' = faults + 1
    /\ sync' = Reading(Empty)
    /\ UNCHANGED <<server, vault, dash, clock, today, known, edits, hand, lines, raced>>

\* readOrEmpty(): so does a read of Done.md, which is then written anew.
ReadDoneFails ==
    /\ sync.pc = "done"
    /\ faults < MaxFaults
    /\ faults' = faults + 1
    /\ done' = [i \in Ids |-> IF sync.archived[i] = None THEN 0 ELSE 1]
    /\ sync' = GoTo(After("done", sync), sync)
    /\ UNCHANGED <<server, active, typed, dash, clock, today, known, edits, hand, lines, raced>>

\* A request or a write fails, or the bridge dies and is started again.
Abort ==
    /\ sync.pc \notin {"idle", "set"}
    /\ faults < MaxFaults
    /\ faults' = faults + 1
    /\ sync' = Idle
    /\ UNCHANGED <<server, vault, dash, clock, today, known, edits, hand, lines, raced>>

-----------------------------------------------------------------------------
(* Specification *)

Reconcile == ReadVault \/ GetSnapshot \/ WriteActive \/ AppendDone \/ PutArrives \/ PutList
Handle == ReadList \/ SetList
ByHand == TypeByHand \/ \E i \in Ids : EditByHand(i)

Next ==
    \/ \E i \in Ids : Request(i)
    \/ Handle \/ ByHand \/ NextDay
    \/ Reconcile \/ ReadVaultFails \/ ReadDoneFails \/ Abort

Spec == Init /\ [][Next]_vars

\* A request that was taken is answered; the bridge reconciles every minute.
FairSpec == Spec /\ WF_vars(Handle) /\ WF_vars(Reconcile)
-----------------------------------------------------------------------------
(* Properties *)

\* As long as no request overlaps a reconcile, a task the server has once
\* listed stays listed, however reconciles fail half way and whatever is
\* edited by hand.
KeptOnServer ==
    [][~raced' => \A i \in Ids : server[i] # None => server'[i] # None]_vars

\* Under the same condition, if no reconcile stops half way or misreads, no
\* task is lost between its homes: one that exists is on the server, in
\* Active.md, in Done.md, or with the request or reconcile about to write it.
NoTaskLost ==
    (~raced /\ faults = 0) =>
        \A i \in known :
            \/ server[i] # None \/ active[i] # None \/ done[i] > 0
            \/ dash.id = i \/ sync.archived[i] # None

\* Under the same condition the server's copy of a task never goes back to
\* content written earlier: newer wins.
NeverRolledBack ==
    [][~raced' => \A i \in Ids :
        (server[i] # None /\ server'[i] # None) => server'[i].body >= server[i].body]_vars

\* Server and vault agree: what is to be archived is in Done.md and not in
\* Active.md, the rest is in Active.md, to the timestamp.
InStep ==
    \A i \in Ids :
        IF Archivable(server[i]) THEN active[i] = None /\ done[i] > 0
                                 ELSE active[i] = server[i]

\* Even if requests and reconciles race and reconciles fail half way: when
\* nobody edits by hand, server and vault come to agree and stay so, with no
\* timestamps bouncing between them.
Settles == [](hand = 0 /\ lines = 0) => <>[]InStep

\* The comment on reconcileOnce(): no-op if nothing changed on either side, so
\* a task done once is appended to Done.md once.
ArchivedOnce == \A i \in Ids : done[i] <= 1
=============================================================================
