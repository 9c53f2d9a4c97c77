--------------------------- MODULE TaskSyncProofs ----------------------------
(***************************************************************************)
(* Theorems about TaskSync, for every set of tasks, every number of days,  *)
(* changes and failures.                                                   *)
(***************************************************************************)
EXTENDS TaskSync, TLAPS

Lists   == [Ids -> Tasks \union {None}]
Merging == {"active", "done", "put", "set"}
Syncs   == [pc : {"idle", "get"} \union Merging, vault : Lists, snap : Lists,
            merged : Lists, archived : Lists]
Dashes  == [pc : {"idle", "list", "set"}, id : Ids \union {None},
            task : Tasks \union {None}, list : Lists]

TypeOK ==
    /\ server \in Lists /\ active \in Lists
    /\ typed \in Nat \union {None}
    /\ done \in [Ids -> Nat]
    /\ sync \in Syncs /\ dash \in Dashes
    /\ clock \in Nat /\ today \in Nat /\ faults \in Nat
    /\ known \subseteq Ids
    /\ raced \in BOOLEAN

\* Between reconciles and between requests nothing is kept.
TypeInv ==
    /\ TypeOK
    /\ sync.pc = "idle" => sync = Idle
    /\ sync.pc = "get" => sync = Reading(sync.vault)
    /\ dash.pc = "idle" => dash = DashIdle
    /\ dash.pc # "idle" => dash.task \in Tasks /\ dash.id \in known

-----------------------------------------------------------------------------
(* What the operators return *)

LEMMA RecordFacts ==
    /\ Empty \in Lists /\ \A i \in Ids : Empty[i] = None
    /\ Idle \in Syncs /\ Idle.pc = "idle" /\ Idle.vault = Empty /\ Idle.archived = Empty
    /\ \A v \in Lists :
         /\ Reading(v) \in Syncs /\ Reading(v).pc = "get" /\ Reading(v).vault = v
         /\ Reading(v).archived = Empty /\ Reading(Reading(v).vault) = Reading(v)
    /\ DashIdle \in Dashes /\ DashIdle.pc = "idle" /\ DashIdle.id = None
<1>1. Empty \in Lists /\ \A i \in Ids : Empty[i] = None
  BY DEF Empty, Lists
<1>2. \A v \in Lists :
        /\ Reading(v) \in Syncs /\ Reading(v).pc = "get" /\ Reading(v).vault = v
        /\ Reading(v).archived = Empty /\ Reading(Reading(v).vault) = Reading(v)
  BY <1>1 DEF Reading, Syncs
<1>3. Idle \in Syncs /\ Idle.pc = "idle" /\ Idle.vault = Empty /\ Idle.archived = Empty
  <2>1. Reading(Empty).vault = Empty
    BY <1>1, <1>2
  <2>2. QED
    BY <1>1, <1>2, <2>1 DEF Idle, Syncs
<1>4. DashIdle \in Dashes /\ DashIdle.pc = "idle" /\ DashIdle.id = None
  BY <1>1 DEF DashIdle, Dashes
<1>5. QED
  BY <1>1, <1>2, <1>3, <1>4

\* mergeTaskLists() keeps one of the two copies, the vault's only if it is not older.
LEMMA WinnerFacts ==
    ASSUME NEW s \in Tasks \union {None}, NEW v \in Tasks \union {None}
    PROVE  /\ Winner(s, v) \in {s, v}
           /\ Winner(s, v) = None => s = None /\ v = None
           /\ Winner(s, v) = s \/ s = None \/ (v # None /\ v.stamp >= s.stamp)
  BY NoneAssumption DEF Winner, Tasks

\* Each task is merged or archived.
LEMMA MergeFacts ==
    ASSUME NEW S \in Lists, NEW V \in Lists
    PROVE  /\ Merged(S, V) \in Lists /\ Archived(S, V) \in Lists
           /\ \A i \in Ids : LET w == Winner(S[i], V[i]) IN
                \/ Merged(S, V)[i] = w /\ Archived(S, V)[i] = None
                \/ Merged(S, V)[i] = None /\ Archived(S, V)[i] = w
<1>1. \A i \in Ids : Winner(S[i], V[i]) \in Tasks \union {None}
  BY WinnerFacts DEF Lists
<1>2. QED
  BY <1>1 DEF Merged, Archived, Lists

LEMMA GoToFacts ==
    ASSUME NEW s \in Syncs, NEW pc \in {"idle", "active", "done", "put"}
    PROVE  /\ GoTo(pc, s) \in Syncs /\ GoTo(pc, s).pc = pc
           /\ pc = "idle" => GoTo(pc, s) = Idle
           /\ pc # "idle" => /\ GoTo(pc, s).vault = s.vault /\ GoTo(pc, s).snap = s.snap
                             /\ GoTo(pc, s).merged = s.merged /\ GoTo(pc, s).archived = s.archived
  BY RecordFacts DEF GoTo, Syncs, Merging

\* The steps that are skipped have nothing to do.
LEMMA AfterFacts ==
    ASSUME NEW s
    PROVE  /\ After("merge", s) \in {"idle", "active", "done", "put"}
           /\ After("active", s) \in {"idle", "done", "put"}
           /\ After("done", s) \in {"idle", "put"}
           /\ After("merge", s) \in {"idle", "put"} => s.archived = Empty
           /\ After("active", s) \in {"idle", "put"} => s.archived = Empty
  BY DEF After

-----------------------------------------------------------------------------
(* What each step does *)

LEMMA RequestState ==
    ASSUME TypeInv, NEW i \in Ids, Request(i)
    PROVE  /\ UNCHANGED <<server, active, typed, done, sync, today, faults, raced>>
           /\ dash.pc = "idle" /\ clock' = clock + 1 /\ known' = known \union {i}
           /\ dash' \in Dashes /\ dash'.pc = "list" /\ dash'.id = i
           /\ dash'.task \in Tasks
           /\ dash'.task.body = clock + 1 /\ dash'.task.stamp = clock + 1
<1>y. clock \in Nat /\ today \in Nat /\ server \in Lists
  BY DEF TypeInv, TypeOK
<1>1. PICK t \in (IF Fresh(i) THEN New ELSE {}) \union
                 (IF server[i] = None THEN {}
                  ELSE Patched(server[i]) \union MarkedDone(server[i])
                                          \union MarkedUndone(server[i])) :
         dash' = [pc |-> "list", id |-> i, task |-> t, list |-> Empty]
  BY DEF Request
<1>2. PICK d \in BOOLEAN, c \in Nat \union {None} : t = TaskOf(clock + 1, d, c, clock + 1)
  <2>1. TRUE \in BOOLEAN /\ FALSE \in BOOLEAN
    OBVIOUS
  <2>2. today \in Nat \union {None} /\ None \in Nat \union {None}
    BY <1>y
  <2>3. CASE t \in New
    BY <2>1, <2>2, <2>3, Zenon DEF New
  <2>4. ASSUME server[i] # None, t \in Patched(server[i]) \union MarkedDone(server[i])
                                         \union MarkedUndone(server[i])
        PROVE  \E d \in BOOLEAN, c \in Nat \union {None} : t = TaskOf(clock + 1, d, c, clock + 1)
    <3>1. server[i].completed \in Nat \union {None}
      BY <1>y, <2>4 DEF Lists, Tasks
    <3>2. CASE t \in Patched(server[i])
      BY <3>1, <3>2, Zenon DEF Patched
    <3>3. CASE t \in MarkedDone(server[i])
      BY <2>1, <2>2, <3>3, Zenon DEF MarkedDone
    <3>4. CASE t \in MarkedUndone(server[i])
      BY <2>1, <3>1, <3>4, Zenon DEF MarkedUndone
    <3>5. QED
      BY <2>4, <3>2, <3>3, <3>4
  <2>5. QED
    BY <1>1, <2>3, <2>4
<1>t. t \in Tasks /\ t.body = clock + 1 /\ t.stamp = clock + 1
  BY <1>y, <1>2 DEF TaskOf, Tasks
<1>3. dash' \in Dashes
  BY <1>1, <1>t, RecordFacts DEF Dashes
<1>4. QED
  BY <1>1, <1>t, <1>3 DEF Request, vault

LEMMA ReadListState ==
    ASSUME TypeInv, ReadList
    PROVE  /\ UNCHANGED <<server, active, typed, done, sync, clock, today, known, faults, raced>>
           /\ dash.pc = "list" /\ dash' \in Dashes
           /\ dash'.pc = "set" /\ dash'.list = server
           /\ dash'.id = dash.id /\ dash'.task = dash.task
<1>1. /\ dash.pc = "list" /\ dash' = [dash EXCEPT !.pc = "set", !.list = server]
      /\ UNCHANGED <<server, active, typed, done, sync, clock, today, known, faults, raced>>
  BY DEF ReadList, vault, spent
<1>2. dash \in Dashes /\ server \in Lists
  BY DEF TypeInv, TypeOK
<1>3. /\ dash'.pc = "set" /\ dash'.list = server
      /\ dash'.id = dash.id /\ dash'.task = dash.task /\ dash' \in Dashes
  BY <1>1, <1>2 DEF Dashes
<1>4. QED
  BY <1>1, <1>3

LEMMA SetListState ==
    ASSUME TypeInv, SetList
    PROVE  /\ UNCHANGED <<active, typed, done, sync, clock, today, known, faults>>
           /\ dash.pc = "set" /\ dash.task \in Tasks /\ dash.id \in Ids
           /\ server' = [dash.list EXCEPT ![dash.id] = dash.task]
           /\ server' \in Lists
           /\ dash' = DashIdle
           /\ raced' = (raced \/ sync.pc \in Merging)
<1>1. /\ dash.pc = "set" /\ server' = [dash.list EXCEPT ![dash.id] = dash.task]
      /\ dash' = DashIdle /\ raced' = (raced \/ sync.pc \in Merging)
      /\ UNCHANGED <<active, typed, done, sync, clock, today, known, faults>>
  BY DEF SetList, vault, spent, Merging
<1>2. dash.list \in Lists /\ dash.task \in Tasks /\ dash.id \in Ids
  BY <1>1 DEF TypeInv, TypeOK, Dashes
<1>3. QED
  BY <1>1, <1>2 DEF Lists

LEMMA EditState ==
    ASSUME TypeInv, NEW i \in Ids, EditByHand(i)
    PROVE  /\ UNCHANGED <<server, typed, done, sync, dash, today, known, faults, raced>>
           /\ clock' = clock + 1
           /\ active[i] \in Tasks /\ active'[i] \in Tasks
           /\ active'[i].body = clock + 1 /\ active'[i].stamp = active[i].stamp
           /\ \A k \in Ids \ {i} : active'[k] = active[k]
           /\ active' \in Lists
<1>y. clock \in Nat /\ today \in Nat /\ active \in Lists /\ active[i] \in Tasks
  BY DEF TypeInv, TypeOK, EditByHand, Lists
<1>1. PICK d \in BOOLEAN : \E on \in {active[i].completed, IF d THEN today ELSE None} :
        active' = [active EXCEPT ![i] = [@ EXCEPT !.body = clock + 1, !.done = d, !.completed = on]]
  BY DEF EditByHand
<1>2. PICK on \in {active[i].completed, IF d THEN today ELSE None} :
        active' = [active EXCEPT ![i] = [@ EXCEPT !.body = clock + 1, !.done = d, !.completed = on]]
  BY <1>1
<1> DEFINE new == [active[i] EXCEPT !.body = clock + 1, !.done = d, !.completed = on]
<1>3. on \in Nat \union {None} /\ clock + 1 \in Nat
  BY <1>y DEF Tasks
<1>4. new \in Tasks /\ new.body = clock + 1 /\ new.stamp = active[i].stamp
  BY <1>y, <1>3 DEF Tasks
<1>5. active' = [active EXCEPT ![i] = new]
  BY <1>2, Zenon
<1> HIDE DEF new
<1>6. active' \in Lists /\ active'[i] = new /\ \A k \in Ids \ {i} : active'[k] = active[k]
  BY <1>y, <1>4, <1>5 DEF Lists
<1>7. QED
  BY <1>y, <1>4, <1>6 DEF EditByHand

LEMMA TypeState ==
    ASSUME TypeInv, TypeByHand
    PROVE  /\ UNCHANGED <<server, active, done, sync, dash, today, known, faults, raced>>
           /\ clock' = clock + 1 /\ typed' = clock + 1
  BY DEF TypeByHand

LEMMA ReadVaultState ==
    ASSUME TypeInv, ReadVault
    PROVE  /\ UNCHANGED <<server, active, typed, done, dash, today, known, faults, raced>>
           /\ sync.pc = "idle" /\ sync' \in Syncs /\ sync'.pc = "get"
           /\ sync' = Reading(sync'.vault) /\ sync'.archived = Empty
           /\ \/ sync'.vault = active /\ clock' = clock
              \/ \E i \in Ids :
                   /\ typed \in Nat /\ clock' = clock + 1
                   /\ i \notin known /\ server[i] = None
                   /\ \A k \in Ids \ {i} : sync'.vault[k] = active[k]
                   /\ sync'.vault[i] \in Tasks
                   /\ sync'.vault[i].body = typed /\ sync'.vault[i].stamp = clock + 1
<1>y. clock \in Nat /\ today \in Nat /\ active \in Lists /\ typed \in Nat \union {None}
  BY DEF TypeInv, TypeOK
<1>1. sync.pc = "idle" /\ UNCHANGED <<server, active, typed, done, dash, today, known, faults, raced>>
  BY DEF ReadVault, vault, spent
<1>2. CASE typed = None
  <2>1. sync' = Reading(active) /\ clock' = clock
    BY <1>2 DEF ReadVault
  <2>2. QED
    BY <1>y, <1>1, <2>1, RecordFacts
<1>3. CASE typed # None
  <2>1. PICK i \in Ids : /\ Fresh(i)
                         /\ sync' = Reading([active EXCEPT ![i] = TaskOf(typed, FALSE, None, clock + 1)])
    BY <1>3 DEF ReadVault
  <2> DEFINE t == TaskOf(typed, FALSE, None, clock + 1)
             v == [active EXCEPT ![i] = t]
  <2>2. t \in Tasks /\ t.body = typed /\ t.stamp = clock + 1
    BY <1>y, <1>3 DEF TaskOf, Tasks
  <2> HIDE DEF t
  <2>3. v \in Lists /\ v[i] = t /\ \A k \in Ids \ {i} : v[k] = active[k]
    BY <1>y, <2>2 DEF Lists
  <2>4. sync' = Reading(v)
    BY <2>1 DEF t
  <2> HIDE DEF v
  <2>5. clock' = clock + 1
    BY <1>3 DEF ReadVault
  <2>6. i \notin known /\ server[i] = None
    BY <2>1 DEF Fresh
  <2>7. QED
    BY <1>y, <1>1, <1>3, <2>2, <2>3, <2>4, <2>5, <2>6, RecordFacts
<1>4. QED
  BY <1>2, <1>3

LEMMA GetState ==
    ASSUME TypeInv, GetSnapshot
    PROVE  /\ UNCHANGED <<server, active, typed, done, dash, clock, today, known, faults, raced>>
           /\ sync.pc = "get" /\ sync' \in Syncs
           /\ sync'.pc \in {"idle", "active", "done", "put"}
           /\ sync'.pc = "idle" => sync' = Idle
           /\ sync'.pc # "idle" =>
                /\ sync'.vault = sync.vault /\ sync'.snap = server
                /\ \A i \in Ids : LET w == Winner(server[i], sync.vault[i]) IN
                     \/ sync'.merged[i] = w /\ sync'.archived[i] = None
                     \/ sync'.merged[i] = None /\ sync'.archived[i] = w
<1> DEFINE s == [sync EXCEPT !.snap = server, !.merged = Merged(server, sync.vault),
                             !.archived = Archived(server, sync.vault)]
<1>1. /\ sync.pc = "get" /\ sync' = GoTo(After("merge", s), s)
      /\ UNCHANGED <<server, active, typed, done, dash, clock, today, known, faults, raced>>
  BY DEF GetSnapshot, vault, spent
<1>2. sync \in Syncs /\ server \in Lists /\ sync.vault \in Lists
  BY DEF TypeInv, TypeOK, Syncs
<1>3. Merged(server, sync.vault) \in Lists /\ Archived(server, sync.vault) \in Lists
  BY <1>2, MergeFacts
<1>4. /\ s \in Syncs /\ s.vault = sync.vault /\ s.snap = server
      /\ s.merged = Merged(server, sync.vault) /\ s.archived = Archived(server, sync.vault)
  BY <1>2, <1>3 DEF Syncs
<1> HIDE DEF s
<1>5. After("merge", s) \in {"idle", "active", "done", "put"}
  BY AfterFacts
<1>6. QED
  BY <1>1, <1>2, <1>4, <1>5, GoToFacts, MergeFacts

LEMMA WriteActiveState ==
    ASSUME TypeInv, WriteActive
    PROVE  /\ UNCHANGED <<server, done, dash, clock, today, known, faults, raced>>
           /\ sync.pc = "active" /\ sync' \in Syncs
           /\ active' = sync.merged /\ active' \in Lists /\ typed' = None
           /\ sync'.pc \in {"idle", "done", "put"}
           /\ sync'.pc = "idle" => sync' = Idle
           /\ sync'.pc # "done" => sync.archived = Empty
           /\ sync'.pc # "idle" => /\ sync'.vault = sync.vault /\ sync'.snap = sync.snap
                                   /\ sync'.merged = sync.merged /\ sync'.archived = sync.archived
<1>1. /\ sync.pc = "active" /\ sync' = GoTo(After("active", sync), sync)
      /\ active' = sync.merged /\ typed' = None
      /\ UNCHANGED <<server, done, dash, clock, today, known, faults, raced>>
  BY DEF WriteActive, spent
<1>2. sync \in Syncs /\ sync.merged \in Lists
  BY DEF TypeInv, TypeOK, Syncs
<1>3. /\ After("active", sync) \in {"idle", "done", "put"}
      /\ After("active", sync) \in {"idle", "put"} => sync.archived = Empty
  BY AfterFacts
<1>4. QED
  BY <1>1, <1>2, <1>3, GoToFacts

\* Done.md is written, whatever was read of it.
LEMMA DoneState ==
    ASSUME TypeInv, AppendDone \/ ReadDoneFails
    PROVE  /\ UNCHANGED <<server, active, typed, dash, clock, today, known, raced>>
           /\ sync.pc = "done" /\ sync' \in Syncs
           /\ done' \in [Ids -> Nat]
           /\ faults' \in {faults, faults + 1}
           /\ faults' = faults =>
                \A i \in Ids : (done[i] > 0 \/ sync.archived[i] # None) => done'[i] > 0
           /\ sync'.pc \in {"idle", "put"}
           /\ sync'.pc = "idle" => sync' = Idle
           /\ sync'.pc # "idle" => /\ sync'.vault = sync.vault /\ sync'.snap = sync.snap
                                   /\ sync'.merged = sync.merged /\ sync'.archived = sync.archived
<1>1. /\ sync.pc = "done" /\ sync' = GoTo(After("done", sync), sync)
      /\ UNCHANGED <<server, active, typed, dash, clock, today, known, raced>>
  BY DEF AppendDone, ReadDoneFails, spent
<1>2. sync \in Syncs /\ faults \in Nat /\ done \in [Ids -> Nat]
  BY DEF TypeInv, TypeOK, Syncs
<1>3. After("done", sync) \in {"idle", "put"}
  BY AfterFacts
<1>4. /\ done' \in [Ids -> Nat] /\ faults' \in {faults, faults + 1}
      /\ faults' = faults =>
           \A i \in Ids : (done[i] > 0 \/ sync.archived[i] # None) => done'[i] > 0
  <2>1. CASE AppendDone
    <3>1. /\ faults' = faults
          /\ done' = [i \in Ids |-> IF sync.archived[i] = None \/ done[i] = 2
                                    THEN done[i] ELSE done[i] + 1]
      BY <2>1 DEF AppendDone, spent
    <3>2. QED
      BY <1>2, <3>1
  <2>2. CASE ReadDoneFails
    BY <1>2, <2>2 DEF ReadDoneFails
  <2>3. QED
    BY <2>1, <2>2
<1>5. QED
  BY <1>1, <1>2, <1>3, <1>4, GoToFacts

LEMMA PutArrivesState ==
    ASSUME TypeInv, PutArrives
    PROVE  /\ UNCHANGED <<server, active, typed, done, dash, clock, today, known, faults, raced>>
           /\ sync.pc = "put" /\ sync' \in Syncs /\ sync'.pc = "set" /\ sync'.snap = server
           /\ sync'.vault = sync.vault
           /\ sync'.merged = sync.merged /\ sync'.archived = sync.archived
<1>1. /\ sync.pc = "put" /\ sync' = [sync EXCEPT !.pc = "set", !.snap = server]
      /\ UNCHANGED <<server, active, typed, done, dash, clock, today, known, faults, raced>>
  BY DEF PutArrives, vault, spent
<1>2. sync \in Syncs /\ server \in Lists
  BY DEF TypeInv, TypeOK
<1>3. /\ sync'.pc = "set" /\ sync'.snap = server /\ sync'.vault = sync.vault
      /\ sync'.merged = sync.merged /\ sync'.archived = sync.archived /\ sync' \in Syncs
  BY <1>1, <1>2 DEF Syncs, Merging
<1>4. QED
  BY <1>1, <1>3

\* What the server keeps of a task it is sent.
LEMMA RestampedFacts ==
    ASSUME TypeInv, NEW p \in Tasks \union {None}, NEW t \in Tasks
    PROVE  /\ Restamped(p, t) \in Tasks /\ Restamped(p, t).body = t.body
           /\ \/ /\ p # None /\ p.body = t.body
                 /\ Restamped(p, t).stamp = p.stamp
              \/ Restamped(p, t).stamp = clock + 1
<1>y. clock + 1 \in Nat /\ today \in Nat
  BY DEF TypeInv, TypeOK
<1>1. CASE p # None /\ SameContent(p, t)
  <2>1. Restamped(p, t) = [t EXCEPT !.stamp = p.stamp, !.on = p.on]
    BY <1>1 DEF Restamped
  <2>2. p.stamp \in Nat /\ p.on \in Nat
    BY <1>1 DEF Tasks
  <2>3. /\ Restamped(p, t) \in Tasks /\ Restamped(p, t).body = t.body
        /\ Restamped(p, t).stamp = p.stamp
    BY <2>1, <2>2 DEF Tasks
  <2>4. QED
    BY <1>1, <2>3 DEF SameContent
<1>2. CASE ~(p # None /\ SameContent(p, t))
  <2>1. Restamped(p, t) = TaskOf(t.body, t.done, t.completed, clock + 1)
    BY <1>2 DEF Restamped
  <2>2. QED
    BY <1>y, <2>1 DEF TaskOf, Tasks
<1>3. QED
  BY <1>1, <1>2

LEMMA PutListState ==
    ASSUME TypeInv, PutList
    PROVE  /\ UNCHANGED <<active, typed, done, dash, today, known, faults>>
           /\ sync.pc = "set" /\ sync' = Idle /\ sync' \in Syncs
           /\ raced' = (raced \/ dash.pc # "idle")
           /\ clock' \in {clock, clock + 1}
           /\ server' \in Lists
           /\ \A i \in Ids : server'[i] # None /\ server'[i].stamp = clock + 1 => clock' = clock + 1
           /\ \A i \in Ids : sync.merged[i] # None \/ sync.archived[i] # None => server'[i] # None
           /\ \A i \in Ids : server'[i] # None =>
                LET t == IF sync.archived[i] # None THEN sync.archived[i] ELSE sync.merged[i] IN
                /\ t # None /\ server'[i].body = t.body
                /\ \/ /\ sync.snap[i] # None /\ sync.snap[i].body = t.body
                      /\ server'[i].stamp = sync.snap[i].stamp
                   \/ server'[i].stamp = clock + 1
<1>1. /\ sync.pc = "set" /\ sync' = Idle /\ raced' = (raced \/ dash.pc # "idle")
      /\ server' = [i \in Ids |-> IF Sent[i] = None THEN None ELSE Restamped(sync.snap[i], Sent[i])]
      /\ clock' = IF \E i \in Ids : server'[i] # None /\ server'[i].stamp = clock + 1
                  THEN clock + 1 ELSE clock
      /\ UNCHANGED <<active, typed, done, dash, today, known, faults>>
  BY DEF PutList, vault, spent
<1>2. /\ \A i \in Ids : sync.snap[i] \in Tasks \union {None} /\ sync.merged[i] \in Tasks \union {None}
                        /\ sync.archived[i] \in Tasks \union {None}
  BY DEF TypeInv, TypeOK, Syncs, Lists
<1>3. ASSUME NEW i \in Ids
      PROVE  LET t == IF sync.archived[i] # None THEN sync.archived[i] ELSE sync.merged[i] IN
             /\ server'[i] \in Tasks \union {None}
             /\ t = None <=> server'[i] = None
             /\ t # None =>
                  /\ server'[i].body = t.body
                  /\ \/ /\ sync.snap[i] # None /\ sync.snap[i].body = t.body
                        /\ server'[i].stamp = sync.snap[i].stamp
                     \/ server'[i].stamp = clock + 1
  <2> DEFINE t == IF sync.archived[i] # None THEN sync.archived[i] ELSE sync.merged[i]
  <2>1. Sent[i] = t /\ t \in Tasks \union {None}
    BY <1>2 DEF Sent
  <2>2. server'[i] = IF t = None THEN None ELSE Restamped(sync.snap[i], t)
    BY <1>1, <2>1
  <2> HIDE DEF t
  <2>3. CASE t = None
    BY <2>2, <2>3 DEF t
  <2>4. CASE t # None
    <3>1. t \in Tasks /\ sync.snap[i] \in Tasks \union {None}
      BY <1>2, <2>1, <2>4
    <3>2. server'[i] = Restamped(sync.snap[i], t) /\ server'[i] \in Tasks
      BY <2>2, <2>4, <3>1, RestampedFacts
    <3>3. /\ server'[i].body = t.body
          /\ \/ /\ sync.snap[i] # None /\ sync.snap[i].body = t.body
                /\ server'[i].stamp = sync.snap[i].stamp
             \/ server'[i].stamp = clock + 1
      BY <3>1, <3>2, RestampedFacts
    <3>4. QED
      BY <2>4, <3>2, <3>3, NoneAssumption DEF t
  <2>5. QED
    BY <2>3, <2>4
<1>4. server' \in Lists
  BY <1>1, <1>3 DEF Lists
<1>5. QED
  BY <1>1, <1>3, <1>4, RecordFacts

LEMMA FailState ==
    ASSUME TypeInv, ReadVaultFails \/ Abort
    PROVE  /\ UNCHANGED <<server, active, typed, done, dash, clock, today, known, raced>>
           /\ faults' = faults + 1
           /\ sync' \in {Idle, Reading(Empty)}
  BY DEF ReadVaultFails, Abort, vault

LEMMA NextDayState ==
    ASSUME TypeInv, NextDay
    PROVE  /\ UNCHANGED <<server, active, typed, done, sync, dash, clock, known, faults, raced>>
           /\ today' \in Nat
  BY DEF NextDay, vault, spent, TypeInv, TypeOK

LEMMA Steps ==
    ASSUME [Next]_vars
    PROVE  \/ \E i \in Ids : Request(i) \/ EditByHand(i)
           \/ ReadList \/ SetList \/ TypeByHand \/ NextDay
           \/ ReadVault \/ GetSnapshot \/ WriteActive \/ AppendDone \/ ReadDoneFails
           \/ PutArrives \/ PutList \/ ReadVaultFails \/ Abort \/ UNCHANGED vars
  BY DEF Next, Handle, ByHand, Reconcile

LEMMA TypeInit == Init => TypeInv
<1> SUFFICES ASSUME Init PROVE TypeInv
  OBVIOUS
<1>1. active \in Lists
  <2>1. [body |-> 0, done |-> FALSE, completed |-> None, stamp |-> 0, on |-> 0] \in Tasks
    BY Zenon DEF Tasks
  <2> DEFINE t == [body |-> 0, done |-> FALSE, completed |-> None, stamp |-> 0, on |-> 0]
  <2>2. active = [i \in Ids |-> IF i \in known THEN t ELSE None]
    BY DEF Init
  <2>3. t \in Tasks
    BY <2>1
  <2> HIDE DEF t
  <2>4. QED
    BY <2>2, <2>3 DEF Lists
<1>2. QED
  BY <1>1, RecordFacts DEF Init, TypeInv, TypeOK

LEMMA TypeStep == TypeInv /\ [Next]_vars => TypeInv'
<1> SUFFICES ASSUME TypeInv, [Next]_vars PROVE TypeInv'
  OBVIOUS
<1>t. /\ TypeOK
      /\ sync.pc = "idle" => sync = Idle
      /\ sync.pc = "get" => sync = Reading(sync.vault)
      /\ dash.pc = "idle" => dash = DashIdle
      /\ dash.pc # "idle" => dash.task \in Tasks /\ dash.id \in known
  BY DEF TypeInv
<1> USE DEF TypeInv, TypeOK
<1>1. ASSUME NEW i \in Ids, Request(i) PROVE TypeInv'
  BY <1>t, <1>1, RequestState
<1>2. ASSUME NEW i \in Ids, EditByHand(i) PROVE TypeInv'
  BY <1>t, <1>2, EditState
<1>3. CASE ReadList
  BY <1>t, <1>3, ReadListState
<1>4. CASE SetList
  BY <1>t, <1>4, SetListState, RecordFacts
<1>5. CASE TypeByHand
  BY <1>t, <1>5, TypeState
<1>6. CASE NextDay
  BY <1>t, <1>6, NextDayState
<1>7. CASE ReadVault
  BY <1>t, <1>7, ReadVaultState
<1>8. CASE GetSnapshot
  BY <1>t, <1>8, GetState
<1>9. CASE WriteActive
  BY <1>t, <1>9, WriteActiveState
<1>10. CASE AppendDone \/ ReadDoneFails
  BY <1>t, <1>10, DoneState
<1>11. CASE PutArrives
  BY <1>t, <1>11, PutArrivesState
<1>12. CASE PutList
  <2>1. raced' \in BOOLEAN
    BY <1>12 DEF PutList
  <2>2. clock' \in Nat
    BY <1>t, <1>12 DEF PutList
  <2>3. QED
    BY <1>t, <1>12, <2>1, <2>2, PutListState, RecordFacts
<1>13. CASE ReadVaultFails \/ Abort
  BY <1>t, <1>13, FailState, RecordFacts
<1>14. CASE UNCHANGED vars
  BY <1>t, <1>14 DEF vars, vault, spent
<1>15. QED
  BY <1>1, <1>2, <1>3, <1>4, <1>5, <1>6, <1>7, <1>8, <1>9, <1>10, <1>11, <1>12, <1>13, <1>14, Steps

LEMMA TypeInvariant == Spec => []TypeInv
  BY TypeInit, TypeStep, PTL DEF Spec

-----------------------------------------------------------------------------
(* Reconciles and requests that do not overlap *)

\* As long as no request overlaps a reconcile, both work on the list as it is, and each
\* task the reconcile knows is merged or archived.
MergeInv ==
    ~raced =>
        /\ sync.pc \in Merging =>
             /\ sync.snap = server
             /\ \A i \in Ids : LET w == Winner(server[i], sync.vault[i]) IN
                  \/ sync.merged[i] = w /\ sync.archived[i] = None
                  \/ sync.merged[i] = None /\ sync.archived[i] = w
        /\ dash.pc = "set" => dash.list = server

LEMMA RacedStays == TypeInv /\ [Next]_vars /\ ~raced' => ~raced
<1> SUFFICES ASSUME TypeInv, [Next]_vars PROVE raced => raced'
  OBVIOUS
<1>1. CASE UNCHANGED raced
  BY <1>1
<1>2. CASE SetList \/ PutList
  BY <1>2 DEF SetList, PutList
<1>3. ASSUME NEW i \in Ids, Request(i) \/ EditByHand(i) PROVE raced => raced'
  BY <1>3, RequestState, EditState
<1>4. CASE ReadList \/ TypeByHand \/ NextDay \/ ReadVault
  BY <1>4, ReadListState, TypeState, NextDayState, ReadVaultState
<1>5. CASE GetSnapshot \/ WriteActive \/ AppendDone \/ ReadDoneFails
  BY <1>5, GetState, WriteActiveState, DoneState
<1>6. CASE PutArrives \/ ReadVaultFails \/ Abort \/ UNCHANGED vars
  BY <1>6, PutArrivesState, FailState DEF vars
<1>7. QED
  BY <1>2, <1>3, <1>4, <1>5, <1>6, Steps

LEMMA MergeInit == Init => MergeInv
<1> SUFFICES ASSUME Init PROVE MergeInv
  OBVIOUS
<1>1. sync.pc = "idle" /\ dash.pc = "idle"
  BY RecordFacts DEF Init
<1>2. QED
  BY <1>1 DEF MergeInv, Merging

LEMMA MergeStep == TypeInv /\ MergeInv /\ [Next]_vars => MergeInv'
<1> SUFFICES ASSUME TypeInv, MergeInv, [Next]_vars, ~raced' PROVE MergeInv'
  BY DEF MergeInv
<1>r. ~raced
  BY RacedStays
<1>t. /\ sync.pc \in Merging =>
           /\ sync.snap = server
           /\ \A i \in Ids : LET w == Winner(server[i], sync.vault[i]) IN
                \/ sync.merged[i] = w /\ sync.archived[i] = None
                \/ sync.merged[i] = None /\ sync.archived[i] = w
      /\ dash.pc = "set" => dash.list = server
  BY <1>r DEF MergeInv
<1>i. Idle.pc \notin Merging /\ \A v \in Lists : Reading(v).pc \notin Merging
  BY RecordFacts DEF Merging
<1>1. ASSUME UNCHANGED <<server, dash>>, sync'.pc \notin Merging PROVE MergeInv'
  BY <1>t, <1>1 DEF MergeInv
<1>2. ASSUME UNCHANGED <<server, dash>>, sync.pc \in Merging,
             sync'.vault = sync.vault, sync'.snap = server,
             sync'.merged = sync.merged, sync'.archived = sync.archived
      PROVE  MergeInv'
  BY <1>t, <1>2 DEF MergeInv
<1>3. ASSUME UNCHANGED <<server, sync>>, dash'.pc = "set" => dash'.list = server PROVE MergeInv'
  BY <1>t, <1>3 DEF MergeInv
<1>4. ASSUME NEW i \in Ids, Request(i) \/ EditByHand(i) PROVE MergeInv'
  <2>1. CASE Request(i)
    BY <1>3, <2>1, RequestState
  <2>2. CASE EditByHand(i)
    BY <1>3, <1>t, <2>2, EditState
  <2>3. QED
    BY <1>4, <2>1, <2>2
<1>5. CASE ReadList
  BY <1>3, <1>5, ReadListState
<1>6. CASE SetList
  <2>1. UNCHANGED sync /\ sync.pc \notin Merging /\ dash'.pc = "idle"
    BY <1>6, SetListState, RecordFacts
  <2>2. QED
    BY <2>1 DEF MergeInv
<1>7. CASE TypeByHand \/ NextDay
  BY <1>3, <1>t, <1>7, TypeState, NextDayState
<1>8. CASE ReadVault
  BY <1>1, <1>8, ReadVaultState DEF Merging
<1>9. CASE GetSnapshot
  <2>1. CASE sync'.pc = "idle"
    BY <1>1, <1>9, <2>1, GetState DEF Merging
  <2>2. CASE sync'.pc # "idle"
    BY <1>9, <1>t, <2>2, GetState DEF MergeInv
  <2>3. QED
    BY <2>1, <2>2
<1>10. CASE WriteActive
  <2>1. CASE sync'.pc = "idle"
    BY <1>1, <1>10, <2>1, WriteActiveState DEF Merging
  <2>2. CASE sync'.pc # "idle"
    <3>1. sync.pc \in Merging
      BY <1>10, WriteActiveState DEF Merging
    <3>2. QED
      BY <1>2, <1>10, <1>t, <2>2, <3>1, WriteActiveState
  <2>3. QED
    BY <2>1, <2>2
<1>11. CASE AppendDone \/ ReadDoneFails
  <2>1. CASE sync'.pc = "idle"
    BY <1>1, <1>11, <2>1, DoneState DEF Merging
  <2>2. CASE sync'.pc # "idle"
    <3>1. sync.pc \in Merging
      BY <1>11, DoneState DEF Merging
    <3>2. QED
      BY <1>2, <1>11, <1>t, <2>2, <3>1, DoneState
  <2>3. QED
    BY <2>1, <2>2
<1>12. CASE PutArrives
  <2>1. sync.pc \in Merging
    BY <1>12, PutArrivesState DEF Merging
  <2>2. QED
    BY <1>2, <1>12, <2>1, PutArrivesState
<1>13. CASE PutList
  <2>1. sync' = Idle /\ UNCHANGED dash /\ dash.pc = "idle"
    BY <1>13, PutListState
  <2>2. QED
    BY <1>i, <2>1 DEF MergeInv
<1>14. CASE ReadVaultFails \/ Abort
  BY <1>1, <1>14, <1>i, FailState, RecordFacts
<1>15. CASE UNCHANGED vars
  BY <1>3, <1>t, <1>15 DEF vars
<1>16. QED
  BY <1>4, <1>5, <1>6, <1>7, <1>8, <1>9, <1>10, <1>11, <1>12, <1>13, <1>14, <1>15, Steps

LEMMA MergeInvariant == Spec => [](TypeInv /\ MergeInv)
  BY TypeInit, TypeStep, MergeInit, MergeStep, PTL DEF Spec

\* What the set of a reconcile that no request overlapped makes of the list.
LEMMA SafePut ==
    ASSUME TypeInv, MergeInv, PutList, ~raced', NEW i \in Ids
    PROVE  LET w == Winner(server[i], sync.vault[i]) IN
           /\ w # None <=> server'[i] # None
           /\ server'[i] # None =>
                /\ server'[i].body = w.body
                /\ \/ /\ server[i] # None /\ server[i].body = w.body
                      /\ server'[i].stamp = server[i].stamp
                   \/ server'[i].stamp = clock + 1
<1>1. ~raced /\ sync.pc = "set"
  BY PutListState DEF PutList
<1>2. /\ sync.snap = server
      /\ LET w == Winner(server[i], sync.vault[i]) IN
           \/ sync.merged[i] = w /\ sync.archived[i] = None
           \/ sync.merged[i] = None /\ sync.archived[i] = w
  BY <1>1 DEF MergeInv, Merging
<1>3. QED
  BY <1>2, PutListState

\* And the set of a request.
LEMMA SafeSet ==
    ASSUME TypeInv, MergeInv, SetList, ~raced'
    PROVE  /\ server' = [server EXCEPT ![dash.id] = dash.task] /\ server \in Lists
           /\ dash.id \in Ids /\ dash.task \in Tasks /\ sync.pc \notin Merging
<1>1. ~raced /\ sync.pc \notin Merging /\ dash.pc = "set"
  BY SetListState DEF SetList, Merging
<1>2. QED
  BY <1>1, SetListState DEF MergeInv, TypeInv, TypeOK

\* The list changes by the set of a reconcile and by the set of a request, and no
\* task leaves it.
LEMMA ListGrows ==
    ASSUME TypeInv, MergeInv, [Next]_vars, ~raced', NEW i \in Ids, server[i] # None
    PROVE  server'[i] # None
<1>1. CASE UNCHANGED server
  BY <1>1
<1>2. CASE SetList
  BY <1>2, SafeSet, NoneAssumption DEF Lists
<1>3. CASE PutList
  <2>1. server[i] \in Tasks \union {None} /\ sync.vault[i] \in Tasks \union {None}
    BY DEF TypeInv, TypeOK, Lists, Syncs
  <2>2. Winner(server[i], sync.vault[i]) # None
    BY <2>1, WinnerFacts
  <2>3. QED
    BY <1>3, <2>2, SafePut
<1>4. ASSUME NEW k \in Ids, Request(k) \/ EditByHand(k) PROVE UNCHANGED server
  BY <1>4, RequestState, EditState
<1>5. CASE ReadList \/ TypeByHand \/ NextDay \/ ReadVault
  BY <1>1, <1>5, ReadListState, TypeState, NextDayState, ReadVaultState
<1>6. CASE GetSnapshot \/ WriteActive \/ AppendDone \/ ReadDoneFails
  BY <1>1, <1>6, GetState, WriteActiveState, DoneState
<1>7. CASE PutArrives \/ ReadVaultFails \/ Abort \/ UNCHANGED vars
  BY <1>1, <1>7, PutArrivesState, FailState DEF vars
<1>8. QED
  BY <1>1, <1>2, <1>3, <1>4, <1>5, <1>6, <1>7, Steps

\* As long as no request overlaps a reconcile, a task the server has once listed stays
\* listed, however reconciles fail half way and whatever is edited by hand: the PUT of
\* handleTasksSnapshotPut() carries every task of the snapshot it was merged from.
THEOREM ServerKeepsTasks == Spec => KeptOnServer
<1>1. TypeInv /\ MergeInv /\ [Next]_vars =>
        [~raced' => \A i \in Ids : server[i] # None => server'[i] # None]_vars
  BY ListGrows
<1>2. QED
  BY <1>1, MergeInvariant, PTL DEF Spec, KeptOnServer

-----------------------------------------------------------------------------
(* No task is lost *)

\* A reconcile that did not misread has seen every task that stands in Active.md
\* until it writes it.
SeenInv ==
    faults = 0 /\ sync.pc \in {"get", "active"} =>
        \A i \in Ids : active[i] # None => sync.vault[i] # None

LEMMA SeenInit == Init => SeenInv
  BY RecordFacts DEF Init, SeenInv

LEMMA SeenStep == TypeInv /\ SeenInv /\ [Next]_vars => SeenInv'
<1> SUFFICES ASSUME TypeInv, SeenInv, [Next]_vars PROVE SeenInv'
  OBVIOUS
<1>0. CASE sync'.pc \notin {"get", "active"}
  BY <1>0 DEF SeenInv
<1>1. CASE UNCHANGED <<active, sync, faults>>
  BY <1>1 DEF SeenInv
<1>2. ASSUME NEW i \in Ids, Request(i) \/ EditByHand(i) PROVE SeenInv'
  <2>1. CASE Request(i)
    BY <1>1, <2>1, RequestState
  <2>2. CASE EditByHand(i)
    <3>1. UNCHANGED <<sync, faults>> /\ \A k \in Ids : active'[k] # None => active[k] # None
      BY <2>2, EditState, NoneAssumption
    <3>2. QED
      BY <3>1 DEF SeenInv
  <2>3. QED
    BY <1>2, <2>1, <2>2
<1>3. CASE ReadList \/ SetList \/ TypeByHand \/ NextDay
  BY <1>1, <1>3, ReadListState, SetListState, TypeState, NextDayState
<1>4. CASE ReadVault
  <2>1. \A i \in Ids : active'[i] # None => sync'.vault[i] # None
    BY <1>4, ReadVaultState, NoneAssumption
  <2>2. QED
    BY <2>1 DEF SeenInv
<1>5. CASE GetSnapshot
  <2>1. CASE sync'.pc # "idle"
    BY <1>5, <2>1, GetState DEF SeenInv
  <2>2. QED
    BY <1>0, <2>1
<1>6. CASE WriteActive \/ AppendDone \/ ReadDoneFails \/ PutArrives \/ PutList
  BY <1>0, <1>6, WriteActiveState, DoneState, PutArrivesState, PutListState, RecordFacts
<1>7. CASE ReadVaultFails \/ Abort
  <2>1. faults' # 0
    BY <1>7, FailState DEF TypeInv, TypeOK
  <2>2. QED
    BY <2>1 DEF SeenInv
<1>8. CASE UNCHANGED vars
  BY <1>1, <1>8 DEF vars, vault, spent
<1>9. QED
  BY <1>2, <1>3, <1>4, <1>5, <1>6, <1>7, <1>8, Steps

\* Where a task is.
Home(i) ==
    \/ server[i] # None \/ active[i] # None \/ done[i] > 0
    \/ dash.id = i \/ sync.archived[i] # None

LEMMA HomeStep ==
    TypeInv /\ MergeInv /\ SeenInv /\ NoTaskLost /\ [Next]_vars => NoTaskLost'
<1> SUFFICES ASSUME TypeInv, MergeInv, SeenInv, NoTaskLost, [Next]_vars,
                    ~raced', faults' = 0, NEW i \in known'
             PROVE  Home(i)'
  BY DEF NoTaskLost, Home
<1>f. faults = 0 /\ faults' = faults
  <2>1. faults \in Nat
    BY DEF TypeInv, TypeOK
  <2>2. faults' \in {faults, faults + 1}
    <3>1. ASSUME NEW k \in Ids, Request(k) \/ EditByHand(k) PROVE faults' = faults
      BY <3>1, RequestState, EditState
    <3>2. CASE ReadList \/ SetList \/ TypeByHand \/ NextDay \/ ReadVault
      BY <3>2, ReadListState, SetListState, TypeState, NextDayState, ReadVaultState
    <3>3. CASE GetSnapshot \/ WriteActive \/ AppendDone \/ ReadDoneFails
      BY <3>3, GetState, WriteActiveState, DoneState
    <3>4. CASE PutArrives \/ PutList \/ ReadVaultFails \/ Abort \/ UNCHANGED vars
      BY <3>4, PutArrivesState, PutListState, FailState DEF vars, spent
    <3>5. QED
      BY <3>1, <3>2, <3>3, <3>4, Steps
  <2>3. QED
    BY <2>1, <2>2
<1>y. /\ server \in Lists /\ active \in Lists /\ known \subseteq Ids /\ done \in [Ids -> Nat]
      /\ \A k \in Ids : sync.vault[k] \in Tasks \union {None} /\ server[k] \in Tasks \union {None}
  BY DEF TypeInv, TypeOK, Syncs, Lists
<1>h. ~raced /\ (i \in known => Home(i))
  BY <1>f, RacedStays DEF NoTaskLost, Home
<1>1. CASE UNCHANGED <<server, active, done, dash, known>> /\ (sync.archived[i] # None => sync'.archived[i] # None)
  BY <1>h, <1>1 DEF Home
<1>2. ASSUME NEW k \in Ids, Request(k) PROVE Home(i)'
  <2>1. CASE i = k
    BY <1>2, <2>1, RequestState DEF Home
  <2>2. CASE i # k
    <3>1. i \in known /\ i \in Ids
      BY <1>2, <1>y, <2>2, RequestState
    <3>2. dash.id = None
      BY <1>2, RequestState, RecordFacts DEF TypeInv
    <3>3. QED
      BY <1>2, <1>h, <3>1, <3>2, RequestState, NoneAssumption DEF Home
  <2>3. QED
    BY <2>1, <2>2
<1>3. ASSUME NEW k \in Ids, EditByHand(k) PROVE Home(i)'
  <2>1. i \in known /\ (active[i] # None => active'[i] # None)
    BY <1>3, <1>y, EditState, NoneAssumption
  <2>2. QED
    BY <1>3, <1>h, <2>1, EditState DEF Home
<1>4. CASE ReadList
  BY <1>h, <1>4, ReadListState DEF Home
<1>5. CASE SetList
  <2>1. UNCHANGED <<active, done, sync, known>>
    BY <1>5, SetListState
  <2>2. i \in Ids /\ Home(i)
    BY <1>h, <1>y, <2>1
  <2>3. dash.id = i => server'[i] # None
    BY <1>5, <2>2, SafeSet, NoneAssumption DEF Lists
  <2>4. server[i] # None => server'[i] # None
    BY <2>2, ListGrows
  <2>5. QED
    BY <2>1, <2>2, <2>3, <2>4 DEF Home
<1>6. CASE TypeByHand \/ NextDay
  BY <1>1, <1>6, TypeState, NextDayState
<1>7. CASE ReadVault \/ GetSnapshot
  <2>1. UNCHANGED <<server, active, done, dash, known>> /\ sync.archived = Empty
    BY <1>7, ReadVaultState, GetState, RecordFacts DEF TypeInv, TypeOK, Syncs
  <2>2. QED
    BY <1>1, <1>y, <2>1, RecordFacts
<1>8. CASE WriteActive
  <2>1. /\ UNCHANGED <<server, done, dash, known>> /\ sync.pc = "active" /\ active' = sync.merged
        /\ i \in Ids
    BY <1>8, <1>y, WriteActiveState
  <2>2. sync.archived[i] # None => sync'.archived[i] # None
    BY <1>8, <2>1, WriteActiveState, RecordFacts
  <2>3. active[i] # None => active'[i] # None \/ sync.archived[i] # None
    <3>1. CASE active[i] # None
      <4>1. sync.vault[i] # None
        BY <1>f, <2>1, <3>1 DEF SeenInv
      <4>2. Winner(server[i], sync.vault[i]) # None
        BY <1>y, <2>1, <4>1, WinnerFacts
      <4>3. LET w == Winner(server[i], sync.vault[i]) IN
            \/ sync.merged[i] = w /\ sync.archived[i] = None
            \/ sync.merged[i] = None /\ sync.archived[i] = w
        BY <1>h, <2>1 DEF MergeInv, Merging
      <4>4. QED
        BY <2>1, <4>2, <4>3
    <3>2. QED
      BY <3>1
  <2>4. QED
    BY <1>h, <2>1, <2>2, <2>3 DEF Home
<1>9. CASE AppendDone \/ ReadDoneFails
  <2>1. UNCHANGED <<server, active, dash, known>> /\ i \in Ids
    BY <1>9, <1>y, DoneState
  <2>2. (done[i] > 0 \/ sync.archived[i] # None) => done'[i] > 0
    BY <1>9, <1>f, <2>1, DoneState
  <2>3. QED
    BY <1>h, <2>1, <2>2 DEF Home
<1>10. CASE PutArrives
  BY <1>1, <1>10, PutArrivesState
<1>11. CASE PutList
  <2>1. UNCHANGED <<active, done, dash, known>> /\ i \in Ids
    BY <1>11, <1>y, PutListState
  <2>2. server[i] # None => server'[i] # None
    BY <2>1, ListGrows
  <2>3. sync.archived[i] # None => server'[i] # None
    BY <1>11, <2>1, PutListState
  <2>4. QED
    BY <1>h, <2>1, <2>2, <2>3 DEF Home
<1>12. CASE ReadVaultFails \/ Abort
  BY <1>12, <1>f, FailState
<1>13. CASE UNCHANGED vars
  BY <1>1, <1>13 DEF vars, vault
<1>14. QED
  BY <1>2, <1>3, <1>4, <1>5, <1>6, <1>7, <1>8, <1>9, <1>10, <1>11, <1>12, <1>13, Steps

\* As long as no request overlaps a reconcile and none stops half way or misreads, no
\* task is lost between its homes: reconcileOnce() writes Active.md, Done.md and the
\* server's list one after the other, and a task is always in one of them or in the
\* hands of who is about to write it.
THEOREM TasksAreKept == Spec => []NoTaskLost
<1>1. Init => NoTaskLost
  <2>1. ASSUME Init, NEW i \in known PROVE active[i] # None
    <3> DEFINE t == [body |-> 0, done |-> FALSE, completed |-> None, stamp |-> 0, on |-> 0]
    <3>1. t \in Tasks
      BY Zenon DEF Tasks
    <3>2. active = [k \in Ids |-> IF k \in known THEN t ELSE None] /\ known \in SUBSET Ids
      BY <2>1 DEF Init
    <3> HIDE DEF t
    <3>3. QED
      BY <3>1, <3>2, NoneAssumption
  <2>2. QED
    BY <2>1 DEF NoTaskLost
<1>2. Spec => []SeenInv
  BY SeenInit, SeenStep, TypeInvariant, PTL DEF Spec
<1>3. QED
  BY <1>1, <1>2, HomeStep, MergeInvariant, PTL DEF Spec

-----------------------------------------------------------------------------
(* Newer wins *)

\* A copy of a task is as old as its timestamps say.
Past(t, n) == t # None => t.body <= n /\ t.stamp <= n

\* A copy in the vault that would win against the server's has content as new.
Fresher(v, s) == v # None /\ s # None /\ v.stamp >= s.stamp => v.body >= s.body

\* Nothing is newer than the clock, a copy that wins is newer, and the task of a request
\* is newer than every copy of it.
TimeInv ==
    ~raced =>
        /\ \A i \in Ids : /\ Past(server[i], clock) /\ Past(active[i], clock)
                          /\ Past(sync.vault[i], clock)
        /\ typed # None => typed <= clock
        /\ \A i \in Ids : Fresher(active[i], server[i]) /\ Fresher(sync.vault[i], server[i])
        /\ dash.pc # "idle" =>
             /\ dash.task.stamp <= clock /\ dash.task.body <= clock
             /\ \A t \in {server[dash.id], active[dash.id], sync.vault[dash.id]} :
                  t # None => t.stamp < dash.task.stamp
             /\ server[dash.id] # None => server[dash.id].body <= dash.task.body

LEMMA TimeInit == Init => TimeInv
<1> SUFFICES ASSUME Init PROVE TimeInv
  OBVIOUS
<1>1. /\ dash.pc = "idle" /\ clock = 0 /\ typed = None
      /\ \A i \in Ids : server[i] = None /\ sync.vault[i] = None
  BY RecordFacts DEF Init
<1>2. ASSUME NEW i \in Ids, active[i] # None PROVE active[i].body = 0 /\ active[i].stamp = 0
  BY <1>2 DEF Init
<1>3. QED
  BY <1>1, <1>2 DEF TimeInv, Past, Fresher

LEMMA TimeStep == TypeInv /\ MergeInv /\ TimeInv /\ [Next]_vars => TimeInv'
<1> SUFFICES ASSUME TypeInv, MergeInv, TimeInv, [Next]_vars, ~raced' PROVE TimeInv'
  BY DEF TimeInv
<1>r. ~raced
  BY RacedStays
<1>y. /\ clock \in Nat /\ known \subseteq Ids /\ typed \in Nat \union {None}
      /\ \A i \in Ids : /\ server[i] \in Tasks \union {None} /\ active[i] \in Tasks \union {None}
                        /\ sync.vault[i] \in Tasks \union {None}
      /\ dash.pc # "idle" => dash.task \in Tasks /\ dash.id \in known /\ dash.id \in Ids
      /\ \A t \in Tasks : t.body \in Nat /\ t.stamp \in Nat
  BY DEF TypeInv, TypeOK, Syncs, Lists, Tasks
<1>t. /\ \A i \in Ids : /\ Past(server[i], clock) /\ Past(active[i], clock)
                        /\ Past(sync.vault[i], clock)
      /\ typed # None => typed <= clock
      /\ \A i \in Ids : Fresher(active[i], server[i]) /\ Fresher(sync.vault[i], server[i])
      /\ dash.pc # "idle" =>
           /\ dash.task.stamp <= clock /\ dash.task.body <= clock
           /\ \A t \in {server[dash.id], active[dash.id], sync.vault[dash.id]} :
                t # None => t.stamp < dash.task.stamp
           /\ server[dash.id] # None => server[dash.id].body <= dash.task.body
  BY <1>r DEF TimeInv
<1>v. \A i \in Ids : Idle.vault[i] = None /\ Reading(Empty).vault[i] = None
  BY RecordFacts
<1>1. ASSUME UNCHANGED <<server, active, typed, dash, clock>>,
             \A i \in Ids : sync'.vault[i] \in {sync.vault[i], None}
      PROVE  TimeInv'
  BY <1>y, <1>t, <1>1 DEF TimeInv, Past, Fresher
<1>2. ASSUME NEW k \in Ids, Request(k) PROVE TimeInv'
  BY <1>y, <1>t, <1>2, RequestState DEF TimeInv, Past, Fresher
<1>3. ASSUME NEW k \in Ids, EditByHand(k) PROVE TimeInv'
  <2>1. /\ UNCHANGED <<server, typed, sync, dash>> /\ clock' = clock + 1
        /\ active[k] \in Tasks /\ active'[k] \in Tasks
        /\ active'[k].body = clock + 1 /\ active'[k].stamp = active[k].stamp
        /\ \A i \in Ids \ {k} : active'[i] = active[i]
    BY <1>3, EditState
  <2>2. \A i \in Ids : Past(server[i], clock') /\ Past(sync.vault[i], clock')
    BY <1>y, <1>t, <2>1 DEF Past
  <2>3. \A i \in Ids : Past(active'[i], clock')
    BY <1>y, <1>t, <2>1, NoneAssumption DEF Past
  <2>4. \A i \in Ids : Fresher(active'[i], server[i])
    <3>1. Fresher(active'[k], server[k])
      BY <1>y, <1>t, <2>1 DEF Past, Fresher
    <3>2. QED
      BY <1>t, <2>1, <3>1
  <2>5. dash.pc # "idle" => (active'[dash.id] # None => active'[dash.id].stamp < dash.task.stamp)
    BY <1>y, <1>t, <2>1, NoneAssumption
  <2>6. dash.pc # "idle" => dash.task.stamp <= clock' /\ dash.task.body <= clock'
    BY <1>y, <1>t, <2>1
  <2>7. typed # None => typed <= clock'
    BY <1>y, <1>t, <2>1
  <2>8. QED
    BY <1>t, <2>1, <2>2, <2>3, <2>4, <2>5, <2>6, <2>7 DEF TimeInv
<1>4. CASE ReadList
  BY <1>y, <1>t, <1>4, ReadListState DEF TimeInv, Past, Fresher
<1>5. CASE SetList
  <2>1. UNCHANGED <<active, typed, sync, clock>> /\ dash'.pc = "idle"
    BY <1>5, SetListState, RecordFacts
  <2>2. \A i \in Ids \ {dash.id} : server'[i] = server[i]
    BY <1>5, SafeSet DEF Lists
  <2>3. server'[dash.id] = dash.task /\ dash.pc # "idle" /\ dash.id \in Ids
    BY <1>5, SafeSet, SetListState DEF Lists
  <2>4. QED
    BY <1>y, <1>t, <2>1, <2>2, <2>3 DEF TimeInv, Past, Fresher
<1>6. CASE TypeByHand
  BY <1>y, <1>t, <1>6, TypeState DEF TimeInv, Past, Fresher
<1>7. CASE NextDay
  BY <1>1, <1>7, NextDayState
<1>8. CASE ReadVault
  <2>1. CASE sync'.vault = active /\ clock' = clock
    BY <1>y, <1>t, <1>8, <2>1, ReadVaultState DEF TimeInv, Past, Fresher
  <2>2. ASSUME NEW i \in Ids, typed \in Nat, clock' = clock + 1,
               i \notin known, server[i] = None,
               \A k \in Ids \ {i} : sync'.vault[k] = active[k],
               sync'.vault[i] \in Tasks, sync'.vault[i].body = typed, sync'.vault[i].stamp = clock + 1
        PROVE  TimeInv'
    BY <1>y, <1>t, <1>8, <2>2, ReadVaultState, NoneAssumption DEF TimeInv, Past, Fresher
  <2>3. QED
    BY <1>8, <2>1, <2>2, ReadVaultState
<1>9. CASE GetSnapshot
  BY <1>1, <1>9, <1>v, GetState
<1>10. CASE WriteActive
  <2>1. /\ UNCHANGED <<server, dash, clock>> /\ typed' = None /\ sync.pc = "active"
        /\ active' = sync.merged
    BY <1>10, WriteActiveState
  <2>2. \A i \in Ids : sync'.vault[i] \in {sync.vault[i], None}
    BY <1>10, <1>v, WriteActiveState
  <2>3. \A i \in Ids : active'[i] \in {server[i], sync.vault[i], None}
    BY <1>r, <1>y, <2>1, WinnerFacts DEF MergeInv, Merging
  <2>4. QED
    BY <1>y, <1>t, <2>1, <2>2, <2>3 DEF TimeInv, Past, Fresher
<1>11. CASE AppendDone \/ ReadDoneFails
  BY <1>1, <1>11, <1>v, DoneState
<1>12. CASE PutArrives
  BY <1>1, <1>12, PutArrivesState
<1>13. CASE PutList
  <2>1. /\ UNCHANGED <<active, typed, dash>> /\ sync' = Idle /\ clock' \in {clock, clock + 1}
        /\ dash.pc = "idle"
        /\ \A i \in Ids : server'[i] # None /\ server'[i].stamp = clock + 1 => clock' = clock + 1
    BY <1>13, PutListState
  <2>2. ASSUME NEW i \in Ids, server'[i] # None
        PROVE  /\ server'[i].body <= clock
               /\ \/ server[i] # None /\ server'[i].body = server[i].body /\ server'[i].stamp = server[i].stamp
                  \/ server'[i].stamp = clock + 1 /\ clock' = clock + 1
    <3> DEFINE w == Winner(server[i], sync.vault[i])
    <3>1. w \in {server[i], sync.vault[i]}
      BY <1>y, WinnerFacts
    <3>2. /\ w # None /\ server'[i].body = w.body
          /\ \/ /\ server[i] # None /\ server[i].body = w.body
                /\ server'[i].stamp = server[i].stamp
             \/ server'[i].stamp = clock + 1
      BY <1>13, <2>2, SafePut
    <3>3. QED
      BY <1>t, <2>1, <2>2, <3>1, <3>2 DEF Past
  <2>3. \A i \in Ids : Past(server'[i], clock') /\ Past(active'[i], clock')
    <3>1. \A i \in Ids : Past(active'[i], clock')
      BY <1>y, <1>t, <2>1 DEF Past
    <3>2. ASSUME NEW i \in Ids, server'[i] # None
          PROVE  server'[i].body <= clock' /\ server'[i].stamp <= clock'
      <4>1. clock \in Nat /\ clock' \in Nat /\ clock <= clock' /\ server'[i].body <= clock
        BY <1>y, <2>1, <2>2, <3>2
      <4>n. server'[i].body \in Nat
        BY <1>13, <3>2, PutListState DEF Lists, Tasks
      <4>2. CASE server[i] # None /\ server'[i].stamp = server[i].stamp
        BY <1>y, <1>t, <4>1, <4>2, <2>2, <3>2 DEF Past
      <4>3. CASE server'[i].stamp = clock + 1 /\ clock' = clock + 1
        BY <4>1, <4>3, <4>n
      <4>4. QED
        BY <2>2, <3>2, <4>2, <4>3
    <3>3. QED
      BY <3>1, <3>2 DEF Past
  <2>4. \A i \in Ids : Fresher(active'[i], server'[i])
    BY <1>y, <1>t, <2>1, <2>2 DEF Past, Fresher
  <2>5. QED
    BY <1>y, <1>t, <1>v, <2>1, <2>3, <2>4 DEF TimeInv, Past, Fresher
<1>14. CASE ReadVaultFails \/ Abort
  BY <1>1, <1>14, <1>v, FailState
<1>15. CASE UNCHANGED vars
  BY <1>1, <1>15 DEF vars, vault
<1>16. QED
  BY <1>2, <1>3, <1>4, <1>5, <1>6, <1>7, <1>8, <1>9, <1>10, <1>11, <1>12, <1>13, <1>14, <1>15, Steps

LEMMA NewerStep ==
    ASSUME TypeInv, MergeInv, TimeInv, [Next]_vars, ~raced', NEW i \in Ids,
           server[i] # None, server'[i] # None
    PROVE  server'[i].body >= server[i].body
<1>r. ~raced
  BY RacedStays
<1>y. server[i] \in Tasks /\ sync.vault[i] \in Tasks \union {None} /\ server[i].body \in Nat
  BY DEF TypeInv, TypeOK, Syncs, Lists, Tasks
<1>1. CASE UNCHANGED server
  BY <1>1, <1>y
<1>2. CASE SetList
  <2>1. /\ server' = [server EXCEPT ![dash.id] = dash.task] /\ server \in Lists
        /\ dash.pc # "idle"
    BY <1>2, SafeSet, SetListState
  <2>2. i = dash.id => server[i].body <= dash.task.body /\ dash.task.body \in Nat
    BY <1>r, <2>1, <1>2, SafeSet DEF TimeInv, Tasks
  <2>3. QED
    BY <1>y, <2>1, <2>2 DEF Lists
<1>3. CASE PutList
  <2> DEFINE w == Winner(server[i], sync.vault[i])
  <2>1. server'[i].body = w.body
    BY <1>3, SafePut
  <2>2. w.body >= server[i].body
    <3>1. w \in {server[i], sync.vault[i]}
          /\ (w = server[i] \/ (sync.vault[i] # None /\ sync.vault[i].stamp >= server[i].stamp))
      BY <1>y, WinnerFacts
    <3>2. Fresher(sync.vault[i], server[i])
      BY <1>r DEF TimeInv
    <3>3. QED
      BY <1>y, <3>1, <3>2 DEF Fresher
  <2>3. QED
    BY <2>1, <2>2
<1>4. ASSUME NEW k \in Ids, Request(k) \/ EditByHand(k) PROVE UNCHANGED server
  BY <1>4, RequestState, EditState
<1>5. CASE ReadList \/ TypeByHand \/ NextDay \/ ReadVault
  BY <1>1, <1>5, ReadListState, TypeState, NextDayState, ReadVaultState
<1>6. CASE GetSnapshot \/ WriteActive \/ AppendDone \/ ReadDoneFails
  BY <1>1, <1>6, GetState, WriteActiveState, DoneState
<1>7. CASE PutArrives \/ ReadVaultFails \/ Abort \/ UNCHANGED vars
  BY <1>1, <1>7, PutArrivesState, FailState DEF vars
<1>8. QED
  BY <1>1, <1>2, <1>3, <1>4, <1>5, <1>6, <1>7, Steps

\* As long as no request overlaps a reconcile, the server's copy of a task never goes
\* back to content written earlier: the vault's copy wins in mergeTaskLists() only if
\* its text is at least as new, hand edits that leave updated_at alone included.
THEOREM NewerWins == Spec => NeverRolledBack
<1>1. TypeInv /\ MergeInv /\ TimeInv /\ [Next]_vars =>
        [~raced' => \A i \in Ids :
            (server[i] # None /\ server'[i] # None) => server'[i].body >= server[i].body]_vars
  BY NewerStep
<1>2. Spec => []TimeInv
  BY TimeInit, TimeStep, MergeInvariant, PTL DEF Spec
<1>3. QED
  BY <1>1, <1>2, MergeInvariant, PTL DEF Spec, NeverRolledBack
=============================================================================
