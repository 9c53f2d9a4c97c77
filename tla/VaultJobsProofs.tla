--------------------------- MODULE VaultJobsProofs ---------------------------
(***************************************************************************)
(* Theorems about VaultJobs, for every set of jobs, every vault and every  *)
(* number of requests, faults and days.                                    *)
(***************************************************************************)
EXTENDS VaultJobs, FiniteSetTheorems, WellFoundedInduction, TLAPS

Lists    == [Jobs -> {"absent", "queued", "done", "error"}]
Statuses == [enabled : BOOLEAN, day : Nat, writes : Nat]
Works    == {"idle", "execute", "ok", "error", "okSent", "errorSent"}
Paths    == {NoPath} \union {ResolveVaultPath(Target[j]) : j \in Jobs}

Todos == {<<>>, <<"jobs">>, <<"status">>, <<"jobs", "status">>}

Requests ==
    [op : {"none", "create", "note", "pending", "result", "announce"}, todo : Todos,
     bridge : BOOLEAN, job : Jobs \union {None}, ok : BOOLEAN, day : Nat,
     queued : SUBSET Jobs, copy : Lists \union Statuses \union {None}]

\* What has been read is the document of the stage, and the stages fit the operation.
Planned(r) ==
    /\ r.copy = None \/ r.copy \in IF Head(r.todo) = "jobs" THEN Lists ELSE Statuses
    /\ r.op = "none" => r.todo = <<>>
    /\ r.op \in {"create", "note"} => r.job \in Jobs /\ r.todo = <<"jobs">> /\ ~r.bridge
    /\ r.op = "pending" => r.todo \in {<<"status">>, <<>>}
    /\ r.op = "result" => r.job \in Jobs /\ r.todo \in {<<"jobs", "status">>, <<"status">>}
    /\ r.op = "announce" => r.todo = <<"status">>

TypeOK ==
    /\ jobs \in Lists
    /\ vstatus \in Statuses
    /\ req \in [Places -> Requests]
    /\ work \in [Jobs -> Works]
    /\ booting \in BOOLEAN
    /\ files \in [Jobs -> [path : Paths, times : 0..Top]]
    /\ dry \in BOOLEAN /\ announced \in BOOLEAN /\ stale \in BOOLEAN
    /\ today \in Nat /\ faults \in Nat
    /\ born \subseteq Jobs

TypeInv == TypeOK /\ \A s \in Places : Planned(req[s])

\* The stages that are left, and the one that is next.
LEMMA TodoFacts ==
    /\ Head(<<"jobs">>) = "jobs" /\ Tail(<<"jobs">>) = <<>> /\ Len(<<"jobs">>) = 1
    /\ Head(<<"status">>) = "status" /\ Tail(<<"status">>) = <<>> /\ Len(<<"status">>) = 1
    /\ Head(<<"jobs", "status">>) = "jobs" /\ Tail(<<"jobs", "status">>) = <<"status">>
    /\ Len(<<"jobs", "status">>) = 2
    /\ <<"jobs">> # <<>> /\ <<"status">> # <<>> /\ <<"jobs", "status">> # <<>>
    /\ <<"jobs">> # <<"status">> /\ <<"jobs">> # <<"jobs", "status">>
    /\ <<"status">> # <<"jobs", "status">>
  OBVIOUS

\* What is true of every kind of request when it begins.
LEMMA PlansBegin ==
    /\ NoRequest \in Requests /\ Planned(NoRequest) /\ NoRequest.op = "none"
    /\ \A j \in Jobs, c \in Lists \union {None} :
         /\ Planned(Request("create", j, TRUE, FALSE, c))
         /\ Planned(Request("note", j, TRUE, FALSE, None))
    /\ \A c \in Statuses : Planned(Request("announce", None, TRUE, TRUE, c))
    /\ \A Q \in SUBSET Jobs :
         LET r == [Request("pending", None, TRUE, TRUE, None) EXCEPT !.queued = Q] IN
         /\ r \in Requests /\ Planned(r)
         /\ r.op = "pending" /\ r.todo = <<"status">> /\ r.copy = None /\ r.queued = Q
    /\ \A j \in Jobs, ok \in BOOLEAN, d \in Nat :
         LET r == [Request("result", j, ok, TRUE, None) EXCEPT !.day = d] IN
         /\ r \in Requests /\ Planned(r)
         /\ r.op = "result" /\ r.todo = <<"jobs", "status">> /\ r.copy = None
         /\ r.job = j /\ r.ok = ok /\ r.bridge /\ r.day = d /\ r.queued = {}
<1>p. /\ Plan["create"] = <<"jobs">> /\ Plan["note"] = <<"jobs">> /\ Plan["announce"] = <<"status">>
      /\ Plan["pending"] = <<"status">> /\ Plan["result"] = <<"jobs", "status">>
  BY DEF Plan
<1>1. NoRequest \in Requests /\ Planned(NoRequest) /\ NoRequest.op = "none"
  BY DEF NoRequest, Requests, Planned, Todos
<1>2. ASSUME NEW j \in Jobs, NEW c \in Lists \union {None}
      PROVE  /\ Planned(Request("create", j, TRUE, FALSE, c))
             /\ Planned(Request("note", j, TRUE, FALSE, None))
  <2>1. LET r == Request("create", j, TRUE, FALSE, c) IN
        r.op = "create" /\ r.job = j /\ r.bridge = FALSE /\ r.copy = c /\ r.todo = <<"jobs">>
    BY <1>p DEF Request, Requests, Todos
  <2>2. LET r == Request("note", j, TRUE, FALSE, None) IN
        r.op = "note" /\ r.job = j /\ r.bridge = FALSE /\ r.copy = None /\ r.todo = <<"jobs">>
    BY <1>p DEF Request, Requests, Todos
  <2>3. QED
    BY <2>1, <2>2, TodoFacts DEF Planned
<1>3. ASSUME NEW c \in Statuses
      PROVE  Planned(Request("announce", None, TRUE, TRUE, c))
  <2>1. LET r == Request("announce", None, TRUE, TRUE, c) IN
        r.op = "announce" /\ r.copy = c /\ r.todo = <<"status">>
    BY <1>p DEF Request, Requests, Todos
  <2>2. QED
    BY <2>1, TodoFacts DEF Planned
<1>4. ASSUME NEW Q \in SUBSET Jobs
      PROVE  LET r == [Request("pending", None, TRUE, TRUE, None) EXCEPT !.queued = Q] IN
             /\ r \in Requests /\ Planned(r)
             /\ r.op = "pending" /\ r.todo = <<"status">> /\ r.copy = None /\ r.queued = Q
  <2>1. LET r == Request("pending", None, TRUE, TRUE, None) IN
        r \in Requests /\ r.op = "pending" /\ r.todo = <<"status">> /\ r.copy = None
    BY <1>p DEF Request, Requests, Todos
  <2>2. QED
    BY <2>1 DEF Requests, Planned
<1>5. ASSUME NEW j \in Jobs, NEW ok \in BOOLEAN, NEW d \in Nat
      PROVE  LET r == [Request("result", j, ok, TRUE, None) EXCEPT !.day = d] IN
             /\ r \in Requests /\ Planned(r)
             /\ r.op = "result" /\ r.todo = <<"jobs", "status">> /\ r.copy = None
             /\ r.job = j /\ r.ok = ok /\ r.bridge /\ r.day = d /\ r.queued = {}
  <2>1. LET r == Request("result", j, ok, TRUE, None) IN
        /\ r \in Requests /\ r.op = "result" /\ r.todo = <<"jobs", "status">> /\ r.copy = None
        /\ r.job = j /\ r.ok = ok /\ r.bridge = TRUE /\ r.queued = {}
    BY <1>p DEF Request, Requests, Todos
  <2>2. QED
    BY <2>1 DEF Requests, Planned
<1>6. QED
  BY <1>1, <1>2, <1>3, <1>4, <1>5

\* A request arrives in a slot that is free.
LEMMA BeginState ==
    ASSUME TypeInv, NEW s \in Places, NEW r \in Requests, Planned(r), Begin(s, r)
    PROVE  /\ UNCHANGED <<jobs, vstatus, files, dry, today, announced, faults, raced, stale>>
           /\ req[s] = NoRequest
           /\ req' \in [Places -> Requests] /\ req'[s] = r
           /\ \A t \in Places \ {s} : req'[t] = req[t]
           /\ \A t \in Places : Planned(req'[t])
<1>1. /\ req' = [req EXCEPT ![s] = r] /\ req[s] = NoRequest
      /\ UNCHANGED <<jobs, vstatus, files, dry, today, announced, faults, raced, stale>>
  BY DEF Begin, Free, server
<1>2. QED
  BY <1>1 DEF TypeInv, TypeOK

\* A stage of a request is done.
LEMMA PassState ==
    ASSUME TypeInv, NEW s \in Places, Stage(s) \in {"jobs", "status"}, Passes(s)
    PROVE  /\ UNCHANGED <<booting, files, dry, today, born, faults, stale>>
           /\ req' \in [Places -> Requests] /\ \A t \in Places : Planned(req'[t])
           /\ \A t \in Places \ {s} : req'[t] = req[t]
           /\ \/ /\ req[s].op = "result" /\ Stage(s) = "jobs" /\ work' = work
                 /\ req'[s].op = "result" /\ req'[s].job = req[s].job
                 /\ req'[s].ok = req[s].ok /\ req'[s].day = req[s].day
                 /\ req'[s].bridge = req[s].bridge
                 /\ req'[s].copy = None /\ req'[s].todo = <<"status">>
              \/ /\ req'[s] = NoRequest \/ (req'[s].op = "pending" /\ req'[s].todo = <<>>
                                             /\ req'[s].copy = None)
                 /\ req[s].op = "result" => Stage(s) = "status"
                 /\ IF req[s].bridge /\ req[s].op = "result"
                    THEN work' = [work EXCEPT ![req[s].job] = "idle"]
                    ELSE work' = work
           /\ work' \in [Jobs -> Works]
           /\ req'[s].queued \subseteq req[s].queued
<1> DEFINE r == req[s]
           next == IF Len(r.todo) = 1 /\ ~(r.bridge /\ r.op = "pending")
                   THEN NoRequest ELSE [r EXCEPT !.todo = Tail(@), !.copy = None]
<1>t. r \in Requests /\ Planned(r) /\ work \in [Jobs -> Works] /\ req \in [Places -> Requests]
  BY DEF TypeInv, TypeOK
<1>s. /\ r.todo \in {<<"jobs">>, <<"status">>, <<"jobs", "status">>}
      /\ Stage(s) = Head(r.todo)
  BY <1>t DEF Stage, Requests, Todos
<1>1. /\ req' = [req EXCEPT ![s] = next]
      /\ work' = IF Len(r.todo) = 1 /\ r.bridge /\ r.op = "result"
                 THEN [work EXCEPT ![r.job] = "idle"] ELSE work
      /\ UNCHANGED <<booting, files, dry, today, born, faults, stale>>
  BY DEF Passes
<1>o. r.op \in {"create", "note", "pending", "result", "announce"}
  BY <1>t, <1>s, TodoFacts DEF Requests, Planned
<1>2. CASE r.todo = <<"jobs", "status">>
  <2>1. r.op = "result"
    BY <1>t, <1>o, <1>2, TodoFacts DEF Planned
  <2>2. next = [r EXCEPT !.todo = <<"status">>, !.copy = None] /\ work' = work
    BY <1>1, <1>2, TodoFacts
  <2>3. /\ next \in Requests
        /\ next.op = r.op /\ next.job = r.job /\ next.ok = r.ok /\ next.day = r.day
        /\ next.bridge = r.bridge /\ next.copy = None /\ next.todo = <<"status">>
        /\ next.queued = r.queued
    <3>1. <<"status">> \in Todos
      BY DEF Todos
    <3> HIDE DEF r
    <3>2. QED
      BY <1>t, <2>2, <3>1 DEF Requests
  <2>4. Planned(next)
    BY <1>t, <2>1, <2>3, TodoFacts DEF Planned
  <2>5. Stage(s) = "jobs"
    BY <1>s, <1>2, TodoFacts
  <2> HIDE DEF next
  <2>6. QED
    BY <1>1, <1>t, <2>1, <2>2, <2>3, <2>4, <2>5 DEF TypeInv
<1>3. CASE r.todo \in {<<"jobs">>, <<"status">>}
  <2>1. Len(r.todo) = 1 /\ Tail(r.todo) = <<>>
    BY <1>3, TodoFacts
  <2>2. r.op = "result" => Stage(s) = "status" /\ r.job \in Jobs
    BY <1>t, <1>s, <1>3, TodoFacts DEF Planned
  <2>3. /\ next \in Requests /\ Planned(next)
        /\ next = NoRequest \/ (next.op = "pending" /\ next.todo = <<>> /\ next.copy = None)
        /\ next.queued \subseteq r.queued
    <3>1. CASE ~(r.bridge /\ r.op = "pending")
      BY <2>1, <3>1, PlansBegin DEF NoRequest
    <3>2. CASE r.op = "pending" /\ r.bridge
      <4>1. next = [r EXCEPT !.todo = <<>>, !.copy = None]
        BY <2>1, <3>2
      <4>2. /\ next \in Requests
            /\ next.op = "pending" /\ next.todo = <<>> /\ next.copy = None
            /\ next.queued = r.queued
        <5>1. <<>> \in Todos
          BY DEF Todos
        <5> HIDE DEF r
        <5>2. QED
          BY <1>t, <3>2, <4>1, <5>1 DEF Requests
      <4>3. QED
        BY <4>2, TodoFacts DEF Planned
    <3>3. QED
      BY <3>1, <3>2
  <2>4. IF r.bridge /\ r.op = "result" THEN work' = [work EXCEPT ![r.job] = "idle"]
                                       ELSE work' = work
    BY <1>1, <2>1
  <2>5. work' \in [Jobs -> Works]
    BY <1>t, <2>2, <2>4 DEF Works
  <2> HIDE DEF next
  <2>6. QED
    BY <1>1, <1>t, <2>2, <2>3, <2>4, <2>5 DEF TypeInv
<1>4. QED
  BY <1>s, <1>2, <1>3

\* The get of a document.
LEMMA ReadState ==
    ASSUME TypeInv, NEW s \in Places, Read(s)
    PROVE  /\ UNCHANGED <<jobs, vstatus, work, booting, files, dry, today, born, announced,
                          faults, raced, stale>>
           /\ Stage(s) \in {"jobs", "status"} /\ req[s].copy = None
           /\ req' \in [Places -> Requests] /\ \A t \in Places : Planned(req'[t])
           /\ \A t \in Places \ {s} : req'[t] = req[t]
           /\ req'[s] = [req[s] EXCEPT !.copy = req'[s].copy]
           /\ req'[s].copy = Document(Stage(s))
           /\ req'[s].op = req[s].op /\ req'[s].todo = req[s].todo /\ req'[s].job = req[s].job
           /\ req'[s].ok = req[s].ok /\ req'[s].bridge = req[s].bridge
           /\ req'[s].day = req[s].day /\ req'[s].queued = req[s].queued
<1> DEFINE d == Document(Stage(s))
<1>1. /\ req' = [req EXCEPT ![s].copy = d]
      /\ Stage(s) \in {"jobs", "status"} /\ req[s].copy = None
      /\ UNCHANGED <<jobs, vstatus, work, booting, files, dry, today, born, announced,
                     faults, raced, stale>>
  BY DEF Read, server, bridge
<1>2. d \in Lists \union Statuses /\ d \in IF Head(req[s].todo) = "jobs" THEN Lists ELSE Statuses
  BY <1>1 DEF TypeInv, TypeOK, Document, Stage
<1> HIDE DEF d
<1>3. req[s] \in Requests /\ Planned(req[s]) /\ req \in [Places -> Requests]
  BY DEF TypeInv, TypeOK
<1>4. LET r == [req[s] EXCEPT !.copy = d] IN
      /\ r \in Requests /\ r.copy = d
      /\ r.op = req[s].op /\ r.todo = req[s].todo /\ r.job = req[s].job
      /\ r.ok = req[s].ok /\ r.bridge = req[s].bridge
      /\ r.day = req[s].day /\ r.queued = req[s].queued
  BY <1>2, <1>3 DEF Requests
<1>5. Planned([req[s] EXCEPT !.copy = d])
  BY <1>2, <1>3, <1>4 DEF Planned
<1>6. req'[s] = [req[s] EXCEPT !.copy = d] /\ \A t \in Places \ {s} : req'[t] = req[t]
  BY <1>1, <1>3
<1>7. req' \in [Places -> Requests]
  BY <1>1, <1>3, <1>4
<1>8. QED
  BY <1>1, <1>3, <1>4, <1>5, <1>6, <1>7 DEF TypeInv, d

\* The set of the list.
LEMMA WriteJobsState ==
    ASSUME TypeInv, NEW s \in Places, WriteJobs(s)
    PROVE  /\ Stage(s) = "jobs" /\ Passes(s)
           /\ UNCHANGED <<vstatus, announced>>
           /\ req[s].job \in Jobs /\ req[s].op \in {"create", "note", "result"}
           /\ req[s].copy \in Lists
           /\ jobs' = [req[s].copy EXCEPT ![req[s].job] =
                         IF req[s].op # "result" THEN "queued"
                         ELSE IF req[s].ok THEN "done" ELSE "error"]
           /\ jobs' \in Lists
           /\ raced' = IF req[s].copy = jobs THEN raced ELSE raced \union {"jobs"}
<1>1. /\ Stage(s) = "jobs" /\ req[s].copy # None /\ jobs' = Stored(req[s]) /\ Passes(s)
      /\ UNCHANGED <<vstatus, announced>>
      /\ raced' = IF req[s].copy = jobs THEN raced ELSE raced \union {"jobs"}
  BY DEF WriteJobs
<1>2. req[s] \in Requests /\ Planned(req[s]) /\ req[s].todo # <<>> /\ Head(req[s].todo) = "jobs"
  BY <1>1 DEF TypeInv, TypeOK, Stage
<1>3. req[s].copy \in Lists
  BY <1>1, <1>2 DEF Planned
<1>4. req[s].op \in {"create", "note", "result"} /\ req[s].job \in Jobs
  BY <1>2, TodoFacts DEF Planned, Requests
<1>5. QED
  BY <1>1, <1>3, <1>4 DEF Stored, Lists

\* The set of the status document.
LEMMA WriteStatusState ==
    ASSUME TypeInv, NEW s \in Places, WriteStatus(s)
    PROVE  /\ Stage(s) = "status" /\ Passes(s)
           /\ UNCHANGED jobs
           /\ vstatus' = Updated(req[s]) /\ vstatus' \in Statuses
           /\ raced' = IF req[s].copy = vstatus THEN raced ELSE raced \union {"status"}
           /\ announced' = (announced \/ req[s].op = "announce")
           /\ vstatus'.enabled \in {req[s].copy.enabled, TRUE}
           /\ req[s].op = "announce" => vstatus'.enabled
<1>1. /\ Stage(s) = "status" /\ req[s].copy # None /\ vstatus' = Updated(req[s]) /\ Passes(s)
      /\ UNCHANGED jobs
      /\ raced' = IF req[s].copy = vstatus THEN raced ELSE raced \union {"status"}
      /\ announced' = (announced \/ req[s].op = "announce")
  BY DEF WriteStatus
<1>2. req[s] \in Requests /\ Planned(req[s]) /\ req[s].todo # <<>> /\ Head(req[s].todo) = "status"
  BY <1>1 DEF TypeInv, TypeOK, Stage
<1>3. req[s].copy \in Statuses
  BY <1>1, <1>2 DEF Planned
<1>4. CASE Counts(req[s])
  <2>1. Updated(req[s]) = [req[s].copy EXCEPT !.day = req[s].day,
              !.writes = IF req[s].copy.day = req[s].day THEN CountUp(@) ELSE 1]
    BY <1>4 DEF Updated
  <2> DEFINE c == req[s].copy
             w == IF c.day = req[s].day THEN CountUp(c.writes) ELSE 1
  <2>2. c \in Statuses /\ req[s].day \in Nat /\ w \in Nat
    BY <1>2, <1>3, BoundAssumption DEF Requests, Statuses, CountUp
  <2>3. Updated(req[s]) = [c EXCEPT !.day = req[s].day, !.writes = w]
    BY <2>1, Zenon
  <2> HIDE DEF c, w
  <2>a. Updated(req[s]) \in Statuses /\ Updated(req[s]).enabled = c.enabled
    BY <2>2, <2>3 DEF Statuses
  <2>4. req[s].op # "announce"
    BY <1>4 DEF Counts
  <2>5. QED
    BY <1>1, <2>a, <2>4 DEF c
<1>5. CASE ~Counts(req[s]) /\ req[s].op = "announce"
  <2>1. Updated(req[s]) = [req[s].copy EXCEPT !.enabled = TRUE]
    BY <1>5 DEF Updated
  <2>2. Updated(req[s]) \in Statuses /\ Updated(req[s]).enabled = TRUE
    BY <1>3, <2>1 DEF Statuses
  <2>3. QED
    BY <1>1, <2>2
<1>6. CASE ~Counts(req[s]) /\ req[s].op # "announce"
  <2>1. Updated(req[s]) = req[s].copy
    BY <1>6 DEF Updated
  <2>2. QED
    BY <1>1, <1>3, <1>6, <2>1
<1>7. QED
  BY <1>4, <1>5, <1>6

\* The requests of the users: a job is created, or a note is dropped.
LEMMA CreateState ==
    ASSUME TypeInv, NEW s \in Slots, NEW j \in Jobs, Create(s, j) \/ Note(s, j)
    PROVE  /\ UNCHANGED <<jobs, vstatus, work, booting, files, dry, today, announced, faults, raced, stale>>
           /\ j \notin born /\ born' = born \union {j}
           /\ req[s] = NoRequest
           /\ req' \in [Places -> Requests] /\ \A t \in Places : Planned(req'[t])
           /\ \A t \in Places \ {s} : req'[t] = req[t]
           /\ \/ req'[s] = NoRequest
              \/ /\ req'[s].op \in {"create", "note"} /\ req'[s].job = j /\ req'[s].todo = <<"jobs">>
                 /\ req'[s].copy \in {None, jobs} /\ req'[s].bridge = FALSE
                 /\ req'[s].queued = {}
<1>s. s \in Places /\ jobs \in Lists
  BY DEF Places, TypeInv, TypeOK
<1> DEFINE c == Request("create", j, TRUE, FALSE, jobs)
           n == Request("note", j, TRUE, FALSE, None)
<1>1. /\ c \in Requests /\ Planned(c) /\ c.op = "create" /\ c.job = j /\ c.copy = jobs
      /\ c.bridge = FALSE /\ c.todo = <<"jobs">> /\ c.queued = {}
      /\ n \in Requests /\ Planned(n) /\ n.op = "note" /\ n.job = j /\ n.copy = None
      /\ n.bridge = FALSE /\ n.todo = <<"jobs">> /\ n.queued = {}
  BY <1>s, PlansBegin DEF Request, Plan, Requests, Todos
<1>2. j \notin born /\ born' = born \union {j} /\ UNCHANGED <<work, booting>>
  BY DEF Create, Note
<1>3. Begin(s, c) \/ Begin(s, n) \/ Begin(s, NoRequest)
  BY DEF Create, Note
<1> HIDE DEF c, n
<1>4. QED
  BY <1>s, <1>1, <1>2, <1>3, BeginState, PlansBegin

\* The bridge announces the vault.
LEMMA AnnounceState ==
    ASSUME TypeInv, NEW s \in Slots, Announce(s)
    PROVE  /\ UNCHANGED <<jobs, vstatus, work, files, dry, today, born, announced, faults, raced, stale>>
           /\ booting' \in BOOLEAN
           /\ req[s] = NoRequest
           /\ req' \in [Places -> Requests] /\ \A t \in Places : Planned(req'[t])
           /\ \A t \in Places \ {s} : req'[t] = req[t]
           /\ req'[s].op = "announce" /\ req'[s].copy = vstatus /\ req'[s].todo = <<"status">>
           /\ req'[s].queued = {}
<1>s. s \in Places /\ vstatus \in Statuses
  BY DEF Places, TypeInv, TypeOK
<1> DEFINE r == Request("announce", None, TRUE, TRUE, vstatus)
<1>1. r \in Requests /\ Planned(r) /\ r.op = "announce" /\ r.copy = vstatus /\ r.todo = <<"status">>
      /\ r.queued = {}
  BY <1>s, PlansBegin DEF Request, Plan, Requests, Todos
<1>2. Begin(s, r) /\ booting' = FALSE /\ UNCHANGED <<work, born>>
  BY DEF Announce
<1> HIDE DEF r
<1>3. QED
  BY <1>s, <1>1, <1>2, BeginState

\* The bridge polls.
LEMMA PollState ==
    ASSUME TypeInv, Poll
    PROVE  /\ UNCHANGED <<jobs, vstatus, work, booting, files, dry, today, born, announced,
                          faults, raced, stale>>
           /\ req' \in [Places -> Requests] /\ \A t \in Places : Planned(req'[t])
           /\ \A t \in Places \ {Poller} : req'[t] = req[t]
           /\ req'[Poller].op = "pending" /\ req'[Poller].copy = None
           /\ req'[Poller].todo = <<"status">>
           /\ req'[Poller].queued = {j \in Jobs : jobs[j] = "queued"} /\ req[Poller] = NoRequest
<1>s. Poller \in Places
  BY DEF Places
<1> DEFINE Q == {j \in Jobs : jobs[j] = "queued"}
           r == [Request("pending", None, TRUE, TRUE, None) EXCEPT !.queued = Q]
<1>1. r \in Requests /\ Planned(r) /\ r.op = "pending" /\ r.copy = None /\ r.todo = <<"status">>
      /\ r.queued = Q
  BY PlansBegin
<1>2. Begin(Poller, r) /\ UNCHANGED <<work, booting, born>>
  BY DEF Poll
<1> HIDE DEF r
<1>3. QED
  BY <1>s, <1>1, <1>2, BeginState

\* A job's outcome is posted.
LEMMA ReportState ==
    ASSUME TypeInv, NEW s \in Slots, NEW j \in Jobs, Report(s, j)
    PROVE  /\ UNCHANGED <<jobs, vstatus, booting, files, dry, today, born, announced,
                          faults, raced, stale>>
           /\ req[s] = NoRequest /\ work[j] \in {"ok", "error"}
           /\ req' \in [Places -> Requests] /\ \A t \in Places : Planned(req'[t])
           /\ \A t \in Places \ {s} : req'[t] = req[t]
           /\ work' \in [Jobs -> Works]
           /\ \A i \in Jobs \ {j} : work'[i] = work[i]
           /\ \/ /\ jobs[j] = "absent" /\ req'[s] = NoRequest
                 /\ work'[j] = AfterFailure(work[j])
              \/ /\ jobs[j] # "absent"
                 /\ req'[s].op = "result" /\ req'[s].job = j /\ req'[s].copy = None
                 /\ req'[s].todo = <<"jobs", "status">> /\ req'[s].bridge
                 /\ req'[s].ok <=> work[j] = "ok"
                 /\ req'[s].day = today /\ req'[s].queued = {}
                 /\ work'[j] = IF work[j] = "ok" THEN "okSent" ELSE "errorSent"
<1>s. s \in Places /\ today \in Nat /\ work \in [Jobs -> Works] /\ work[j] \in {"ok", "error"}
  BY DEF Places, TypeInv, TypeOK, Report
<1>1. CASE jobs[j] = "absent"
  <2>1. Begin(s, NoRequest) /\ work' = [work EXCEPT ![j] = AfterFailure(@)] /\ UNCHANGED <<booting, born>>
    BY <1>1 DEF Report
  <2>2. AfterFailure(work[j]) \in Works
    BY <1>s DEF AfterFailure, Works
  <2>3. QED
    BY <1>s, <1>1, <2>1, <2>2, BeginState, PlansBegin
<1>2. CASE jobs[j] # "absent"
  <2> DEFINE ok == work[j] = "ok"
             r == [Request("result", j, ok, TRUE, None) EXCEPT !.day = today]
  <2>1. /\ r \in Requests /\ Planned(r)
        /\ r.op = "result" /\ r.todo = <<"jobs", "status">> /\ r.copy = None
        /\ r.job = j /\ r.ok = ok /\ r.bridge /\ r.day = today /\ r.queued = {}
    <3>1. /\ Plan["result"] = <<"jobs", "status">> /\ <<"jobs", "status">> \in Todos
          /\ ok \in BOOLEAN
      BY DEF Plan, Todos
    <3> HIDE DEF ok
    <3>2. LET q == Request("result", j, ok, TRUE, None) IN
          /\ q \in Requests /\ q.op = "result" /\ q.todo = <<"jobs", "status">> /\ q.copy = None
          /\ q.job = j /\ q.ok = ok /\ q.bridge = TRUE /\ q.queued = {}
      BY <3>1 DEF Request, Requests
    <3>3. QED
      BY <1>s, <3>2 DEF Requests, Planned
  <2>2. /\ Begin(s, r) /\ UNCHANGED <<booting, born>>
        /\ work' = [work EXCEPT ![j] = IF @ = "ok" THEN "okSent" ELSE "errorSent"]
    BY <1>2 DEF Report
  <2>3. r.ok <=> work[j] = "ok"
    BY <2>1
  <2> HIDE DEF r
  <2>4. QED
    BY <1>s, <1>2, <2>1, <2>2, <2>3, BeginState DEF Works
<1>3. QED
  BY <1>1, <1>2

\* A poll's answer starts jobs.
LEMMA ReceiveState ==
    ASSUME TypeInv, Receive
    PROVE  /\ UNCHANGED <<jobs, vstatus, booting, files, dry, today, born, announced, faults, raced>>
           /\ req' \in [Places -> Requests] /\ \A t \in Places : Planned(req'[t])
           /\ \A t \in Places \ {Poller} : req'[t] = req[t]
           /\ req'[Poller] = NoRequest
           /\ stale' = (stale \/ \E j \in Jobs : /\ j \in req[Poller].queued
                                                 /\ work[j] = "idle" /\ jobs[j] # "queued")
           /\ work' \in [Jobs -> Works]
           /\ \A j \in Jobs :
                work'[j] = IF j \in req[Poller].queued /\ work[j] = "idle" THEN "execute" ELSE work[j]
<1>s. Poller \in Places /\ work \in [Jobs -> Works] /\ req \in [Places -> Requests]
  BY DEF Places, TypeInv, TypeOK
<1>q. req[Poller].queued \subseteq Jobs
  BY <1>s DEF Requests
<1> DEFINE started == {j \in req[Poller].queued : Startable(j)}
<1>1. /\ work' = [j \in Jobs |-> IF j \in started THEN "execute" ELSE work[j]]
      /\ stale' = (stale \/ \E j \in started : jobs[j] # "queued")
      /\ req' = [req EXCEPT ![Poller] = NoRequest]
      /\ UNCHANGED <<jobs, vstatus, booting, files, dry, today, born, announced, faults, raced>>
  BY DEF Receive, Acts, server
<1>2. \A j \in Jobs :
        work'[j] = IF j \in req[Poller].queued /\ work[j] = "idle" THEN "execute" ELSE work[j]
  BY <1>1 DEF Startable
<1>3. work' \in [Jobs -> Works]
  BY <1>s, <1>1 DEF Works
<1>4. stale' = (stale \/ \E j \in Jobs : /\ j \in req[Poller].queued
                                         /\ work[j] = "idle" /\ jobs[j] # "queued")
  BY <1>1, <1>q DEF Startable
<1>5. /\ req' \in [Places -> Requests] /\ req'[Poller] = NoRequest
      /\ \A t \in Places \ {Poller} : req'[t] = req[t]
  BY <1>1, <1>s, PlansBegin
<1>6. \A t \in Places : Planned(req'[t])
  BY <1>5, PlansBegin DEF TypeInv
<1>7. QED
  BY <1>1, <1>2, <1>3, <1>4, <1>5, <1>6

\* A job is executed.
LEMMA ExecuteState ==
    ASSUME TypeInv, NEW j \in Jobs, Execute(j)
    PROVE  /\ UNCHANGED <<jobs, vstatus, req, booting, dry, today, born, announced, faults, raced, stale>>
           /\ work[j] = "execute" /\ ResolveVaultPath(Target[j]) # NoPath
           /\ work' = [work EXCEPT ![j] = "ok"] /\ work' \in [Jobs -> Works]
           /\ files' \in [Jobs -> [path : Paths, times : 0..Top]]
           /\ \A i \in Jobs \ {j} : files'[i] = files[i]
           /\ IF dry \/ j \in ReadJobs THEN files' = files
              ELSE /\ files'[j].path = ResolveVaultPath(Target[j])
                   /\ files'[j].times = CountUp(files[j].times)
                   /\ files'[j].times > 0
<1> DEFINE f == [path  |-> ResolveVaultPath(Target[j]), times |-> CountUp(files[j].times)]
<1>1. /\ work[j] = "execute" /\ ResolveVaultPath(Target[j]) # NoPath
      /\ work' = [work EXCEPT ![j] = "ok"]
      /\ files' = IF dry \/ j \in ReadJobs THEN files ELSE [files EXCEPT ![j] = f]
      /\ UNCHANGED <<jobs, vstatus, req, booting, dry, today, born, announced, faults, raced, stale>>
  BY DEF Execute, Touches, Acts, server
<1>2. /\ work \in [Jobs -> Works] /\ files \in [Jobs -> [path : Paths, times : 0..Top]]
  BY DEF TypeInv, TypeOK
<1>3. /\ f \in [path : Paths, times : 0..Top] /\ f.times > 0
      /\ f.path = ResolveVaultPath(Target[j]) /\ f.times = CountUp(files[j].times)
  <2>1. CountUp(files[j].times) \in 0..Top /\ CountUp(files[j].times) > 0
    <3>1. files[j].times \in 0..Top /\ Top \in Nat /\ Top > 1
      BY <1>2, BoundAssumption
    <3>2. QED
      BY <3>1 DEF CountUp
  <2>2. ResolveVaultPath(Target[j]) \in Paths
    BY DEF Paths
  <2>3. QED
    BY <2>1, <2>2
<1> HIDE DEF f
<1>4. work' \in [Jobs -> Works]
  BY <1>1, <1>2 DEF Works
<1>5. QED
  BY <1>1, <1>2, <1>3, <1>4

\* A job's execution fails.
LEMMA ExecuteFailsState ==
    ASSUME TypeInv, NEW j \in Jobs, ExecuteFails(j)
    PROVE  /\ UNCHANGED <<jobs, vstatus, req, booting, files, dry, today, born, announced,
                          faults, raced, stale>>
           /\ work[j] = "execute"
           /\ work' = [work EXCEPT ![j] = "error"] /\ work' \in [Jobs -> Works]
  BY DEF ExecuteFails, Acts, server, TypeInv, TypeOK, Works

\* A request that goes on without its caller.
LEMMA OrphanFacts ==
    ASSUME NEW r \in Requests, Planned(r)
    PROVE  /\ Orphaned(r) \in Requests /\ Planned(Orphaned(r))
           /\ \/ Orphaned(r) = NoRequest
              \/ /\ Orphaned(r).op = r.op /\ Orphaned(r).todo = r.todo
                 /\ Orphaned(r).job = r.job /\ Orphaned(r).ok = r.ok /\ Orphaned(r).day = r.day
                 /\ Orphaned(r).copy = r.copy /\ Orphaned(r).queued = r.queued
                 /\ Orphaned(r).bridge = FALSE
<1>1. CASE r.todo = <<>>
  BY <1>1, PlansBegin DEF Orphaned
<1>2. CASE r.todo # <<>>
  <2>1. Orphaned(r) = [r EXCEPT !.bridge = FALSE]
    BY <1>2 DEF Orphaned
  <2>2. /\ Orphaned(r) \in Requests
        /\ Orphaned(r).op = r.op /\ Orphaned(r).todo = r.todo
        /\ Orphaned(r).job = r.job /\ Orphaned(r).ok = r.ok /\ Orphaned(r).day = r.day
        /\ Orphaned(r).copy = r.copy /\ Orphaned(r).queued = r.queued
        /\ Orphaned(r).bridge = FALSE
    BY <2>1 DEF Requests
  <2>3. Planned(Orphaned(r))
    BY <2>2 DEF Planned
  <2>4. QED
    BY <2>2, <2>3
<1>3. QED
  BY <1>1, <1>2

\* A request is lost, or its caller gives up waiting.
LEMMA LoseState ==
    ASSUME TypeInv, NEW s \in Places, Lose(s)
    PROVE  /\ UNCHANGED <<jobs, vstatus, booting, files, dry, today, born, announced, raced, stale>>
           /\ faults' = faults + 1
           /\ req[s] # NoRequest
           /\ req' \in [Places -> Requests] /\ \A t \in Places : Planned(req'[t])
           /\ \A t \in Places \ {s} : req'[t] = req[t]
           /\ \/ req'[s] = NoRequest
              \/ /\ req'[s].op = req[s].op /\ req'[s].todo = req[s].todo
                 /\ req'[s].job = req[s].job /\ req'[s].ok = req[s].ok
                 /\ req'[s].copy = req[s].copy /\ req'[s].bridge = FALSE
           /\ work' \in [Jobs -> Works]
           /\ \A j \in Jobs : work'[j] \in {work[j], AfterFailure(work[j])}
<1>1. /\ req[s] # NoRequest /\ faults' = faults + 1
      /\ \E r \in {NoRequest} \union (IF req[s].bridge THEN {Orphaned(req[s])} ELSE {}) :
           req' = [req EXCEPT ![s] = r]
      /\ work' = [j \in Jobs |-> IF req[s].bridge /\ req[s].job = j
                                 THEN AfterFailure(work[j]) ELSE work[j]]
      /\ UNCHANGED <<jobs, vstatus, booting, files, dry, today, born, announced, raced, stale>>
  BY DEF Lose, Acts, server, Free
<1>2. /\ req \in [Places -> Requests] /\ req[s] \in Requests /\ Planned(req[s])
      /\ work \in [Jobs -> Works] /\ \A t \in Places : Planned(req[t])
  BY DEF TypeInv, TypeOK
<1>3. PICK r \in {NoRequest, Orphaned(req[s])} : req' = [req EXCEPT ![s] = r]
  BY <1>1
<1>o. Orphaned(req[s]) \in Requests /\ Planned(Orphaned(req[s]))
  BY <1>2, OrphanFacts
<1>4. r \in Requests /\ Planned(r)
  BY <1>3, <1>o, PlansBegin
<1>5. /\ req' \in [Places -> Requests] /\ req'[s] = r
      /\ \A t \in Places \ {s} : req'[t] = req[t]
  BY <1>2, <1>3, <1>4
<1>6. /\ work' \in [Jobs -> Works]
      /\ \A j \in Jobs : work'[j] \in {work[j], AfterFailure(work[j])}
  BY <1>1, <1>2 DEF AfterFailure, Works
<1>7. \/ r = NoRequest
      \/ /\ r.op = req[s].op /\ r.todo = req[s].todo /\ r.job = req[s].job
         /\ r.ok = req[s].ok /\ r.copy = req[s].copy /\ r.bridge = FALSE
  <2> DEFINE o == Orphaned(req[s])
  <2>1. \/ o = NoRequest
        \/ /\ o.op = req[s].op /\ o.todo = req[s].todo /\ o.job = req[s].job
           /\ o.ok = req[s].ok /\ o.copy = req[s].copy /\ o.bridge = FALSE
    BY <1>2, OrphanFacts, Zenon
  <2>2. r = NoRequest \/ r = o
    BY <1>3
  <2> HIDE DEF o
  <2>3. QED
    BY <2>1, <2>2
<1>8. \A t \in Places : Planned(req'[t])
  BY <1>2, <1>4, <1>5
<1>9. QED
  BY <1>1, <1>5, <1>6, <1>7, <1>8

\* The bridge starts again.
LEMMA RestartState ==
    ASSUME TypeInv, Restart
    PROVE  /\ UNCHANGED <<jobs, vstatus, files, dry, today, born, announced, raced, stale>>
           /\ faults' = faults + 1 /\ booting' = TRUE
           /\ req' \in [Places -> Requests] /\ \A t \in Places : Planned(req'[t])
           /\ \A t \in Places :
                \/ req'[t] \in {req[t], NoRequest}
                \/ /\ req'[t].op = req[t].op /\ req'[t].todo = req[t].todo
                   /\ req'[t].job = req[t].job /\ req'[t].ok = req[t].ok
                   /\ req'[t].copy = req[t].copy /\ req'[t].bridge = FALSE
           /\ work' = [j \in Jobs |-> "idle"] /\ work' \in [Jobs -> Works]
<1>1. /\ faults' = faults + 1 /\ booting' = TRUE
      /\ req' = [s \in Places |-> IF req[s].bridge THEN Orphaned(req[s]) ELSE req[s]]
      /\ work' = [j \in Jobs |-> "idle"]
      /\ UNCHANGED <<jobs, vstatus, files, dry, today, born, announced, raced, stale>>
  BY DEF Restart, server
<1>2. \A t \in Places : req[t] \in Requests /\ Planned(req[t])
  BY DEF TypeInv, TypeOK
<1>3. \A t \in Places : req'[t] \in {req[t], Orphaned(req[t])}
  BY <1>1
<1>4. \A t \in Places : req'[t] \in Requests /\ Planned(req'[t])
  BY <1>2, <1>3, OrphanFacts
<1>5. req' \in [Places -> Requests]
  BY <1>1, <1>4
<1>6. work' \in [Jobs -> Works]
  BY <1>1 DEF Works
<1>7. QED
  BY <1>1, <1>2, <1>3, <1>4, <1>5, <1>6, OrphanFacts

\* A day passes.
LEMMA MidnightState ==
    ASSUME TypeInv, Midnight
    PROVE  /\ UNCHANGED <<jobs, vstatus, req, work, booting, files, dry, born, announced,
                          faults, raced, stale>>
           /\ today' \in Nat
  BY DEF Midnight, server, bridge, TypeInv, TypeOK

\* The steps, one by one.
LEMMA Steps ==
    ASSUME [Next]_vars
    PROVE  \/ \E s \in Slots, j \in Jobs : Create(s, j) \/ Note(s, j)
           \/ \E s \in Slots, j \in Jobs : Report(s, j)
           \/ \E s \in Slots : Announce(s)
           \/ Poll \/ Receive
           \/ \E s \in Places : Read(s) \/ WriteJobs(s) \/ WriteStatus(s) \/ Lose(s)
           \/ \E j \in Jobs : Execute(j) \/ ExecuteFails(j)
           \/ Restart \/ Midnight \/ UNCHANGED vars
  BY DEF Next, Serve

LEMMA TypeInit == Init => TypeInv
<1> SUFFICES ASSUME Init PROVE TypeInv
  OBVIOUS
<1>1. jobs \in Lists /\ vstatus \in Statuses
  BY DEF Init, NoStatus, Lists, Statuses
<1>2. req \in [Places -> Requests] /\ \A s \in Places : Planned(req[s])
  BY PlansBegin DEF Init
<1>3. files \in [Jobs -> [path : Paths, times : 0..Top]]
  BY BoundAssumption DEF Init, Paths
<1>4. QED
  BY <1>1, <1>2, <1>3 DEF Init, TypeInv, TypeOK, Works

LEMMA TypeStep == TypeInv /\ [Next]_vars => TypeInv'
<1> SUFFICES ASSUME TypeInv, [Next]_vars PROVE TypeInv'
  OBVIOUS
<1>t. TypeOK /\ \A s \in Places : Planned(req[s])
  BY DEF TypeInv
<1>p. Slots \subseteq Places
  BY DEF Places
<1> USE DEF TypeInv, TypeOK
<1>1. ASSUME NEW s \in Slots, NEW j \in Jobs, Create(s, j) \/ Note(s, j) PROVE TypeInv'
  <2>1. /\ UNCHANGED <<jobs, vstatus, work, booting, files, dry, today, announced, faults, stale>>
        /\ born' = born \union {j}
        /\ req' \in [Places -> Requests] /\ \A t \in Places : Planned(req'[t])
    BY <1>1, CreateState
  <2>2. QED
    BY <1>t, <2>1
<1>2. ASSUME NEW s \in Slots, NEW j \in Jobs, Report(s, j) PROVE TypeInv'
  BY <1>t, <1>2, ReportState
<1>3. ASSUME NEW s \in Slots, Announce(s) PROVE TypeInv'
  BY <1>t, <1>3, AnnounceState
<1>4. CASE Poll
  BY <1>t, <1>4, PollState
<1>5. CASE Receive
  BY <1>t, <1>5, ReceiveState
<1>6. ASSUME NEW s \in Places, Read(s) PROVE TypeInv'
  BY <1>t, <1>6, ReadState
<1>7. ASSUME NEW s \in Places, WriteJobs(s) PROVE TypeInv'
  BY <1>t, <1>7, WriteJobsState, PassState
<1>8. ASSUME NEW s \in Places, WriteStatus(s) PROVE TypeInv'
  <2>1. announced' \in BOOLEAN
    BY <1>t, <1>8, WriteStatusState
  <2>2. QED
    BY <1>t, <1>8, <2>1, WriteStatusState, PassState
<1>9. ASSUME NEW s \in Places, Lose(s) PROVE TypeInv'
  <2>1. faults' \in Nat
    BY <1>t, <1>9 DEF Lose
  <2>2. QED
    BY <1>t, <1>9, <2>1, LoseState
<1>10. ASSUME NEW j \in Jobs, Execute(j) \/ ExecuteFails(j) PROVE TypeInv'
  BY <1>t, <1>10, ExecuteState, ExecuteFailsState
<1>11. CASE Restart
  <2>1. faults' \in Nat /\ booting' \in BOOLEAN
    BY <1>t, <1>11 DEF Restart
  <2>2. QED
    BY <1>t, <1>11, <2>1, RestartState
<1>12. CASE Midnight
  BY <1>t, <1>12, MidnightState
<1>13. CASE UNCHANGED vars
  BY <1>t, <1>13 DEF vars, server, bridge
<1>14. QED
  BY <1>1, <1>2, <1>3, <1>4, <1>5, <1>6, <1>7, <1>8, <1>9, <1>10, <1>11, <1>12, <1>13, Steps

LEMMA TypeInvariant == Spec => []TypeInv
  BY TypeInit, TypeStep, PTL DEF Spec

-----------------------------------------------------------------------------
(* A success is never made up *)

\* The path was accepted and, unless nothing is to be written, the text is there.
Executed(j) ==
    /\ ResolveVaultPath(Target[j]) # NoPath
    /\ j \in ReadJobs \/ dry \/ files[j].times > 0

\* What a request will say or store.
Honest(r) ==
    /\ r.op = "result" /\ r.ok => Executed(r.job)
    /\ r.copy # None /\ r.todo # <<>> /\ Head(r.todo) = "jobs" =>
           \A j \in Jobs : r.copy[j] = "done" => Executed(j)

\* The list, the bridge, the posts on their way and every copy of the list say "done"
\* only of what was executed.
DoneInv ==
    /\ \A j \in Jobs : jobs[j] = "done" \/ work[j] \in {"ok", "okSent"} => Executed(j)
    /\ \A s \in Places : Honest(req[s])

\* What was executed stays executed.
LEMMA ExecutedStays ==
    ASSUME UNCHANGED <<files, dry>> PROVE \A j : Executed(j) => Executed(j)'
  BY DEF Executed

LEMMA DoneInit == Init => DoneInv
<1> SUFFICES ASSUME Init PROVE DoneInv
  OBVIOUS
<1>1. \A s \in Places : req[s].op = "none" /\ req[s].copy = None
  BY DEF Init, NoRequest
<1>2. QED
  BY <1>1 DEF Init, DoneInv, Honest

LEMMA DoneStep == TypeInv /\ DoneInv /\ [Next]_vars => DoneInv'
<1> SUFFICES ASSUME TypeInv, DoneInv, [Next]_vars PROVE DoneInv'
  OBVIOUS
<1>t. /\ \A j \in Jobs : jobs[j] = "done" \/ work[j] \in {"ok", "okSent"} => Executed(j)
      /\ \A s \in Places : Honest(req[s])
  BY DEF DoneInv
<1>y. /\ work \in [Jobs -> Works] /\ req \in [Places -> Requests] /\ jobs \in Lists
      /\ \A s \in Places : Planned(req[s])
      /\ files \in [Jobs -> [path : Paths, times : 0..Top]]
  BY DEF TypeInv, TypeOK
<1>p. Slots \subseteq Places /\ Poller \in Places
  BY DEF Places
<1>n. Honest(NoRequest)'
  BY DEF Honest, NoRequest
<1>k. ASSUME \A j : Executed(j) => Executed(j)', NEW t \in Places, req'[t] = req[t]
      PROVE  Honest(req[t])'
  BY <1>t, <1>k DEF Honest
<1>1. ASSUME NEW s \in Slots, NEW j \in Jobs, Create(s, j) \/ Note(s, j) PROVE DoneInv'
  <2>1. \A i : Executed(i) => Executed(i)'
    BY <1>1, CreateState, ExecutedStays
  <2>2. Honest(req[s])'
    <3>1. CASE req'[s] = NoRequest
      BY <1>n, <3>1
    <3>2. CASE /\ req'[s].op \in {"create", "note"} /\ req'[s].copy \in {None, jobs}
      BY <1>t, <2>1, <3>2 DEF Honest
    <3>3. QED
      BY <1>1, <3>1, <3>2, CreateState
  <2>3. QED
    BY <1>1, <1>t, <1>k, <1>p, <2>1, <2>2, CreateState DEF DoneInv
<1>2. ASSUME NEW s \in Slots, NEW j \in Jobs, Report(s, j) PROVE DoneInv'
  <2>1. \A i : Executed(i) => Executed(i)'
    BY <1>2, ReportState, ExecutedStays
  <2>2. Honest(req[s])'
    <3>1. CASE req'[s] = NoRequest
      BY <1>n, <3>1
    <3>2. CASE /\ req'[s].op = "result" /\ req'[s].job = j /\ req'[s].copy = None
               /\ req'[s].ok <=> work[j] = "ok"
      BY <1>t, <2>1, <3>2 DEF Honest
    <3>3. QED
      BY <1>2, <3>1, <3>2, ReportState
  <2>3. \A i \in Jobs : work'[i] \in {"ok", "okSent"} => Executed(i)
    <3>1. work'[j] \in {"ok", "okSent"} => Executed(j)
      BY <1>2, <1>t, ReportState DEF AfterFailure
    <3>2. QED
      BY <1>2, <1>t, <3>1, ReportState
  <2>4. QED
    BY <1>2, <1>t, <1>k, <1>p, <2>1, <2>2, <2>3, ReportState DEF DoneInv
<1>3. ASSUME NEW s \in Slots, Announce(s) PROVE DoneInv'
  <2>1. \A i : Executed(i) => Executed(i)'
    BY <1>3, AnnounceState, ExecutedStays
  <2>2. Honest(req[s])'
    BY <1>3, AnnounceState, TodoFacts DEF Honest
  <2>3. QED
    BY <1>3, <1>t, <1>k, <1>p, <2>1, <2>2, AnnounceState DEF DoneInv
<1>4. CASE Poll
  <2>1. \A i : Executed(i) => Executed(i)'
    BY <1>4, PollState, ExecutedStays
  <2>2. Honest(req[Poller])'
    BY <1>4, PollState DEF Honest
  <2>3. QED
    BY <1>4, <1>t, <1>k, <1>p, <2>1, <2>2, PollState DEF DoneInv
<1>5. CASE Receive
  <2>1. \A i : Executed(i) => Executed(i)'
    BY <1>5, ReceiveState, ExecutedStays
  <2>2. Honest(req[Poller])'
    BY <1>5, <1>n, ReceiveState
  <2>3. \A j \in Jobs : work'[j] \in {"ok", "okSent"} => Executed(j)
    BY <1>5, <1>t, ReceiveState
  <2>4. QED
    BY <1>5, <1>t, <1>k, <1>p, <2>1, <2>2, <2>3, ReceiveState DEF DoneInv
<1>6. ASSUME NEW s \in Places, Read(s) PROVE DoneInv'
  <2>1. \A i : Executed(i) => Executed(i)'
    BY <1>6, ReadState, ExecutedStays
  <2>2. Honest(req[s])'
    <3>1. /\ req'[s].copy = Document(Stage(s)) /\ req'[s].op = req[s].op
          /\ req'[s].todo = req[s].todo /\ req'[s].job = req[s].job /\ req'[s].ok = req[s].ok
      BY <1>6, ReadState
    <3>2. Head(req[s].todo) = "jobs" /\ req[s].todo # <<>> => Document(Stage(s)) = jobs
      BY DEF Document, Stage
    <3>3. QED
      BY <1>t, <2>1, <3>1, <3>2 DEF Honest
  <2>3. QED
    BY <1>6, <1>t, <1>k, <1>p, <2>1, <2>2, ReadState DEF DoneInv
<1>7. ASSUME NEW s \in Places, Stage(s) \in {"jobs", "status"}, Passes(s)
      PROVE  /\ \A i : Executed(i) => Executed(i)'
             /\ \A t \in Places : Honest(req[t])'
             /\ \A i \in Jobs : work'[i] \in {work[i], "idle"}
  <2>1. \A i : Executed(i) => Executed(i)'
    BY <1>7, PassState, ExecutedStays
  <2>2. Honest(req[s])'
    <3>1. CASE req'[s] = NoRequest
      BY <1>n, <3>1
    <3>2. CASE req'[s].op = "pending" /\ req'[s].copy = None
      BY <3>2 DEF Honest
    <3>3. CASE /\ req[s].op = "result" /\ req'[s].op = "result" /\ req'[s].job = req[s].job
               /\ req'[s].ok = req[s].ok /\ req'[s].copy = None
      BY <1>t, <2>1, <3>3 DEF Honest
    <3>4. QED
      BY <1>7, <3>1, <3>2, <3>3, PassState
  <2>3. \A i \in Jobs : work'[i] \in {work[i], "idle"}
    BY <1>7, <1>y, PassState
  <2>4. QED
    BY <1>7, <1>k, <2>1, <2>2, <2>3, PassState
<1>8. ASSUME NEW s \in Places, WriteJobs(s) PROVE DoneInv'
  <2>1. /\ \A i : Executed(i) => Executed(i)'
        /\ \A t \in Places : Honest(req[t])'
        /\ \A i \in Jobs : work'[i] \in {work[i], "idle"}
    BY <1>7, <1>8, WriteJobsState
  <2>2. \A i \in Jobs : jobs'[i] = "done" => Executed(i)
    <3>1. /\ req[s].copy \in Lists
          /\ jobs' = [req[s].copy EXCEPT ![req[s].job] =
                        IF req[s].op # "result" THEN "queued"
                        ELSE IF req[s].ok THEN "done" ELSE "error"]
      BY <1>8, WriteJobsState
    <3>2. \A i \in Jobs : req[s].copy[i] = "done" => Executed(i)
      <4>1. Stage(s) = "jobs" /\ req[s].copy # None
        BY <1>8 DEF WriteJobs
      <4>2. req[s].todo # <<>> /\ Head(req[s].todo) = "jobs"
        BY <4>1 DEF Stage
      <4>3. QED
        BY <1>t, <4>1, <4>2 DEF Honest
    <3>3. req[s].op = "result" /\ req[s].ok => Executed(req[s].job)
      BY <1>t DEF Honest
    <3>4. QED
      BY <3>1, <3>2, <3>3 DEF Lists
  <2>3. QED
    BY <1>t, <2>1, <2>2 DEF DoneInv
<1>9. ASSUME NEW s \in Places, WriteStatus(s) PROVE DoneInv'
  <2>1. /\ \A i : Executed(i) => Executed(i)'
        /\ \A t \in Places : Honest(req[t])'
        /\ \A i \in Jobs : work'[i] \in {work[i], "idle"}
    BY <1>7, <1>9, WriteStatusState
  <2>2. QED
    BY <1>9, <1>t, <2>1, WriteStatusState DEF DoneInv
<1>10. ASSUME NEW s \in Places, Lose(s) PROVE DoneInv'
  <2>1. \A i : Executed(i) => Executed(i)'
    BY <1>10, LoseState, ExecutedStays
  <2>2. Honest(req[s])'
    <3>1. CASE req'[s] = NoRequest
      BY <1>n, <3>1
    <3>2. CASE /\ req'[s].op = req[s].op /\ req'[s].todo = req[s].todo
               /\ req'[s].job = req[s].job /\ req'[s].ok = req[s].ok /\ req'[s].copy = req[s].copy
      BY <1>t, <2>1, <3>2 DEF Honest
    <3>3. QED
      BY <1>10, <3>1, <3>2, LoseState
  <2>3. \A j \in Jobs : work'[j] \in {"ok", "okSent"} => Executed(j)
    BY <1>10, <1>t, LoseState DEF AfterFailure
  <2>4. QED
    BY <1>10, <1>t, <1>k, <2>1, <2>2, <2>3, LoseState DEF DoneInv
<1>11. ASSUME NEW j \in Jobs, Execute(j) PROVE DoneInv'
  <2>1. \A i \in Jobs : Executed(i) => Executed(i)'
    BY <1>11, ExecuteState DEF Executed
  <2>2. Executed(j)'
    <3>1. CASE dry \/ j \in ReadJobs
      BY <1>11, <3>1, ExecuteState DEF Executed
    <3>2. CASE ~(dry \/ j \in ReadJobs)
      BY <1>11, <3>2, ExecuteState DEF Executed
    <3>3. QED
      BY <3>1, <3>2
  <2>3. \A t \in Places : Honest(req[t])'
    <3>1. \A t \in Places : req[t].op = "result" => req[t].job \in Jobs
      BY <1>y DEF Planned
    <3>2. UNCHANGED req
      BY <1>11, ExecuteState
    <3>3. QED
      BY <1>t, <2>1, <3>1, <3>2 DEF Honest
  <2>4. \A i \in Jobs : work'[i] \in {"ok", "okSent"} => Executed(i)'
    BY <1>11, <1>t, <1>y, <2>1, <2>2, ExecuteState
  <2>5. QED
    BY <1>11, <1>t, <2>1, <2>3, <2>4, ExecuteState DEF DoneInv
<1>12. ASSUME NEW j \in Jobs, ExecuteFails(j) PROVE DoneInv'
  <2>1. \A i : Executed(i) => Executed(i)'
    BY <1>12, ExecuteFailsState, ExecutedStays
  <2>2. \A i \in Jobs : work'[i] \in {"ok", "okSent"} => Executed(i)
    BY <1>12, <1>t, <1>y, ExecuteFailsState
  <2>3. QED
    BY <1>12, <1>t, <1>k, <2>1, <2>2, ExecuteFailsState DEF DoneInv
<1>13. CASE Restart
  <2>1. \A i : Executed(i) => Executed(i)'
    BY <1>13, RestartState, ExecutedStays
  <2>2. ASSUME NEW t \in Places PROVE Honest(req[t])'
    <3>1. CASE req'[t] \in {req[t], NoRequest}
      BY <1>n, <1>k, <2>1, <3>1
    <3>2. CASE /\ req'[t].op = req[t].op /\ req'[t].todo = req[t].todo
               /\ req'[t].job = req[t].job /\ req'[t].ok = req[t].ok /\ req'[t].copy = req[t].copy
      BY <1>t, <2>1, <3>2 DEF Honest
    <3>3. QED
      BY <1>13, <3>1, <3>2, RestartState
  <2>3. QED
    BY <1>13, <1>t, <2>1, <2>2, RestartState DEF DoneInv
<1>14. CASE Midnight
  <2>1. \A i : Executed(i) => Executed(i)'
    BY <1>14, MidnightState, ExecutedStays
  <2>2. QED
    BY <1>14, <1>t, <1>k, <2>1, MidnightState DEF DoneInv
<1>15. CASE UNCHANGED vars
  <2>1. UNCHANGED <<jobs, req, work, files, dry>>
    BY <1>15 DEF vars, server, bridge
  <2>2. \A i : Executed(i) => Executed(i)'
    BY <2>1, ExecutedStays
  <2>3. QED
    BY <1>t, <1>k, <2>1, <2>2 DEF DoneInv
<1>16. QED
  BY <1>1, <1>2, <1>3, <1>4, <1>5, <1>6, <1>8, <1>9, <1>10, <1>11, <1>12, <1>13, <1>14, <1>15, Steps

\* A job stored as done has been executed on a path that was accepted, whatever was
\* lost, orphaned, overwritten or restarted: handleVaultJobResult() never turns an
\* error into a success, and a refused path is never done.
THEOREM DoneWasExecuted == Spec => []DoneIsDone
<1>1. Spec => []DoneInv
  BY TypeInvariant, DoneInit, DoneStep, PTL DEF Spec
<1>2. DoneInv => DoneIsDone
  BY DEF DoneInv, DoneIsDone, Executed
<1>3. QED
  BY <1>1, <1>2, PTL

-----------------------------------------------------------------------------
(* A job is executed once *)

\* Nothing was lost, no set of the list undid another, and no poll's answer came late.
Undisturbed == faults = 0 /\ "jobs" \notin raced /\ ~stale

\* How often an execution appends.
Due(j) == IF dry \/ j \in ReadJobs THEN 0 ELSE 1

\* How far the server, the bridge and the vault are with a job.
Progress(j) ==
    \/ jobs[j] = "absent" /\ work[j] = "idle" /\ files[j].times = 0
    \/ /\ jobs[j] = "queued" /\ work[j] \in {"idle", "execute", "error", "errorSent"}
       /\ files[j].times = 0
    \/ jobs[j] = "queued" /\ work[j] \in {"ok", "okSent"} /\ files[j].times = Due(j)
    \/ jobs[j] = "done" /\ work[j] \in {"idle", "okSent"} /\ files[j].times = Due(j)
    \/ jobs[j] = "error" /\ work[j] \in {"idle", "errorSent"} /\ files[j].times = 0

\* A creation precedes its job; a result is still waited for, and is stored or not.
Posted(r) ==
    /\ r.op \in {"create", "note"} => jobs[r.job] = "absent" /\ r.job \in born
    /\ r.op = "result" =>
         /\ r.bridge
         /\ work[r.job] = IF r.ok THEN "okSent" ELSE "errorSent"
         /\ jobs[r.job] = IF Head(r.todo) = "jobs" THEN "queued"
                          ELSE IF r.ok THEN "done" ELSE "error"

HasJob(r) == r.op \in {"create", "note", "result"}

OnceInv ==
    Undisturbed =>
        /\ \A j \in Jobs : Progress(j) /\ (j \notin born => jobs[j] = "absent")
        /\ \A s \in Places : Posted(req[s])
        /\ \A s, t \in Places :
             HasJob(req[s]) /\ HasJob(req[t]) /\ req[s].job = req[t].job => s = t

LEMMA OnceInit == Init => OnceInv
<1> SUFFICES ASSUME Init PROVE OnceInv
  OBVIOUS
<1>1. \A s \in Places : req[s].op = "none"
  BY DEF Init, NoRequest
<1>2. QED
  BY <1>1 DEF Init, OnceInv, Progress, Posted, HasJob

\* Nothing that disturbs is undone.
LEMMA UndisturbedBefore == TypeInv /\ [Next]_vars /\ Undisturbed' => Undisturbed
<1> SUFFICES ASSUME TypeInv, [Next]_vars PROVE Undisturbed' => Undisturbed
  OBVIOUS
<1>y. faults \in Nat /\ Slots \subseteq Places
  BY DEF TypeInv, TypeOK, Places
<1>1. (faults' = faults \/ faults' = faults + 1) /\ (stale => stale') /\ raced \subseteq raced'
  <2> DEFINE Goal == /\ faults' = faults \/ faults' = faults + 1
                     /\ stale => stale'
                     /\ raced \subseteq raced'
  <2>1. ASSUME NEW s \in Places, WriteJobs(s) \/ WriteStatus(s) PROVE Goal
    BY <2>1 DEF WriteJobs, WriteStatus, Passes
  <2>2. ASSUME NEW s \in Slots, NEW j \in Jobs, Report(s, j) PROVE Goal
    BY <1>y, <2>2, ReportState
  <2>3. ASSUME NEW s \in Slots, NEW j \in Jobs, Create(s, j) \/ Note(s, j) PROVE Goal
    BY <1>y, <2>3, CreateState
  <2>4. ASSUME NEW s \in Slots, Announce(s) PROVE Goal
    BY <1>y, <2>4, AnnounceState
  <2>5. CASE Poll
    BY <2>5, PollState
  <2>6. CASE Receive
    BY <2>6 DEF Receive, Acts
  <2>7. ASSUME NEW s \in Places, Read(s) \/ Lose(s) PROVE Goal
    BY <2>7, ReadState, LoseState
  <2>8. ASSUME NEW j \in Jobs, Execute(j) \/ ExecuteFails(j) PROVE Goal
    BY <2>8, ExecuteState, ExecuteFailsState
  <2>9. CASE Restart \/ Midnight
    BY <2>9 DEF Restart, Midnight
  <2>10. CASE UNCHANGED vars
    BY <2>10 DEF vars
  <2>11. QED
    BY <2>1, <2>2, <2>3, <2>4, <2>5, <2>6, <2>7, <2>8, <2>9, <2>10, Steps
<1>2. QED
  BY <1>y, <1>1 DEF Undisturbed

\* A job that nothing moves is as far as before.
LEMMA ProgressStays ==
    ASSUME NEW j, jobs'[j] = jobs[j], work'[j] = work[j], files'[j] = files[j], dry' = dry
    PROVE  Progress(j) => Progress(j)'
  BY DEF Progress, Due

\* A request that nothing moves stays fit.
LEMMA PostedStays ==
    ASSUME NEW s \in Places, req'[s] = req[s], born \subseteq born',
           HasJob(req[s]) => jobs'[req[s].job] = jobs[req[s].job],
           req[s].op = "result" => work'[req[s].job] = work[req[s].job]
    PROVE  Posted(req[s]) => Posted(req[s])'
  BY DEF Posted, HasJob

LEMMA OnceStep == TypeInv /\ OnceInv /\ [Next]_vars => OnceInv'
<1> SUFFICES ASSUME TypeInv, OnceInv, [Next]_vars, Undisturbed' PROVE OnceInv'
  BY DEF OnceInv
<1> DEFINE Shared(s, t) == HasJob(req[s]) /\ HasJob(req[t]) /\ req[s].job = req[t].job
<1>y. /\ work \in [Jobs -> Works] /\ req \in [Places -> Requests] /\ jobs \in Lists
      /\ \A s \in Places : Planned(req[s]) /\ (HasJob(req[s]) => req[s].job \in Jobs)
      /\ files \in [Jobs -> [path : Paths, times : 0..Top]]
      /\ born \subseteq Jobs
  BY DEF TypeInv, TypeOK, Planned, HasJob
<1>p. Slots \subseteq Places /\ Poller \in Places
  BY DEF Places
<1>u. Undisturbed /\ faults' = 0 /\ "jobs" \notin raced' /\ ~stale'
  BY UndisturbedBefore DEF Undisturbed
<1>t. /\ \A j \in Jobs : Progress(j) /\ (j \notin born => jobs[j] = "absent")
      /\ \A s \in Places : Posted(req[s])
      /\ \A s, t \in Places : Shared(s, t) => s = t
  BY <1>u DEF OnceInv
<1>n. ~HasJob(NoRequest) /\ Posted(NoRequest)'
  BY DEF HasJob, NoRequest, Posted
<1>g. ASSUME \A j \in Jobs : Progress(j)' /\ (j \notin born' => jobs'[j] = "absent"),
             \A s \in Places : Posted(req[s])',
             \A s, t \in Places : Shared(s, t)' => s = t
      PROVE  OnceInv'
  BY <1>g DEF OnceInv
<1>a. ASSUME NEW s \in Places, \A t \in Places \ {s} : req'[t] = req[t],
             HasJob(req[s])' => \A t \in Places : HasJob(req[t]) /\ req[t].job = req'[s].job => t = s
      PROVE  \A r, t \in Places : Shared(r, t)' => r = t
  <2>1. \A t \in Places \ {s} : HasJob(req[t])' <=> HasJob(req[t])
    BY <1>a DEF HasJob
  <2>2. QED
    BY <1>a, <1>t, <2>1
<1>1. ASSUME NEW s \in Slots, NEW j \in Jobs, Create(s, j) \/ Note(s, j) PROVE OnceInv'
  <2>s. s \in Places
    BY <1>p
  <2>1. \A i \in Jobs : Progress(i)' /\ (i \notin born' => jobs'[i] = "absent")
    BY <1>1, <1>t, CreateState, ProgressStays
  <2>2. \A t \in Places \ {s} : Posted(req[t])'
    BY <1>1, <1>t, CreateState, PostedStays
  <2>3. Posted(req[s])'
    <3>1. CASE req'[s] = NoRequest
      BY <1>n, <3>1
    <3>2. CASE req'[s].op \in {"create", "note"} /\ req'[s].job = j
      <4>1. j \in born' /\ jobs'[j] = "absent"
        BY <1>1, <1>t, CreateState
      <4>2. QED
        BY <3>2, <4>1 DEF Posted
    <3>3. QED
      BY <1>1, <3>1, <3>2, CreateState
  <2>4. HasJob(req[s])' => \A t \in Places : HasJob(req[t]) /\ req[t].job = req'[s].job => t = s
    <3>1. ASSUME NEW t \in Places, HasJob(req[t]), req[t].job = j PROVE FALSE
      <4>1. j \notin born /\ jobs[j] = "absent" /\ work[j] = "idle"
        BY <1>1, <1>t, CreateState DEF Progress
      <4>2. Posted(req[t])
        BY <1>t
      <4>3. QED
        BY <3>1, <4>1, <4>2 DEF Posted, HasJob
    <3>2. CASE req'[s] = NoRequest
      BY <1>n, <3>2 DEF HasJob
    <3>3. CASE req'[s].job = j
      BY <3>1, <3>3
    <3>4. QED
      BY <1>1, <3>2, <3>3, CreateState
  <2>5. QED
    BY <1>1, <1>a, <1>g, <2>s, <2>1, <2>2, <2>3, <2>4, CreateState
<1>2. ASSUME NEW s \in Slots, NEW j \in Jobs, Report(s, j) PROVE OnceInv'
  <2>s. s \in Places
    BY <1>p
  <2>f. UNCHANGED <<jobs, files, dry, born>> /\ work[j] \in {"ok", "error"}
    BY <1>2, ReportState
  <2>j. jobs[j] = "queued"
    BY <1>t, <2>f DEF Progress
  <2>n. /\ req'[s].op = "result" /\ req'[s].job = j /\ req'[s].todo = <<"jobs", "status">>
        /\ req'[s].bridge /\ (req'[s].ok <=> work[j] = "ok")
        /\ work'[j] = IF work[j] = "ok" THEN "okSent" ELSE "errorSent"
        /\ \A i \in Jobs \ {j} : work'[i] = work[i]
        /\ \A t \in Places \ {s} : req'[t] = req[t]
    BY <1>2, <2>j, ReportState
  <2>o. \A t \in Places : HasJob(req[t]) => req[t].job # j
    BY <1>t, <2>f, <2>j DEF Posted, HasJob
  <2>1. \A i \in Jobs : Progress(i)' /\ (i \notin born' => jobs'[i] = "absent")
    <3>1. \A i \in Jobs \ {j} : Progress(i)'
      BY <1>t, <2>f, <2>n, ProgressStays
    <3>2. Progress(j)'
      BY <1>t, <2>f, <2>j, <2>n DEF Progress, Due
    <3>3. QED
      BY <1>t, <2>f, <3>1, <3>2
  <2>2. \A t \in Places \ {s} : Posted(req[t])'
    <3>1. ASSUME NEW t \in Places \ {s} PROVE Posted(req[t])'
      <4>1. req[t].op = "result" => work'[req[t].job] = work[req[t].job]
        BY <1>y, <2>n, <2>o DEF HasJob
      <4>2. QED
        BY <1>t, <2>f, <2>n, <4>1, PostedStays
    <3>2. QED
      BY <3>1
  <2>3. Posted(req[s])'
    BY <2>f, <2>j, <2>n, TodoFacts DEF Posted
  <2>4. QED
    BY <1>a, <1>g, <2>s, <2>n, <2>o, <2>1, <2>2, <2>3
<1>3. ASSUME NEW s \in Places, \A t \in Places \ {s} : req'[t] = req[t],
             ~HasJob(req[s])',
             UNCHANGED <<jobs, work, files, dry, born>>
      PROVE  OnceInv'
  <2>1. \A i \in Jobs : Progress(i)' /\ (i \notin born' => jobs'[i] = "absent")
    BY <1>3, <1>t, ProgressStays
  <2>2. \A t \in Places \ {s} : Posted(req[t])'
    BY <1>3, <1>t, PostedStays
  <2>3. Posted(req[s])'
    BY <1>3 DEF HasJob, Posted
  <2>4. QED
    BY <1>3, <1>a, <1>g, <2>1, <2>2, <2>3
<1>4. ASSUME NEW s \in Slots, Announce(s) PROVE OnceInv'
  <2>1. ~HasJob(req[s])'
    BY <1>4, AnnounceState DEF HasJob
  <2>2. QED
    BY <1>3, <1>4, <1>p, <2>1, AnnounceState
<1>5. CASE Poll
  <2>1. ~HasJob(req[Poller])'
    BY <1>5, PollState DEF HasJob
  <2>2. QED
    BY <1>3, <1>5, <1>p, <2>1, PollState
<1>6. CASE Receive
  <2>1. \A j \in Jobs :
          \/ work'[j] = work[j]
          \/ work[j] = "idle" /\ jobs[j] = "queued" /\ work'[j] = "execute"
    BY <1>6, <1>u, ReceiveState
  <2>2. /\ UNCHANGED <<jobs, files, dry, born>> /\ req'[Poller] = NoRequest
        /\ \A t \in Places \ {Poller} : req'[t] = req[t]
    BY <1>6, ReceiveState
  <2>3. \A i \in Jobs : Progress(i)' /\ (i \notin born' => jobs'[i] = "absent")
    BY <1>t, <2>1, <2>2 DEF Progress, Due
  <2>4. \A t \in Places \ {Poller} : Posted(req[t])'
    <3>1. ASSUME NEW t \in Places \ {Poller} PROVE Posted(req[t])'
      <4>1. req[t].op = "result" => work[req[t].job] # "idle" /\ req[t].job \in Jobs
        BY <1>t, <1>y DEF Posted, HasJob
      <4>2. QED
        BY <1>t, <2>1, <2>2, <4>1, PostedStays
    <3>2. QED
      BY <3>1
  <2>5. ~HasJob(req[Poller])' /\ Posted(req[Poller])'
    BY <1>n, <2>2 DEF HasJob
  <2>6. QED
    BY <1>a, <1>g, <1>p, <2>2, <2>3, <2>4, <2>5
<1>7. ASSUME NEW s \in Places, Read(s) PROVE OnceInv'
  <2>1. /\ UNCHANGED <<jobs, work, files, dry, born>>
        /\ \A t \in Places \ {s} : req'[t] = req[t]
        /\ req'[s].op = req[s].op /\ req'[s].todo = req[s].todo /\ req'[s].job = req[s].job
        /\ req'[s].ok = req[s].ok /\ req'[s].bridge = req[s].bridge
    BY <1>7, ReadState
  <2>2. \A i \in Jobs : Progress(i)' /\ (i \notin born' => jobs'[i] = "absent")
    BY <1>t, <2>1, ProgressStays
  <2>3. \A t \in Places : Posted(req[t])'
    BY <1>t, <2>1 DEF Posted
  <2>4. HasJob(req[s])' => \A t \in Places : HasJob(req[t]) /\ req[t].job = req'[s].job => t = s
    BY <1>t, <2>1 DEF HasJob
  <2>5. QED
    BY <1>a, <1>g, <2>1, <2>2, <2>3, <2>4
<1>8. ASSUME NEW s \in Places, WriteJobs(s) PROVE OnceInv'
  <2> DEFINE new == IF req[s].op # "result" THEN "queued" ELSE IF req[s].ok THEN "done" ELSE "error"
  <2>j. PICK j \in Jobs : j = req[s].job
    BY <1>8, WriteJobsState
  <2>1. /\ Stage(s) = "jobs" /\ j = req[s].job /\ req[s].op \in {"create", "note", "result"}
        /\ req[s].todo # <<>> /\ Head(req[s].todo) = "jobs"
    BY <1>8, <2>j, WriteJobsState DEF Stage
  <2>2. jobs' = [jobs EXCEPT ![j] = new]
    BY <1>8, <1>u, <2>1, WriteJobsState
  <2>3. /\ UNCHANGED <<files, dry, born>> /\ work' = work
        /\ \A t \in Places \ {s} : req'[t] = req[t]
    BY <1>8, <2>1, WriteJobsState, PassState
  <2>4. \A t \in Places \ {s} : HasJob(req[t]) => req[t].job # j
    BY <1>t, <2>1 DEF HasJob
  <2>5. jobs'[j] = new /\ \A i \in Jobs \ {j} : jobs'[i] = jobs[i]
    BY <1>y, <2>1, <2>2 DEF Lists
  <2>6. Posted(req[s]) /\ Progress(j)
    BY <1>t, <2>1
  <2>7. \A i \in Jobs : Progress(i)' /\ (i \notin born' => jobs'[i] = "absent")
    <3>1. \A i \in Jobs \ {j} : Progress(i)'
      BY <1>t, <2>3, <2>5, ProgressStays
    <3>2. Progress(j)'
      <4>1. CASE req[s].op # "result"
        <5>1. jobs[j] = "absent" /\ jobs'[j] = "queued"
          BY <2>1, <2>5, <2>6, <4>1 DEF Posted
        <5>2. QED
          BY <2>3, <2>6, <5>1 DEF Progress
      <4>2. CASE req[s].op = "result"
        <5>1. /\ jobs[j] = "queued"
              /\ \/ work[j] = "okSent" /\ jobs'[j] = "done"
                 \/ work[j] = "errorSent" /\ jobs'[j] = "error"
          BY <2>1, <2>5, <2>6, <4>2 DEF Posted
        <5>2. QED
          BY <2>3, <2>6, <5>1 DEF Progress, Due
      <4>3. QED
        BY <4>1, <4>2
    <3>3. j \in born
      <4>1. j \in born \/ jobs[j] = "queued"
        BY <2>1, <2>6 DEF Posted
      <4>2. QED
        BY <1>t, <4>1
    <3>4. QED
      BY <1>t, <2>3, <2>5, <3>1, <3>2, <3>3
  <2>8. \A t \in Places \ {s} : Posted(req[t])'
    <3>1. ASSUME NEW t \in Places \ {s} PROVE Posted(req[t])'
      <4>1. HasJob(req[t]) => jobs'[req[t].job] = jobs[req[t].job]
        BY <1>y, <2>4, <2>5
      <4>2. QED
        BY <1>t, <2>3, <4>1, PostedStays
    <3>2. QED
      BY <3>1
  <2>9. /\ Posted(req[s])'
        /\ HasJob(req[s])' => HasJob(req[s]) /\ req'[s].job = j
    <3>1. CASE req[s].op = "result"
      <4>1. /\ req'[s].op = "result" /\ req'[s].job = j /\ req'[s].ok = req[s].ok
            /\ req'[s].bridge = req[s].bridge /\ req'[s].todo = <<"status">>
        BY <1>8, <2>1, <3>1, WriteJobsState, PassState
      <4>2. Head(req'[s].todo) # "jobs"
        BY <4>1, TodoFacts
      <4>3. QED
        BY <2>1, <2>3, <2>5, <2>6, <3>1, <4>1, <4>2 DEF Posted, HasJob
    <3>2. CASE req[s].op # "result"
      <4>1. req'[s] = NoRequest \/ req'[s].op = "pending"
        BY <1>8, <3>2, WriteJobsState, PassState
      <4>2. QED
        BY <1>n, <4>1 DEF Posted, HasJob
    <3>3. QED
      BY <3>1, <3>2
  <2>10. HasJob(req[s])' => \A t \in Places : HasJob(req[t]) /\ req[t].job = req'[s].job => t = s
    BY <2>4, <2>9
  <2>11. QED
    BY <1>a, <1>g, <2>3, <2>7, <2>8, <2>9, <2>10
<1>9. ASSUME NEW s \in Places, WriteStatus(s) PROVE OnceInv'
  <2>1. Stage(s) = "status" /\ UNCHANGED jobs /\ Passes(s)
    BY <1>9, WriteStatusState
  <2>2. /\ UNCHANGED <<files, dry, born>>
        /\ \A t \in Places \ {s} : req'[t] = req[t]
        /\ req'[s] = NoRequest \/ req'[s].op = "pending"
        /\ IF req[s].bridge /\ req[s].op = "result"
           THEN work' = [work EXCEPT ![req[s].job] = "idle"] ELSE work' = work
    BY <2>1, PassState
  <2>3. ~HasJob(req[s])'
    BY <1>n, <2>2 DEF HasJob
  <2>4. CASE ~(req[s].bridge /\ req[s].op = "result")
    BY <1>3, <2>1, <2>2, <2>3, <2>4
  <2>5. CASE req[s].bridge /\ req[s].op = "result"
    <3>j. PICK j \in Jobs : j = req[s].job
      BY <1>y, <2>5 DEF HasJob
    <3>1. j = req[s].job /\ HasJob(req[s])
      BY <2>5, <3>j DEF HasJob
    <3>2. work'[j] = "idle" /\ \A i \in Jobs \ {j} : work'[i] = work[i]
      BY <1>y, <2>2, <2>5, <3>1
    <3>3. jobs[j] = IF req[s].ok THEN "done" ELSE "error"
      <4>1. Head(req[s].todo) # "jobs"
        BY <2>1 DEF Stage
      <4>2. QED
        BY <1>t, <2>5, <3>1, <4>1 DEF Posted
    <3>4. \A t \in Places \ {s} : HasJob(req[t]) => req[t].job # j
      BY <1>t, <3>1
    <3>5. \A i \in Jobs : Progress(i)' /\ (i \notin born' => jobs'[i] = "absent")
      <4>1. \A i \in Jobs \ {j} : Progress(i)'
        BY <1>t, <2>1, <2>2, <3>2, ProgressStays
      <4>2. Progress(j) /\ jobs[j] \in {"done", "error"}
        BY <1>t, <3>1, <3>3
      <4>3. Progress(j)'
        BY <2>1, <2>2, <3>2, <4>2 DEF Progress, Due
      <4>4. jobs' = jobs /\ born' = born
        BY <2>1, <2>2
      <4>5. QED
        BY <1>t, <4>1, <4>3, <4>4
    <3>6. \A t \in Places \ {s} : Posted(req[t])'
      <4>1. ASSUME NEW t \in Places \ {s} PROVE Posted(req[t])'
        <5>1. req[t].op = "result" => work'[req[t].job] = work[req[t].job]
          BY <1>y, <3>2, <3>4 DEF HasJob
        <5>2. QED
          BY <1>t, <2>1, <2>2, <5>1, PostedStays
      <4>2. QED
        BY <4>1
    <3>7. Posted(req[s])'
      BY <2>3 DEF HasJob, Posted
    <3>8. QED
      BY <1>a, <1>g, <2>2, <2>3, <3>5, <3>6, <3>7
  <2>6. QED
    BY <2>4, <2>5
<1>10. ASSUME NEW s \in Places, Lose(s) PROVE OnceInv'
  <2>1. faults' = faults + 1 /\ faults = 0
    BY <1>10, <1>u, LoseState DEF Undisturbed
  <2>2. QED
    BY <1>u, <2>1
<1>11. CASE Restart
  <2>1. faults' = faults + 1 /\ faults = 0
    BY <1>11, <1>u, RestartState DEF Undisturbed
  <2>2. QED
    BY <1>u, <2>1
<1>12. ASSUME NEW j \in Jobs, Execute(j) \/ ExecuteFails(j) PROVE OnceInv'
  <2>1. /\ UNCHANGED <<jobs, req, dry, born>> /\ work[j] = "execute"
        /\ \A i \in Jobs \ {j} : work'[i] = work[i] /\ files'[i] = files[i]
        /\ \/ work'[j] = "error" /\ files'[j] = files[j]
           \/ /\ work'[j] = "ok"
              /\ IF dry \/ j \in ReadJobs THEN files'[j] = files[j]
                 ELSE files'[j].times = CountUp(files[j].times)
    <3>1. CASE Execute(j)
      BY <1>y, <3>1, ExecuteState
    <3>2. CASE ExecuteFails(j)
      BY <1>y, <3>2, ExecuteFailsState
    <3>3. QED
      BY <1>12, <3>1, <3>2
  <2>2. jobs[j] = "queued" /\ files[j].times = 0
    BY <1>t, <2>1 DEF Progress
  <2>3. \A i \in Jobs : Progress(i)' /\ (i \notin born' => jobs'[i] = "absent")
    <3>1. \A i \in Jobs \ {j} : Progress(i)'
      BY <1>t, <2>1, ProgressStays
    <3>2. CountUp(0) = 1
      BY BoundAssumption DEF CountUp
    <3>3. Progress(j)'
      BY <2>1, <2>2, <3>2 DEF Progress, Due
    <3>4. QED
      BY <1>t, <2>1, <3>1, <3>3
  <2>4. \A t \in Places : Posted(req[t])'
    <3>1. ASSUME NEW t \in Places PROVE Posted(req[t])'
      <4>1. req[t].op = "result" => work[req[t].job] # "execute" /\ req[t].job \in Jobs
        BY <1>t, <1>y DEF Posted, HasJob
      <4>2. QED
        BY <1>t, <2>1, <4>1, PostedStays
    <3>2. QED
      BY <3>1
  <2>5. \A s, t \in Places : Shared(s, t)' => s = t
    BY <1>t, <2>1 DEF HasJob
  <2>6. QED
    BY <1>g, <2>3, <2>4, <2>5
<1>13. CASE Midnight \/ UNCHANGED vars
  <2>1. UNCHANGED <<jobs, req, work, files, dry, born>>
    BY <1>13, MidnightState DEF vars, server, bridge
  <2>2. QED
    BY <1>t, <1>g, <2>1, ProgressStays, PostedStays DEF HasJob
<1>14. QED
  BY <1>1, <1>2, <1>4, <1>5, <1>6, <1>7, <1>8, <1>9, <1>10, <1>11, <1>12, <1>13, Steps

\* As long as nothing was lost, no set of the list has undone another and no poll's
\* answer came after the job it names was done, a job's text is appended at most once,
\* exactly once when the job is stored as done and not at all when as failed: the
\* rounds of pollVaultJobs(), _vaultInFlight and handleVaultJobResult() together
\* execute each job once.
THEOREM JobsAreExecutedOnce == Spec => []ExecutedOnce
<1>1. Spec => []OnceInv
  BY TypeInvariant, OnceInit, OnceStep, PTL DEF Spec
<1>2. TypeInv /\ OnceInv => ExecutedOnce
  <2> SUFFICES ASSUME OnceInv, Undisturbed, NEW j \in Jobs \ ReadJobs
               PROVE  /\ files[j].times <= 1
                      /\ jobs[j] = "done" /\ ~dry => files[j].times = 1
                      /\ jobs[j] = "error" => files[j].times = 0
    BY DEF ExecutedOnce, Undisturbed
  <2>1. Progress(j)
    BY DEF OnceInv
  <2>2. QED
    BY <2>1 DEF Progress, Due
<1>3. QED
  BY <1>1, <1>2, TypeInvariant, PTL

-----------------------------------------------------------------------------
(* The counter agrees with the vault *)

\* Writes that are yet to be counted: of executions that have not posted, and of posts
\* that have not updated the status.
Ready == {j \in Jobs \ ReadJobs : ~dry /\ work[j] = "ok"}
Sent  == {s \in Places : Counts(req[s])}
Owed  == Cardinality(Ready) + Cardinality(Sent)

InVault   == Cardinality(Appended)
Copied(s) == Stage(s) = "status" /\ req[s].copy # None

\* A count that stays true when all that is owed is added.
Within(w) == w <= Top /\ (w + Owed <= InVault \/ InVault >= Top)

\* Neither the document nor any copy of it counts too much.
CountInv ==
    /\ IsFiniteSet(Ready) /\ IsFiniteSet(Sent) /\ IsFiniteSet(Appended)
    /\ Within(vstatus.writes)
    /\ \A s \in Places : Copied(s) => Within(req[s].copy.writes)

LEMMA CountTypes ==
    ASSUME TypeInv, CountInv
    PROVE  /\ Cardinality(Ready) \in Nat /\ Cardinality(Sent) \in Nat
           /\ Owed \in Nat /\ InVault \in Nat /\ Top \in Nat
           /\ vstatus.writes \in Nat
           /\ \A s \in Places : Copied(s) => /\ req[s].copy.writes \in Nat
                                             /\ req[s].copy \in Statuses
<1>1. /\ Cardinality(Ready) \in Nat /\ Cardinality(Sent) \in Nat /\ InVault \in Nat
  BY FS_CardinalityType DEF CountInv, InVault
<1>2. ASSUME NEW s \in Places, Copied(s) PROVE req[s].copy \in Statuses
  <2>1. Planned(req[s]) /\ req[s].todo # <<>> /\ Head(req[s].todo) = "status"
    BY <1>2 DEF TypeInv, Copied, Stage
  <2>2. QED
    BY <1>2, <2>1 DEF Planned, Copied
<1>3. QED
  BY <1>1, <1>2, BoundAssumption DEF Owed, TypeInv, TypeOK, Statuses

\* What must hold of a step for the counts to stay true.
LEMMA CountKept ==
    ASSUME TypeInv, CountInv,
           IsFiniteSet(Ready'), IsFiniteSet(Sent'), Appended' = Appended,
           Owed' \in Nat, Owed' <= Owed, vstatus' = vstatus,
           \A s \in Places : Copied(s)' => \/ Copied(s) /\ req'[s].copy = req[s].copy
                                           \/ req'[s].copy = vstatus
    PROVE  CountInv'
<1>1. InVault' = InVault
  BY DEF InVault
<1>2. ASSUME NEW w \in Nat, Within(w) PROVE w <= Top /\ (w + Owed' <= InVault' \/ InVault' >= Top)
  BY <1>1, <1>2, CountTypes DEF Within
<1>3. Within(vstatus.writes)'
  BY <1>2, CountTypes DEF CountInv, Within
<1>4. ASSUME NEW s \in Places, Copied(s)' PROVE Within(req[s].copy.writes)'
  <2>1. req'[s].copy.writes \in Nat /\ Within(req'[s].copy.writes)
    BY <1>4, CountTypes DEF CountInv
  <2> DEFINE w == req'[s].copy.writes
  <2>2. w <= Top /\ (w + Owed' <= InVault' \/ InVault' >= Top)
    BY <1>2, <2>1
  <2>3. QED
    BY <2>2 DEF Within
<1>5. QED
  BY <1>3, <1>4 DEF CountInv

\* Nothing more is owed.
LEMMA NotMoreOwed ==
    ASSUME CountInv, Ready' \subseteq Ready, Sent' \subseteq Sent
    PROVE  IsFiniteSet(Ready') /\ IsFiniteSet(Sent') /\ Owed' \in Nat /\ Owed' <= Owed
<1>1. /\ IsFiniteSet(Ready') /\ Cardinality(Ready') <= Cardinality(Ready)
      /\ IsFiniteSet(Sent') /\ Cardinality(Sent') <= Cardinality(Sent)
  BY FS_Subset DEF CountInv
<1>2. /\ Cardinality(Ready') \in Nat /\ Cardinality(Ready) \in Nat
      /\ Cardinality(Sent') \in Nat /\ Cardinality(Sent) \in Nat
  BY <1>1, FS_CardinalityType DEF CountInv
<1>3. QED
  BY <1>1, <1>2 DEF Owed

\* Where the writes owed can come from.
LEMMA ReadyFrom ==
    ASSUME dry' = dry, \A j \in Jobs : work'[j] = "ok" => work[j] = "ok"
    PROVE  Ready' \subseteq Ready
  BY DEF Ready

LEMMA SentFrom ==
    ASSUME dry' = dry, NEW A \in SUBSET Places,
           \A s \in Places \ A : \/ req'[s].op # "result" \/ req'[s] = req[s]
                                 \/ /\ req'[s].op = req[s].op /\ req'[s].job = req[s].job
                                    /\ req'[s].ok = req[s].ok
    PROVE  Sent' \subseteq Sent \union A
<1>1. ASSUME NEW s \in Places \ A, Counts(req[s])' PROVE Counts(req[s])
  BY <1>1 DEF Counts
<1>2. QED
  BY <1>1 DEF Sent

LEMMA AppendedStays == ASSUME files' = files PROVE Appended' = Appended
  BY DEF Appended

\* A text is appended: it is in the vault and owed.
LEMMA CountExecuted ==
    ASSUME TypeInv, CountInv, NEW j \in Jobs, Execute(j), ~dry, j \notin ReadJobs
    PROVE  /\ IsFiniteSet(Ready') /\ IsFiniteSet(Sent') /\ IsFiniteSet(Appended')
           /\ Owed' = Owed + 1 /\ InVault' \in Nat
           /\ InVault' = InVault + 1 \/ (InVault' = InVault /\ InVault >= Top)
<1>e. /\ work[j] = "execute" /\ work' = [work EXCEPT ![j] = "ok"] /\ req' = req /\ dry' = dry
      /\ files' \in [Jobs -> [path : Paths, times : 0..Top]]
      /\ \A i \in Jobs \ {j} : files'[i] = files[i]
      /\ files'[j].times = CountUp(files[j].times)
  BY ExecuteState
<1>y. /\ work \in [Jobs -> Works] /\ files \in [Jobs -> [path : Paths, times : 0..Top]]
      /\ Top \in Nat /\ Top > 1
  BY BoundAssumption DEF TypeInv, TypeOK
<1>1. Sent' = Sent
  BY <1>e DEF Sent, Counts
<1>2. j \notin Ready /\ Ready' = Ready \union {j}
  BY <1>e, <1>y DEF Ready
<1>3. /\ IsFiniteSet(Ready') /\ IsFiniteSet(Sent')
      /\ Cardinality(Ready') = Cardinality(Ready) + 1 /\ Cardinality(Sent') = Cardinality(Sent)
  BY <1>1, <1>2, FS_AddElement DEF CountInv
<1>4. Owed' = Owed + 1
  BY <1>3, CountTypes DEF Owed
<1> DEFINE n == files[j].times
<1>n. n \in 0..Top
  BY <1>y
<1>5. CASE n = Top
  <2>1. \A i \in Jobs : files'[i].times = files[i].times
    BY <1>e, <1>5 DEF CountUp
  <2>2. Appended' = Appended
    BY <2>1 DEF Appended
  <2> DEFINE g == [k \in 1..Top |-> <<j, k>>]
  <2>3. g \in Injection(1..Top, Appended)
    <3>1. \A k \in 1..Top : <<j, k>> \in Appended
      BY <1>5 DEF Appended
    <3>2. g \in [1..Top -> Appended]
      BY <3>1
    <3>3. \A k, m \in 1..Top : g[k] = g[m] => k = m
      OBVIOUS
    <3>4. QED
      BY <3>2, <3>3 DEF Injection, IsInjective
  <2>4. Cardinality(1..Top) <= InVault
    BY <2>3, FS_Injection DEF CountInv, InVault
  <2>5. Cardinality(1..Top) = Top
    <3>1. 1 \in Int /\ Top \in Int /\ 1 <= Top
      BY <1>y
    <3>2. QED
      BY <3>1, <1>y, FS_Interval
  <2>6. InVault' = InVault
    BY <2>2 DEF InVault
  <2>7. QED
    BY <1>3, <1>4, <2>2, <2>4, <2>5, <2>6, CountTypes DEF CountInv
<1>6. CASE n # Top
  <2> DEFINE x == <<j, n + 1>>
  <2>1. files'[j].times = n + 1 /\ n + 1 \in 1..Top /\ j \in Jobs \ ReadJobs
    BY <1>e, <1>n, <1>6 DEF CountUp
  <2>2. ASSUME NEW i \in Jobs \ ReadJobs, NEW k \in 1..Top
        PROVE  <<i, k>> \in Appended' <=> <<i, k>> \in Appended \/ <<i, k>> = x
    <3>1. <<i, k>> \in Appended' <=> k <= files'[i].times
      BY DEF Appended
    <3>2. <<i, k>> \in Appended <=> k <= files[i].times
      BY DEF Appended
    <3>3. CASE i = j
      <4>1. k <= n + 1 <=> k <= n \/ k = n + 1
        BY <1>n
      <4>2. QED
        BY <2>1, <3>1, <3>2, <3>3, <4>1
    <3>4. CASE i # j
      BY <1>e, <3>1, <3>2, <3>4
    <3>5. QED
      BY <3>3, <3>4
  <2>3. Appended' = Appended \union {x}
    <3>1. Appended' \subseteq (Jobs \ ReadJobs) \X (1..Top) /\ Appended \subseteq (Jobs \ ReadJobs) \X (1..Top)
      BY DEF Appended
    <3>2. x \in (Jobs \ ReadJobs) \X (1..Top)
      BY <2>1
    <3> HIDE DEF x
    <3>3. QED
      BY <2>2, <3>1, <3>2
  <2>4. x \notin Appended
    BY <1>n DEF Appended
  <2> HIDE DEF x
  <2>5. IsFiniteSet(Appended') /\ InVault' = InVault + 1
    BY <2>3, <2>4, FS_AddElement DEF CountInv, InVault
  <2>6. QED
    BY <1>3, <1>4, <2>5, CountTypes
<1>7. QED
  BY <1>5, <1>6

\* A step that changes neither the status nor the vault, and posts nothing.
LEMMA CountQuiet ==
    ASSUME TypeInv, CountInv, UNCHANGED <<vstatus, files, dry>>,
           \A j \in Jobs : work'[j] = "ok" => work[j] = "ok",
           \A s \in Places : \/ req'[s].op # "result" \/ req'[s] = req[s]
                             \/ /\ req'[s].op = req[s].op /\ req'[s].job = req[s].job
                                /\ req'[s].ok = req[s].ok,
           \A s \in Places : Copied(s)' => \/ Copied(s) /\ req'[s].copy = req[s].copy
                                           \/ req'[s].copy = vstatus
    PROVE  CountInv'
<1>1. Ready' \subseteq Ready
  BY ReadyFrom
<1>2. Sent' \subseteq Sent
  <2>1. {} \in SUBSET Places /\ Sent \union {} = Sent
    OBVIOUS
  <2>2. Sent' \subseteq Sent \union {}
    BY <2>1, SentFrom
  <2>3. QED
    BY <2>1, <2>2
<1>3. QED
  BY <1>1, <1>2, NotMoreOwed, AppendedStays, CountKept

\* What a request makes of the counter.
LEMMA UpdatedCount ==
    ASSUME NEW r, r.copy \in Statuses, r.day \in Nat
    PROVE  /\ Counts(r) => /\ Updated(r).day = r.day
                           /\ r.copy.day = r.day => Updated(r).writes = CountUp(r.copy.writes)
                           /\ r.copy.day # r.day => Updated(r).writes = 1
           /\ ~Counts(r) => Updated(r).day = r.copy.day /\ Updated(r).writes = r.copy.writes
<1>1. CASE Counts(r)
  <2> DEFINE c == r.copy
             w == IF c.day = r.day THEN CountUp(c.writes) ELSE 1
  <2>1. Updated(r) = [c EXCEPT !.day = r.day, !.writes = w]
    BY <1>1, Zenon DEF Updated
  <2>2. c \in Statuses
    OBVIOUS
  <2>3. /\ c.day = r.day => w = CountUp(c.writes)
        /\ c.day # r.day => w = 1
    OBVIOUS
  <2> HIDE DEF w, c
  <2>4. Updated(r).day = r.day /\ Updated(r).writes = w
    BY <2>1, <2>2 DEF Statuses
  <2>5. QED
    BY <1>1, <2>3, <2>4 DEF c
<1>2. CASE ~Counts(r)
  <2>1. CASE r.op = "announce"
    BY <1>2, <2>1 DEF Updated, Statuses
  <2>2. CASE r.op # "announce"
    BY <1>2, <2>2 DEF Updated
  <2>3. QED
    BY <2>1, <2>2
<1>3. QED
  BY <1>1, <1>2

\* A post that is done counting is no longer owed.
LEMMA SentPassed ==
    ASSUME TypeInv, CountInv, NEW s \in Places, WriteStatus(s)
    PROVE  /\ Ready' \subseteq Ready /\ Sent' \subseteq Sent \ {s}
           /\ IsFiniteSet(Ready') /\ IsFiniteSet(Sent')
           /\ Owed' \in Nat /\ Owed' <= Owed
           /\ Counts(req[s]) => Owed' + 1 <= Owed
<1>1. /\ \A t \in Places \ {s} : req'[t] = req[t]
      /\ dry' = dry /\ req'[s].op # "result"
      /\ \A j \in Jobs : work'[j] = "ok" => work[j] = "ok"
  <2>1. Stage(s) = "status" /\ Passes(s)
    BY WriteStatusState
  <2>2. work \in [Jobs -> Works]
    BY DEF TypeInv, TypeOK
  <2>3. req'[s].op # "result"
    BY <2>1, PassState DEF NoRequest
  <2>4. QED
    BY <2>1, <2>2, <2>3, PassState
<1>2. Ready' \subseteq Ready
  BY <1>1, ReadyFrom
<1>3. Sent' \subseteq Sent \ {s}
  BY <1>1 DEF Sent, Counts
<1>4. /\ IsFiniteSet(Ready') /\ IsFiniteSet(Sent') /\ Owed' \in Nat /\ Owed' <= Owed
  BY <1>2, <1>3, NotMoreOwed
<1>5. ASSUME Counts(req[s]) PROVE Owed' + 1 <= Owed
  <2>1. s \in Sent
    BY <1>5 DEF Sent
  <2>2. IsFiniteSet(Sent \ {s}) /\ Cardinality(Sent \ {s}) = Cardinality(Sent) - 1
    BY <2>1, FS_RemoveElement DEF CountInv
  <2>3. Cardinality(Sent') <= Cardinality(Sent) - 1
    BY <1>3, <2>2, FS_Subset
  <2>4. Cardinality(Ready') <= Cardinality(Ready)
    BY <1>2, FS_Subset DEF CountInv
  <2>5. Cardinality(Ready') \in Nat /\ Cardinality(Sent') \in Nat
    BY <1>4, FS_CardinalityType
  <2>6. QED
    BY <2>3, <2>4, <2>5, CountTypes DEF Owed
<1>6. QED
  BY <1>2, <1>3, <1>4, <1>5

LEMMA CountInit == Init => CountInv
<1> SUFFICES ASSUME Init PROVE CountInv
  OBVIOUS
<1>1. \A s \in Places : req[s].op = "none" /\ req[s].copy = None
  BY DEF Init, NoRequest
<1>2. Ready = {} /\ Sent = {}
  BY <1>1 DEF Init, Ready, Sent, Counts
<1>3. Appended = {}
  BY BoundAssumption DEF Init, Appended
<1>4. Owed = 0 /\ InVault = 0
  BY <1>2, <1>3, FS_EmptySet DEF Owed, InVault
<1>5. vstatus.writes = 0 /\ Top \in Nat
  BY BoundAssumption DEF Init, NoStatus
<1>6. QED
  BY <1>1, <1>2, <1>3, <1>4, <1>5, FS_EmptySet DEF CountInv, Within, Copied

LEMMA CountStep == TypeInv /\ CountInv /\ [Next]_vars => CountInv'
<1> SUFFICES ASSUME TypeInv, CountInv, [Next]_vars PROVE CountInv'
  OBVIOUS
<1>y. /\ Slots \subseteq Places /\ Poller \in Places
      /\ work \in [Jobs -> Works] /\ req \in [Places -> Requests]
  BY DEF Places, TypeInv, TypeOK
<1>n. NoRequest.op = "none" /\ NoRequest.copy = None
  BY DEF NoRequest
<1>k. ASSUME NEW t \in Places, req'[t] = req[t], Copied(t)'
      PROVE  Copied(t) /\ req'[t].copy = req[t].copy
  BY <1>k DEF Copied, Stage
<1>j. ASSUME NEW t \in Places, req'[t].todo = <<"jobs">> \/ req'[t].todo = <<"jobs", "status">>
             \/ req'[t].todo = <<>> \/ req'[t].copy = None
      PROVE  ~Copied(t)'
  BY <1>j, TodoFacts DEF Copied, Stage
<1>1. ASSUME NEW s \in Slots, NEW j \in Jobs, Create(s, j) \/ Note(s, j) PROVE CountInv'
  <2>1. req'[s].op # "result" /\ ~Copied(s)'
    BY <1>1, <1>n, <1>j, <1>y, CreateState
  <2>2. QED
    BY <1>1, <1>k, <2>1, CountQuiet, CreateState
<1>2. ASSUME NEW s \in Slots, NEW j \in Jobs, Report(s, j) PROVE CountInv'
  <2>1. /\ ~Copied(s)' /\ UNCHANGED <<vstatus, files, dry>> /\ req[s] = NoRequest
        /\ \A t \in Places \ {s} : req'[t] = req[t]
        /\ \A i \in Jobs \ {j} : work'[i] = work[i]
        /\ work'[j] # "ok"
    BY <1>2, <1>n, <1>j, <1>y, ReportState DEF AfterFailure
  <2>2. \A t \in Places : Copied(t)' => Copied(t) /\ req'[t].copy = req[t].copy
    BY <1>k, <2>1
  <2>3. CASE j \in Ready
    <3>1. Ready' \subseteq Ready \ {j}
      BY <2>1 DEF Ready
    <3>2. Sent' \subseteq Sent \union {s}
      BY <2>1, <1>y, SentFrom
    <3>3. /\ IsFiniteSet(Ready \ {j}) /\ Cardinality(Ready \ {j}) = Cardinality(Ready) - 1
          /\ IsFiniteSet(Sent \union {s}) /\ Cardinality(Sent \union {s}) <= Cardinality(Sent) + 1
      <4>1. IsFiniteSet(Ready \ {j}) /\ Cardinality(Ready \ {j}) = Cardinality(Ready) - 1
        BY <2>3, FS_RemoveElement DEF CountInv
      <4>2. /\ IsFiniteSet(Sent \union {s})
            /\ Cardinality(Sent \union {s}) =
                 IF s \in Sent THEN Cardinality(Sent) ELSE Cardinality(Sent) + 1
        BY FS_AddElement DEF CountInv
      <4>3. Cardinality(Sent \union {s}) <= Cardinality(Sent) + 1
        BY <4>2, CountTypes
      <4>4. QED
        BY <4>1, <4>2, <4>3
    <3>4. /\ IsFiniteSet(Ready') /\ Cardinality(Ready') <= Cardinality(Ready \ {j})
          /\ IsFiniteSet(Sent') /\ Cardinality(Sent') <= Cardinality(Sent \union {s})
      BY <3>1, <3>2, <3>3, FS_Subset
    <3>5. /\ Cardinality(Ready') \in Nat /\ Cardinality(Sent') \in Nat
          /\ Cardinality(Ready \ {j}) \in Nat /\ Cardinality(Sent \union {s}) \in Nat
      BY <3>3, <3>4, FS_CardinalityType
    <3>6. Owed' \in Nat /\ Owed' <= Owed
      BY <3>3, <3>4, <3>5, CountTypes DEF Owed
    <3>7. QED
      BY <2>1, <2>2, <3>4, <3>6, AppendedStays, CountKept
  <2>4. CASE j \notin Ready
    <3>1. Ready' \subseteq Ready
      BY <2>1, ReadyFrom
    <3>2. Sent' \subseteq Sent \union {s}
      BY <2>1, <1>y, SentFrom
    <3>3. ~Counts(req[s])'
      <4>1. req'[s] = NoRequest \/ (req'[s].job = j /\ (req'[s].ok <=> work[j] = "ok"))
        BY <1>2, ReportState
      <4>2. QED
        BY <1>n, <2>1, <2>4, <4>1 DEF Counts, Ready
    <3>4. Sent' \subseteq Sent
      BY <3>2, <3>3 DEF Sent
    <3>5. QED
      BY <2>1, <2>2, <3>1, <3>4, NotMoreOwed, AppendedStays, CountKept
  <2>5. QED
    BY <2>3, <2>4
<1>3. ASSUME NEW s \in Slots, Announce(s) PROVE CountInv'
  BY <1>3, <1>k, CountQuiet, AnnounceState
<1>4. CASE Poll
  <2>1. ~Copied(Poller)'
    BY <1>4, <1>j, <1>y, PollState
  <2>2. QED
    BY <1>4, <1>k, <2>1, CountQuiet, PollState
<1>5. CASE Receive
  <2>1. ~Copied(Poller)' /\ req'[Poller].op # "result"
    BY <1>5, <1>n, <1>j, <1>y, ReceiveState
  <2>2. \A j \in Jobs : work'[j] = "ok" => work[j] = "ok"
    BY <1>5, ReceiveState
  <2>3. QED
    BY <1>5, <1>k, <2>1, <2>2, CountQuiet, ReceiveState
<1>6. ASSUME NEW s \in Places, Read(s) PROVE CountInv'
  <2>1. Copied(s)' => req'[s].copy = vstatus
    <3>1. req'[s].copy = Document(Stage(s)) /\ req'[s].todo = req[s].todo
      BY <1>6, ReadState
    <3>2. ASSUME Copied(s)' PROVE Stage(s) = "status"
      BY <3>1, <3>2 DEF Copied, Stage
    <3>3. QED
      BY <3>1, <3>2 DEF Document
  <2>2. QED
    BY <1>6, <1>k, <2>1, CountQuiet, ReadState
<1>7. ASSUME NEW s \in Places, WriteJobs(s) PROVE CountInv'
  <2>1. Stage(s) = "jobs" /\ Passes(s) /\ vstatus' = vstatus
    BY <1>7, WriteJobsState
  <2>2. ~Copied(s)'
    BY <2>1, <1>n, <1>j, PassState
  <2>3. \A j \in Jobs : work'[j] = "ok" => work[j] = "ok"
    BY <2>1, <1>y, PassState
  <2>4. \/ req'[s].op # "result"
        \/ req'[s].op = req[s].op /\ req'[s].job = req[s].job /\ req'[s].ok = req[s].ok
    BY <2>1, <1>n, PassState
  <2>5. UNCHANGED <<files, dry>> /\ \A t \in Places \ {s} : req'[t] = req[t]
    BY <2>1, PassState
  <2>6. QED
    BY <1>k, <2>1, <2>2, <2>3, <2>4, <2>5, CountQuiet
<1>8. ASSUME NEW s \in Places, WriteStatus(s) PROVE CountInv'
  <2>1. /\ Stage(s) = "status" /\ Passes(s) /\ vstatus' = Updated(req[s])
        /\ Copied(s)
    BY <1>8, WriteStatusState DEF WriteStatus, Copied
  <2>2. UNCHANGED <<files, dry>> /\ \A t \in Places \ {s} : req'[t] = req[t]
    BY <2>1, PassState
  <2>3. ~Copied(s)'
    BY <2>1, <1>n, <1>j, PassState
  <2>4. /\ IsFiniteSet(Ready') /\ IsFiniteSet(Sent')
        /\ Owed' \in Nat /\ Owed' <= Owed /\ (Counts(req[s]) => Owed' + 1 <= Owed)
    BY <1>8, SentPassed
  <2>5. Appended' = Appended /\ InVault' = InVault
    BY <2>2, AppendedStays DEF InVault
  <2>6. ASSUME NEW w \in Nat, Within(w) PROVE w <= Top /\ (w + Owed' <= InVault' \/ InVault' >= Top)
    BY <2>4, <2>5, <2>6, CountTypes DEF Within
  <2>7. \A t \in Places : Copied(t)' => Within(req[t].copy.writes)'
    <3> SUFFICES ASSUME NEW t \in Places, Copied(t)' PROVE Within(req[t].copy.writes)'
      OBVIOUS
    <3>1. t # s /\ Copied(t) /\ req'[t] = req[t]
      BY <1>k, <2>2, <2>3
    <3> DEFINE w == req[t].copy.writes
    <3>2. w \in Nat /\ Within(w)
      BY <3>1, CountTypes DEF CountInv
    <3> HIDE DEF w
    <3>3. w <= Top /\ (w + Owed' <= InVault' \/ InVault' >= Top)
      BY <2>6, <3>2
    <3>4. QED
      BY <3>1, <3>3 DEF Within, w
  <2>8. Within(vstatus.writes)'
    <3> DEFINE c == req[s].copy.writes
               v == vstatus'.writes
    <3>1. c \in Nat /\ Within(c) /\ req[s].copy \in Statuses /\ req[s].day \in Nat
      BY <2>1, <1>y, CountTypes DEF CountInv, Requests
    <3>2. Counts(req[s]) => v \in {CountUp(c), 1}
      BY <2>1, <3>1, UpdatedCount
    <3>3. ~Counts(req[s]) => v = c
      BY <2>1, <3>1, UpdatedCount
    <3> HIDE DEF c, v
    <3>4. CASE ~Counts(req[s])
      <4>1. c <= Top /\ (c + Owed' <= InVault' \/ InVault' >= Top)
        BY <2>6, <3>1
      <4>2. QED
        BY <3>3, <3>4, <4>1 DEF Within, v
    <3>5. CASE Counts(req[s])
      <4>1. v \in Nat /\ v <= c + 1 /\ v <= Top
        BY <3>1, <3>2, <3>5, BoundAssumption DEF CountUp, Within
      <4>2. v + Owed' <= InVault' \/ InVault' >= Top
        BY <2>4, <2>5, <3>1, <3>5, <4>1, CountTypes DEF Within
      <4>3. QED
        BY <4>1, <4>2 DEF Within, v
    <3>6. QED
      BY <3>4, <3>5
  <2>9. QED
    BY <2>4, <2>5, <2>7, <2>8 DEF CountInv
<1>9. ASSUME NEW s \in Places, Lose(s) PROVE CountInv'
  <2>1. \A j \in Jobs : work'[j] = "ok" => work[j] = "ok"
    BY <1>9, LoseState DEF AfterFailure
  <2>2. \/ req'[s].op # "result"
        \/ req'[s].op = req[s].op /\ req'[s].job = req[s].job /\ req'[s].ok = req[s].ok
    BY <1>9, <1>n, LoseState
  <2>3. Copied(s)' => Copied(s) /\ req'[s].copy = req[s].copy
    <3>1. CASE req'[s] = NoRequest
      BY <1>n, <1>j, <3>1
    <3>2. CASE req'[s].todo = req[s].todo /\ req'[s].copy = req[s].copy
      BY <3>2 DEF Copied, Stage
    <3>3. QED
      BY <1>9, <3>1, <3>2, LoseState
  <2>4. QED
    BY <1>9, <1>k, <2>1, <2>2, <2>3, CountQuiet, LoseState
<1>10. ASSUME NEW j \in Jobs, Execute(j) PROVE CountInv'
  <2>1. UNCHANGED <<vstatus, req, dry>>
    BY <1>10, ExecuteState
  <2>2. CASE dry \/ j \in ReadJobs
    <3>1. files' = files /\ work' = [work EXCEPT ![j] = "ok"]
      BY <1>10, <2>2, ExecuteState
    <3>2. Ready' \subseteq Ready
      BY <1>y, <2>1, <2>2, <3>1 DEF Ready
    <3>3. Sent' \subseteq Sent
      BY <2>1 DEF Sent, Counts
    <3>4. QED
      BY <1>k, <2>1, <3>1, <3>2, <3>3, NotMoreOwed, AppendedStays, CountKept
  <2>3. CASE ~dry /\ j \notin ReadJobs
    <3>1. /\ IsFiniteSet(Ready') /\ IsFiniteSet(Sent') /\ IsFiniteSet(Appended')
          /\ Owed' = Owed + 1 /\ InVault' \in Nat
          /\ InVault' = InVault + 1 \/ (InVault' = InVault /\ InVault >= Top)
      BY <1>10, <2>3, CountExecuted
    <3>2. ASSUME NEW w \in Nat, Within(w)
          PROVE  w <= Top /\ (w + Owed' <= InVault' \/ InVault' >= Top)
      BY <3>1, <3>2, CountTypes DEF Within
    <3>3. Within(vstatus.writes)'
      BY <2>1, <3>2, CountTypes DEF CountInv, Within
    <3>4. ASSUME NEW t \in Places, Copied(t)' PROVE Within(req[t].copy.writes)'
      <4> DEFINE w == req[t].copy.writes
      <4>1. w \in Nat /\ Within(w) /\ req'[t] = req[t]
        BY <1>k, <2>1, <3>4, CountTypes DEF CountInv
      <4> HIDE DEF w
      <4>2. w <= Top /\ (w + Owed' <= InVault' \/ InVault' >= Top)
        BY <3>2, <4>1
      <4>3. QED
        BY <4>1, <4>2 DEF Within, w
    <3>5. QED
      BY <3>1, <3>3, <3>4 DEF CountInv
  <2>4. QED
    BY <2>2, <2>3
<1>11. ASSUME NEW j \in Jobs, ExecuteFails(j) PROVE CountInv'
  <2>1. \A i \in Jobs : work'[i] = "ok" => work[i] = "ok"
    BY <1>11, <1>y, ExecuteFailsState
  <2>2. QED
    BY <1>11, <1>k, <2>1, CountQuiet, ExecuteFailsState
<1>12. CASE Restart
  <2>1. ASSUME NEW t \in Places
        PROVE  /\ \/ req'[t].op # "result" \/ req'[t] = req[t]
                  \/ req'[t].op = req[t].op /\ req'[t].job = req[t].job /\ req'[t].ok = req[t].ok
               /\ Copied(t)' => Copied(t) /\ req'[t].copy = req[t].copy
    <3>1. CASE req'[t] = req[t]
      BY <1>k, <3>1
    <3>2. CASE req'[t] = NoRequest
      BY <1>n, <1>j, <3>2
    <3>3. CASE /\ req'[t].op = req[t].op /\ req'[t].todo = req[t].todo
               /\ req'[t].job = req[t].job /\ req'[t].ok = req[t].ok /\ req'[t].copy = req[t].copy
      BY <3>3 DEF Copied, Stage
    <3>4. QED
      BY <1>12, <3>1, <3>2, <3>3, RestartState
  <2>2. QED
    BY <1>12, <2>1, CountQuiet, RestartState
<1>13. CASE Midnight
  BY <1>13, <1>k, CountQuiet, MidnightState
<1>14. CASE UNCHANGED vars
  <2>1. UNCHANGED <<vstatus, req, work, files, dry>>
    BY <1>14 DEF vars, server, bridge
  <2>2. QED
    BY <1>k, <2>1, CountQuiet
<1>15. QED
  BY <1>1, <1>2, <1>3, <1>4, <1>5, <1>6, <1>7, <1>8, <1>9, <1>10, <1>11, <1>12, <1>13, <1>14, Steps

\* The first day, nothing was lost and no set has undone another.
Orderly == today = 1 /\ faults = 0 /\ raced = {}

Posting(s) == req[s].op = "result"

\* The documents, the bridge and the requests know only jobs that are there, a post is
\* waited for, by one, and what is not counted yet is owed.
Known   == \A j \in Jobs : work[j] # "idle" => jobs[j] # "absent"
Awaited == \A s \in Places :
             /\ Posting(s) => /\ req[s].day = 1 /\ req[s].bridge
                              /\ work[req[s].job] \in {"okSent", "errorSent"}
             /\ \A j \in req[s].queued : jobs[j] # "absent"
Alone   == \A s, t \in Places : Posting(s) /\ Posting(t) /\ req[s].job = req[t].job => s = t
Covered == vstatus.writes + Owed >= InVault \/ vstatus.writes + Owed >= Top

OrderlyInv ==
    /\ today >= 1
    /\ Orderly =>
         /\ vstatus.day \in {0, 1} /\ (vstatus.day = 0 => vstatus.writes = 0)
         /\ Known /\ Awaited /\ Alone
         /\ Covered

LEMMA OrderlyInit == Init => OrderlyInv
<1> SUFFICES ASSUME Init PROVE OrderlyInv
  OBVIOUS
<1>1. \A s \in Places : req[s].op = "none" /\ req[s].queued = {}
  BY DEF Init, NoRequest
<1>2. Known /\ Awaited /\ Alone
  BY <1>1 DEF Init, Known, Awaited, Alone, Posting
<1>3. Ready = {} /\ Sent = {} /\ Appended = {}
  BY <1>1, BoundAssumption DEF Init, Ready, Sent, Counts, Appended
<1>4. Owed = 0 /\ InVault = 0
  BY <1>3, FS_EmptySet DEF Owed, InVault
<1>5. vstatus.writes = 0 /\ vstatus.day = 0 /\ today = 1
  BY DEF Init, NoStatus
<1>6. QED
  BY <1>2, <1>4, <1>5 DEF OrderlyInv, Covered

LEMMA OrderlyBefore ==
    ASSUME TypeInv, OrderlyInv, [Next]_vars
    PROVE  today' >= 1 /\ (Orderly' => Orderly /\ UNCHANGED <<today, faults, raced>>)
<1>y. today \in Nat /\ today >= 1 /\ faults \in Nat /\ Slots \subseteq Places
  BY DEF TypeInv, TypeOK, OrderlyInv, Places
<1>1. /\ today' = today \/ today' = today + 1
      /\ faults' = faults \/ faults' = faults + 1
      /\ raced \subseteq raced'
  <2> DEFINE Goal == /\ today' = today \/ today' = today + 1
                     /\ faults' = faults \/ faults' = faults + 1
                     /\ raced \subseteq raced'
  <2>1. ASSUME NEW s \in Places, WriteJobs(s) \/ WriteStatus(s) PROVE Goal
    BY <2>1 DEF WriteJobs, WriteStatus, Passes
  <2>2. ASSUME NEW s \in Slots, NEW j \in Jobs, Report(s, j) PROVE Goal
    BY <1>y, <2>2, ReportState
  <2>3. ASSUME NEW s \in Slots, NEW j \in Jobs, Create(s, j) \/ Note(s, j) PROVE Goal
    BY <1>y, <2>3, CreateState
  <2>4. ASSUME NEW s \in Slots, Announce(s) PROVE Goal
    BY <1>y, <2>4, AnnounceState
  <2>5. CASE Poll
    BY <2>5, PollState
  <2>6. CASE Receive
    BY <2>6, ReceiveState
  <2>7. ASSUME NEW s \in Places, Read(s) \/ Lose(s) PROVE Goal
    BY <2>7, ReadState, LoseState
  <2>8. ASSUME NEW j \in Jobs, Execute(j) \/ ExecuteFails(j) PROVE Goal
    BY <2>8, ExecuteState, ExecuteFailsState
  <2>9. CASE Restart \/ Midnight
    BY <2>9 DEF Restart, Midnight
  <2>10. CASE UNCHANGED vars
    BY <2>10 DEF vars
  <2>11. QED
    BY <2>1, <2>2, <2>3, <2>4, <2>5, <2>6, <2>7, <2>8, <2>9, <2>10, Steps
<1>2. QED
  BY <1>y, <1>1 DEF Orderly

\* A step that posts nothing leaves the jobs known and the posts awaited.
LEMMA CalmKept ==
    ASSUME TypeInv, Known, Awaited, Alone,
           \A j \in Jobs : jobs[j] # "absent" => jobs'[j] # "absent",
           \A j \in Jobs : work'[j] # "idle" => work[j] # "idle" \/ jobs[j] # "absent",
           \A s \in Places : \A j \in req'[s].queued : j \in req[s].queued \/ jobs[j] = "queued",
           \A s \in Places : Posting(s)' =>
               /\ Posting(s) /\ req'[s].job = req[s].job /\ req'[s].day = req[s].day
               /\ req'[s].bridge = req[s].bridge
               /\ work'[req[s].job] = work[req[s].job],
           \A s \in Places : req'[s].queued \subseteq Jobs
    PROVE  Known' /\ Awaited' /\ Alone'
<1>1. Known'
  BY DEF Known
<1>2. Alone'
  BY DEF Alone
<1>3. ASSUME NEW s \in Places, Posting(s)'
      PROVE  req'[s].day = 1 /\ req'[s].bridge /\ work'[req'[s].job] \in {"okSent", "errorSent"}
  BY <1>3 DEF Awaited
<1>4. ASSUME NEW s \in Places, NEW j \in req'[s].queued PROVE jobs'[j] # "absent"
  BY <1>4 DEF Awaited
<1>5. Awaited'
  BY <1>3, <1>4 DEF Awaited
<1>6. QED
  BY <1>1, <1>2, <1>5

\* What was owed is still owed.
LEMMA CoveredKept ==
    ASSUME TypeInv, CountInv, TypeInv', CountInv', Covered,
           Ready \subseteq Ready', Sent \subseteq Sent', Appended' = Appended,
           vstatus'.writes = vstatus.writes
    PROVE  Covered'
<1>1. Cardinality(Ready) <= Cardinality(Ready') /\ Cardinality(Sent) <= Cardinality(Sent')
  BY FS_Subset DEF CountInv
<1>2. /\ Cardinality(Ready') \in Nat /\ Cardinality(Ready) \in Nat
      /\ Cardinality(Sent') \in Nat /\ Cardinality(Sent) \in Nat
  BY FS_CardinalityType DEF CountInv
<1>3. Owed' >= Owed /\ Owed' \in Nat /\ Owed \in Nat
  BY <1>1, <1>2 DEF Owed
<1>4. InVault' = InVault
  BY DEF InVault
<1>5. vstatus.writes \in Nat /\ InVault \in Nat /\ Top \in Nat
  BY CountTypes
<1>6. QED
  BY <1>3, <1>4, <1>5 DEF Covered

\* A step that posts nothing, counts nothing and appends nothing.
LEMMA OrderlyQuiet ==
    ASSUME TypeInv, CountInv, TypeInv', CountInv', OrderlyInv, Orderly, today' >= 1,
           UNCHANGED <<vstatus, files, dry>>,
           \A j \in Jobs : jobs[j] # "absent" => jobs'[j] # "absent",
           \A j \in Jobs : /\ work'[j] # "idle" => work[j] # "idle" \/ jobs[j] # "absent"
                           /\ work[j] = "ok" => work'[j] = "ok",
           \A s \in Places : \A j \in req'[s].queued : j \in req[s].queued \/ jobs[j] = "queued",
           \A s \in Places : Posting(s) \/ Posting(s)' =>
               /\ Posting(s) /\ Posting(s)'
               /\ req'[s].job = req[s].job /\ req'[s].day = req[s].day
               /\ req'[s].bridge = req[s].bridge /\ req'[s].ok = req[s].ok
               /\ work'[req[s].job] = work[req[s].job]
    PROVE  OrderlyInv'
<1>1. /\ vstatus.day \in {0, 1} /\ (vstatus.day = 0 => vstatus.writes = 0)
      /\ Known /\ Awaited /\ Alone /\ Covered
  BY DEF OrderlyInv
<1>2. \A s \in Places : req'[s].queued \subseteq Jobs
  BY DEF TypeInv, TypeOK, Requests
<1>3. Known' /\ Awaited' /\ Alone'
  BY <1>1, <1>2, CalmKept
<1>4. Ready \subseteq Ready'
  BY DEF Ready
<1>5. Sent \subseteq Sent'
  BY DEF Sent, Counts, Posting
<1>6. Covered'
  BY <1>1, <1>4, <1>5, AppendedStays, CoveredKept
<1>7. QED
  BY <1>1, <1>3, <1>6 DEF OrderlyInv

LEMMA OrderlyStep ==
    TypeInv /\ CountInv /\ OrderlyInv /\ TypeInv' /\ CountInv' /\ [Next]_vars => OrderlyInv'
<1> SUFFICES ASSUME TypeInv, CountInv, OrderlyInv, TypeInv', CountInv', [Next]_vars, Orderly'
             PROVE  OrderlyInv'
  BY OrderlyBefore DEF OrderlyInv
<1>o. Orderly /\ today' >= 1 /\ UNCHANGED <<today, faults, raced>>
  BY OrderlyBefore
<1>i. /\ vstatus.day \in {0, 1} /\ (vstatus.day = 0 => vstatus.writes = 0)
      /\ Known /\ Awaited /\ Alone /\ Covered
  BY <1>o DEF OrderlyInv
<1>y. /\ Slots \subseteq Places /\ Poller \in Places
      /\ work \in [Jobs -> Works] /\ req \in [Places -> Requests] /\ jobs \in Lists
      /\ \A s \in Places : Planned(req[s])
      /\ today = 1 /\ faults \in Nat
  BY <1>o DEF Places, TypeInv, TypeOK, Orderly
<1>n. NoRequest.op = "none" /\ NoRequest.queued = {}
  BY DEF NoRequest
<1>1. ASSUME NEW s \in Slots, NEW j \in Jobs, Create(s, j) \/ Note(s, j) PROVE OrderlyInv'
  <2>1. ~Posting(s) /\ ~Posting(s)' /\ req'[s].queued = {}
    BY <1>1, <1>n, CreateState DEF Posting
  <2>2. UNCHANGED <<vstatus, files, dry, jobs, work>> /\ \A t \in Places \ {s} : req'[t] = req[t]
    BY <1>1, CreateState
  <2>3. QED
    BY <1>o, <2>1, <2>2, OrderlyQuiet DEF Posting
<1>2. ASSUME NEW s \in Slots, NEW j \in Jobs, Report(s, j) PROVE OrderlyInv'
  <2>1. /\ UNCHANGED <<jobs, vstatus, files, dry>> /\ s \in Places
        /\ req[s] = NoRequest /\ work[j] \in {"ok", "error"} /\ jobs[j] # "absent"
        /\ \A t \in Places \ {s} : req'[t] = req[t]
        /\ \A i \in Jobs \ {j} : work'[i] = work[i]
    BY <1>2, <1>i, <1>y, ReportState DEF Known
  <2>2. /\ req'[s].op = "result" /\ req'[s].job = j /\ req'[s].bridge
        /\ req'[s].ok <=> work[j] = "ok"
        /\ req'[s].day = 1 /\ req'[s].queued = {}
        /\ work'[j] \in {"okSent", "errorSent"}
    BY <1>2, <1>y, <2>1, ReportState
  <2>3. \A t \in Places : Posting(t) => req[t].job # j /\ req[t].job \in Jobs /\ t # s
    BY <1>i, <1>y, <1>n, <2>1 DEF Awaited, Posting, Planned
  <2>4. Known'
    BY <1>i, <2>1 DEF Known
  <2>5. Alone'
    BY <1>i, <2>1, <2>2, <2>3 DEF Alone, Posting
  <2>6. Awaited'
    <3>1. ASSUME NEW t \in Places, Posting(t)'
          PROVE  req'[t].day = 1 /\ req'[t].bridge /\ work'[req'[t].job] \in {"okSent", "errorSent"}
      <4>1. CASE t = s
        BY <2>2, <4>1
      <4>2. CASE t # s
        BY <1>i, <2>1, <2>3, <3>1, <4>2 DEF Awaited, Posting
      <4>3. QED
        BY <4>1, <4>2
    <3>2. ASSUME NEW t \in Places, NEW i \in req'[t].queued PROVE jobs'[i] # "absent"
      BY <1>i, <2>1, <2>2, <3>2 DEF Awaited
    <3>3. QED
      BY <3>1, <3>2 DEF Awaited
  <2>7. Covered'
    <3>1. s \notin Sent /\ Sent \subseteq Sent'
      BY <1>n, <2>1, <2>3 DEF Sent, Counts
    <3>2. CASE j \notin Ready
      <4>1. Ready \subseteq Ready'
        BY <2>1, <3>2 DEF Ready
      <4>2. QED
        BY <1>i, <2>1, <3>1, <4>1, AppendedStays, CoveredKept
    <3>3. CASE j \in Ready
      <4>1. Ready \ {j} \subseteq Ready' /\ Sent \union {s} \subseteq Sent'
        BY <2>1, <2>2, <3>1, <3>3 DEF Ready, Sent, Counts
      <4>2. IsFiniteSet(Ready \ {j}) /\ Cardinality(Ready \ {j}) = Cardinality(Ready) - 1
        BY <3>3, FS_RemoveElement DEF CountInv
      <4>3. IsFiniteSet(Sent \union {s}) /\ Cardinality(Sent \union {s}) = Cardinality(Sent) + 1
        BY <3>1, FS_AddElement DEF CountInv
      <4>4. /\ Cardinality(Ready \ {j}) <= Cardinality(Ready')
            /\ Cardinality(Sent \union {s}) <= Cardinality(Sent')
        BY <4>1, FS_Subset DEF CountInv
      <4>5. Cardinality(Ready') \in Nat /\ Cardinality(Sent') \in Nat
        BY FS_CardinalityType DEF CountInv
      <4>6. Owed' >= Owed /\ Owed' \in Nat
        BY <4>2, <4>3, <4>4, <4>5, CountTypes DEF Owed
      <4>7. InVault' = InVault
        BY <2>1, AppendedStays DEF InVault
      <4>8. QED
        BY <1>i, <2>1, <4>6, <4>7, CountTypes DEF Covered
    <3>4. QED
      BY <3>2, <3>3
  <2>8. QED
    BY <1>i, <1>o, <2>1, <2>4, <2>5, <2>6, <2>7 DEF OrderlyInv
<1>3. ASSUME NEW s \in Slots, Announce(s) PROVE OrderlyInv'
  <2>1. ~Posting(s) /\ ~Posting(s)' /\ req'[s].queued = {}
    BY <1>3, <1>n, AnnounceState DEF Posting
  <2>2. UNCHANGED <<vstatus, files, dry, jobs, work>> /\ \A t \in Places \ {s} : req'[t] = req[t]
    BY <1>3, AnnounceState
  <2>3. QED
    BY <1>o, <2>1, <2>2, OrderlyQuiet DEF Posting
<1>4. CASE Poll
  <2>1. /\ ~Posting(Poller) /\ ~Posting(Poller)'
        /\ \A j \in req'[Poller].queued : jobs[j] = "queued"
    BY <1>4, <1>n, PollState DEF Posting
  <2>2. UNCHANGED <<vstatus, files, dry, jobs, work>> /\ \A t \in Places \ {Poller} : req'[t] = req[t]
    BY <1>4, PollState
  <2>3. QED
    BY <1>o, <2>1, <2>2, OrderlyQuiet DEF Posting
<1>5. CASE Receive
  <2>1. ~Posting(Poller) /\ ~Posting(Poller)' /\ req'[Poller].queued = {}
    <3>1. req[Poller].todo = <<>>
      BY <1>5 DEF Receive, Answered
    <3>2. ~Posting(Poller)
      BY <1>y, <3>1, TodoFacts DEF Planned, Posting
    <3>3. QED
      BY <1>5, <1>n, <3>2, ReceiveState DEF Posting
  <2>2. UNCHANGED <<vstatus, files, dry, jobs>> /\ \A t \in Places \ {Poller} : req'[t] = req[t]
    BY <1>5, ReceiveState
  <2>3. \A j \in Jobs : /\ work'[j] # "idle" => work[j] # "idle" \/ jobs[j] # "absent"
                        /\ work[j] # "idle" => work'[j] = work[j]
    BY <1>5, <1>i, <1>y, ReceiveState DEF Awaited
  <2>4. \A t \in Places : Posting(t) => work'[req[t].job] = work[req[t].job]
    BY <1>i, <1>y, <2>3 DEF Awaited, Posting, Planned
  <2>5. QED
    BY <1>o, <2>1, <2>2, <2>3, <2>4, OrderlyQuiet DEF Posting
<1>6. ASSUME NEW s \in Places, Read(s) PROVE OrderlyInv'
  <2>1. /\ UNCHANGED <<vstatus, files, dry, jobs, work>>
        /\ \A t \in Places \ {s} : req'[t] = req[t]
        /\ req'[s].op = req[s].op /\ req'[s].job = req[s].job /\ req'[s].ok = req[s].ok
        /\ req'[s].bridge = req[s].bridge /\ req'[s].day = req[s].day
        /\ req'[s].queued = req[s].queued
    BY <1>6, ReadState
  <2>2. QED
    BY <1>o, <2>1, OrderlyQuiet DEF Posting
<1>7. ASSUME NEW s \in Places, WriteJobs(s) PROVE OrderlyInv'
  <2>1. /\ Stage(s) = "jobs" /\ Passes(s) /\ UNCHANGED vstatus
        /\ req[s].copy = jobs /\ req[s].job \in Jobs
        /\ \A j \in Jobs : jobs[j] # "absent" => jobs'[j] # "absent"
    <3>1. /\ Stage(s) = "jobs" /\ Passes(s) /\ UNCHANGED vstatus /\ req[s].job \in Jobs
          /\ raced' = IF req[s].copy = jobs THEN raced ELSE raced \union {"jobs"}
          /\ jobs' = [req[s].copy EXCEPT ![req[s].job] =
                        IF req[s].op # "result" THEN "queued"
                        ELSE IF req[s].ok THEN "done" ELSE "error"]
      BY <1>7, WriteJobsState
    <3>2. req[s].copy = jobs
      BY <1>o, <3>1 DEF Orderly
    <3>3. QED
      BY <1>y, <3>1, <3>2 DEF Lists
  <2>2. /\ UNCHANGED <<files, dry, work>> /\ \A t \in Places \ {s} : req'[t] = req[t]
        /\ req'[s].queued \subseteq req[s].queued
    BY <2>1, PassState
  <2>3. Posting(s) \/ Posting(s)' =>
            /\ Posting(s) /\ Posting(s)'
            /\ req'[s].job = req[s].job /\ req'[s].day = req[s].day
            /\ req'[s].bridge = req[s].bridge /\ req'[s].ok = req[s].ok
    BY <2>1, <1>n, PassState DEF Posting
  <2>4. QED
    BY <1>o, <2>1, <2>2, <2>3, OrderlyQuiet DEF Posting
<1>8. ASSUME NEW s \in Places, WriteStatus(s) PROVE OrderlyInv'
  <2>1. /\ Stage(s) = "status" /\ Passes(s) /\ UNCHANGED jobs
        /\ vstatus' = Updated(req[s])
        /\ req[s].copy = vstatus
    BY <1>8, <1>o, WriteStatusState DEF Orderly
  <2>2. /\ UNCHANGED <<files, dry>> /\ \A t \in Places \ {s} : req'[t] = req[t]
        /\ req'[s].queued \subseteq req[s].queued /\ ~Posting(s)'
        /\ \A j \in Jobs : work'[j] \in {work[j], "idle"}
        /\ \A j \in Jobs : work'[j] # work[j] => Posting(s) /\ req[s].job = j
    BY <2>1, <1>n, <1>y, PassState DEF Posting
  <2>3. Known' /\ Awaited' /\ Alone'
    <3>1. \A t \in Places : Posting(t)' => Posting(t) /\ req'[t] = req[t] /\ t # s
      BY <2>2 DEF Posting
    <3>2. \A t \in Places : Posting(t)' => work'[req[t].job] = work[req[t].job]
      BY <1>i, <1>y, <2>2, <3>1 DEF Alone, Planned, Posting
    <3>3. \A t \in Places : req'[t].queued \subseteq Jobs
      BY DEF TypeInv, TypeOK, Requests
    <3>4. \A j \in Jobs : /\ jobs[j] # "absent" => jobs'[j] # "absent"
                          /\ work'[j] # "idle" => work[j] # "idle" \/ jobs[j] # "absent"
      BY <2>1, <2>2
    <3>5. \A t \in Places : \A j \in req'[t].queued : j \in req[t].queued \/ jobs[j] = "queued"
      BY <2>2
    <3>6. QED
      BY <1>i, <3>1, <3>2, <3>3, <3>4, <3>5, CalmKept
  <2>4. Ready \subseteq Ready' /\ Sent \ {s} \subseteq Sent'
    <3>1. \A j \in Jobs : work[j] = "ok" => work'[j] = "ok"
      BY <1>i, <2>2 DEF Awaited
    <3>2. QED
      BY <2>2, <3>1 DEF Ready, Sent, Counts
  <2>5. vstatus \in Statuses /\ req[s].day \in Nat
    BY <1>y DEF TypeInv, TypeOK, Requests
  <2>6. CASE ~Counts(req[s])
    <3>1. vstatus'.day = vstatus.day /\ vstatus'.writes = vstatus.writes
      BY <2>1, <2>5, <2>6, UpdatedCount
    <3>2. Sent \subseteq Sent'
      BY <2>4, <2>6 DEF Sent
    <3>3. Covered'
      BY <1>i, <2>2, <2>4, <3>1, <3>2, AppendedStays, CoveredKept
    <3>4. QED
      BY <1>i, <1>o, <2>3, <3>1, <3>3 DEF OrderlyInv
  <2>7. CASE Counts(req[s])
    <3>1. req[s].day = 1
      BY <1>i, <2>7 DEF Awaited, Posting, Counts
    <3>2. /\ vstatus'.day = 1
          /\ vstatus.day = 1 => vstatus'.writes = CountUp(vstatus.writes)
          /\ vstatus.day # 1 => vstatus'.writes = 1 /\ vstatus.writes = 0
      BY <1>i, <2>1, <2>5, <2>7, <3>1, UpdatedCount
    <3>3. \/ vstatus'.writes = vstatus.writes + 1
          \/ vstatus'.writes = Top
      BY <1>i, <3>2 DEF CountUp
    <3>4. IsFiniteSet(Sent \ {s}) /\ Cardinality(Sent \ {s}) >= Cardinality(Sent) - 1
      <4>1. s \in Sent
        BY <2>7 DEF Sent
      <4>2. IsFiniteSet(Sent \ {s}) /\ Cardinality(Sent \ {s}) = Cardinality(Sent) - 1
        BY <4>1, FS_RemoveElement DEF CountInv
      <4>3. QED
        BY <4>2, CountTypes
    <3>5. /\ Cardinality(Ready) <= Cardinality(Ready')
          /\ Cardinality(Sent \ {s}) <= Cardinality(Sent')
      BY <2>4, FS_Subset DEF CountInv
    <3>6. /\ Cardinality(Ready') \in Nat /\ Cardinality(Sent') \in Nat
          /\ Cardinality(Sent \ {s}) \in Nat
      BY <3>4, FS_CardinalityType DEF CountInv
    <3>7. Owed' + 1 >= Owed /\ Owed' \in Nat
      BY <3>4, <3>5, <3>6, CountTypes DEF Owed
    <3>8. InVault' = InVault
      BY <2>2, AppendedStays DEF InVault
    <3>9. Covered'
      <4>1. vstatus.writes + Owed <= vstatus'.writes + Owed' \/ vstatus'.writes + Owed' >= Top
        BY <3>3, <3>7, CountTypes
      <4>2. vstatus'.writes \in Nat
        BY <3>3, CountTypes
      <4>3. QED
        BY <1>i, <3>7, <3>8, <4>1, <4>2, CountTypes DEF Covered
    <3>10. QED
      BY <1>o, <2>3, <3>2, <3>9 DEF OrderlyInv
  <2>8. QED
    BY <2>6, <2>7
<1>9. ASSUME NEW s \in Places, Lose(s) PROVE OrderlyInv'
  <2>1. faults' = faults + 1
    BY <1>9, LoseState
  <2>2. QED
    BY <1>o, <1>y, <2>1
<1>10. ASSUME NEW j \in Jobs, Execute(j) PROVE OrderlyInv'
  <2>1. /\ UNCHANGED <<vstatus, req, dry, jobs>> /\ work[j] = "execute"
        /\ work' = [work EXCEPT ![j] = "ok"]
    BY <1>10, ExecuteState
  <2>2. /\ \A i \in Jobs : /\ work'[i] # "idle" => work[i] # "idle" \/ jobs[i] # "absent"
                           /\ work[i] = "ok" => work'[i] = "ok"
        /\ \A t \in Places : Posting(t) => work'[req[t].job] = work[req[t].job]
    BY <1>i, <1>y, <2>1 DEF Awaited, Posting, Planned
  <2>3. CASE dry \/ j \in ReadJobs
    <3>1. files' = files
      BY <1>10, <2>3, ExecuteState
    <3>2. QED
      BY <1>o, <2>1, <2>2, <3>1, OrderlyQuiet DEF Posting
  <2>4. CASE ~dry /\ j \notin ReadJobs
    <3>1. Known' /\ Awaited' /\ Alone'
      <4>1. \A t \in Places : req'[t].queued \subseteq Jobs
        BY DEF TypeInv, TypeOK, Requests
      <4>2. QED
        BY <1>i, <2>1, <2>2, <4>1, CalmKept DEF Posting
    <3>2. /\ Owed' = Owed + 1 /\ InVault' \in Nat
          /\ InVault' = InVault + 1 \/ (InVault' = InVault /\ InVault >= Top)
      BY <1>10, <2>4, CountExecuted
    <3>3. Covered'
      BY <1>i, <2>1, <3>2, CountTypes DEF Covered
    <3>4. QED
      BY <1>i, <1>o, <2>1, <3>1, <3>3 DEF OrderlyInv
  <2>5. QED
    BY <2>3, <2>4
<1>11. ASSUME NEW j \in Jobs, ExecuteFails(j) PROVE OrderlyInv'
  <2>1. /\ UNCHANGED <<vstatus, req, dry, jobs, files>> /\ work[j] = "execute"
        /\ work' = [work EXCEPT ![j] = "error"]
    BY <1>11, ExecuteFailsState
  <2>2. /\ \A i \in Jobs : /\ work'[i] # "idle" => work[i] # "idle" \/ jobs[i] # "absent"
                           /\ work[i] = "ok" => work'[i] = "ok"
        /\ \A t \in Places : Posting(t) => work'[req[t].job] = work[req[t].job]
    BY <1>i, <1>y, <2>1 DEF Awaited, Posting, Planned
  <2>3. QED
    BY <1>o, <2>1, <2>2, OrderlyQuiet DEF Posting
<1>12. CASE Restart
  BY <1>12, <1>o, <1>y, RestartState
<1>13. CASE Midnight
  BY <1>13, <1>o, <1>y DEF Midnight
<1>14. CASE UNCHANGED vars
  <2>1. UNCHANGED <<jobs, vstatus, req, work, files, dry>>
    BY <1>14 DEF vars, server, bridge
  <2>2. QED
    BY <1>o, <2>1, OrderlyQuiet DEF Posting
<1>15. QED
  BY <1>1, <1>2, <1>3, <1>4, <1>5, <1>6, <1>7, <1>8, <1>9, <1>10, <1>11, <1>12, <1>13, <1>14, Steps

\* The counter of vault writes on the dashboard never exceeds the writes in the vault,
\* and on the first day, when nothing was lost and no set has undone another, it is
\* exact at rest: handleVaultJobResult() and upsertVaultStatus() count each append once.
THEOREM CounterIsRight == Spec => []CounterAgrees
<1>1. Spec => []CountInv
  BY TypeInvariant, CountInit, CountStep, PTL DEF Spec
<1>2. Spec => []OrderlyInv
  BY <1>1, TypeInvariant, OrderlyInit, OrderlyStep, PTL DEF Spec
<1>3. TypeInv /\ CountInv /\ OrderlyInv => CounterAgrees
  <2> SUFFICES ASSUME TypeInv, CountInv, OrderlyInv PROVE CounterAgrees
    OBVIOUS
  <2>t. Owed \in Nat /\ InVault \in Nat /\ Top \in Nat /\ vstatus.writes \in Nat
    BY CountTypes
  <2>1. vstatus.writes <= Top /\ (vstatus.writes + Owed <= InVault \/ InVault >= Top)
    BY DEF CountInv, Within
  <2>2. vstatus.writes <= InVault
    BY <2>t, <2>1
  <2>3. ASSUME AtRest, Orderly PROVE vstatus.writes = Min({InVault, Top})
    <3>1. Ready = {} /\ Sent = {}
      <4>1. \A s \in Places : req[s].op = "none"
        BY <2>3 DEF AtRest, Free, NoRequest
      <4>2. QED
        BY <2>3, <4>1 DEF AtRest, Ready, Sent, Counts
    <3>2. Owed = 0
      BY <3>1, FS_EmptySet DEF Owed
    <3>3. vstatus.writes >= InVault \/ vstatus.writes >= Top
      BY <2>3, <2>t, <3>2 DEF OrderlyInv, Covered
    <3> DEFINE w == vstatus.writes
    <3>4. w \in {InVault, Top} /\ \A x \in {InVault, Top} : w <= x
      BY <2>t, <2>1, <2>2, <3>3
    <3>5. \A x \in {InVault, Top} : (\A z \in {InVault, Top} : x <= z) => x = w
      BY <2>t, <3>4
    <3> HIDE DEF w
    <3>6. QED
      BY <3>4, <3>5 DEF Min, w
  <2>4. QED
    BY <2>2, <2>3 DEF CounterAgrees, InVault, Orderly
<1>4. QED
  BY <1>1, <1>2, <1>3, TypeInvariant, PTL

-----------------------------------------------------------------------------
(* The announcement stands *)

\* Once announceVaultStatus() is stored the vault stays enabled, unless a set of the
\* status has undone another request's set: no heartbeat and no counted write of
\* handleVaultJobResult() takes the announcement back by itself.
THEOREM VaultStaysEnabled == Spec => []StaysEnabled
<1>1. Init => StaysEnabled
  BY DEF Init, StaysEnabled
<1>2. TypeInv /\ StaysEnabled /\ [Next]_vars => StaysEnabled'
  <2> SUFFICES ASSUME TypeInv, StaysEnabled, [Next]_vars PROVE StaysEnabled'
    OBVIOUS
  <2>p. Slots \subseteq Places
    BY DEF Places
  <2>1. CASE UNCHANGED <<vstatus, announced, raced>>
    BY <2>1 DEF StaysEnabled
  <2>2. ASSUME NEW s \in Places, WriteJobs(s) PROVE StaysEnabled'
    <3>1. UNCHANGED <<vstatus, announced>> /\ raced \subseteq raced'
      BY <2>2, WriteJobsState
    <3>2. QED
      BY <3>1 DEF StaysEnabled
  <2>3. ASSUME NEW s \in Places, WriteStatus(s) PROVE StaysEnabled'
    <3>1. ASSUME announced', "status" \notin raced' PROVE vstatus'.enabled
      <4>1. req[s].copy = vstatus /\ raced' = raced
        BY <2>3, <3>1, WriteStatusState
      <4>2. CASE req[s].op = "announce"
        BY <2>3, <4>2, WriteStatusState
      <4>3. CASE req[s].op # "announce"
        <5>1. announced /\ vstatus'.enabled \in {vstatus.enabled, TRUE}
          BY <2>3, <3>1, <4>1, <4>3, WriteStatusState
        <5>2. vstatus.enabled
          BY <3>1, <4>1, <5>1 DEF StaysEnabled
        <5>3. QED
          BY <5>1, <5>2
      <4>4. QED
        BY <4>2, <4>3
    <3>2. QED
      BY <3>1 DEF StaysEnabled
  <2>4. ASSUME NEW s \in Slots, NEW j \in Jobs, Create(s, j) \/ Note(s, j) \/ Report(s, j)
        PROVE  StaysEnabled'
    BY <2>p, <2>1, <2>4, CreateState, ReportState
  <2>5. ASSUME NEW s \in Slots, Announce(s) PROVE StaysEnabled'
    BY <2>p, <2>1, <2>5, AnnounceState
  <2>6. CASE Poll \/ Receive
    BY <2>1, <2>6, PollState, ReceiveState
  <2>7. ASSUME NEW s \in Places, Read(s) \/ Lose(s) PROVE StaysEnabled'
    BY <2>1, <2>7, ReadState, LoseState
  <2>8. ASSUME NEW j \in Jobs, Execute(j) \/ ExecuteFails(j) PROVE StaysEnabled'
    BY <2>1, <2>8, ExecuteState, ExecuteFailsState
  <2>9. CASE Restart \/ Midnight \/ UNCHANGED vars
    BY <2>1, <2>9, RestartState, MidnightState DEF vars, server
  <2>10. QED
    BY <2>2, <2>3, <2>4, <2>5, <2>6, <2>7, <2>8, <2>9, Steps
<1>3. QED
  BY <1>1, <1>2, TypeInvariant, PTL DEF Spec

\* What the dashboard says of the vault, its counter and whether it is enabled, agrees
\* with what the bridge has done to it.
THEOREM StatusIsRight == Spec => []StatusAgrees
<1>1. CounterAgrees /\ StaysEnabled => StatusAgrees
  BY DEF StatusAgrees
<1>2. QED
  BY <1>1, CounterIsRight, VaultStaysEnabled, PTL

-----------------------------------------------------------------------------
(* Where the vault is touched *)

\* What was written went to the path that resolveVaultPath() returned.
FileInv ==
    \A j \in Jobs : files[j].times > 0 =>
        files[j].path = ResolveVaultPath(Target[j]) /\ files[j].path # NoPath

LEMMA FileInvariant == Spec => []FileInv
<1>1. Init => FileInv
  BY DEF Init, FileInv
<1>2. TypeInv /\ FileInv /\ [Next]_vars => FileInv'
  <2> SUFFICES ASSUME TypeInv, FileInv, [Next]_vars PROVE FileInv'
    OBVIOUS
  <2>p. Slots \subseteq Places
    BY DEF Places
  <2>1. CASE UNCHANGED files
    BY <2>1 DEF FileInv
  <2>2. ASSUME NEW s \in Places, WriteJobs(s) \/ WriteStatus(s) PROVE FileInv'
    BY <2>1, <2>2 DEF WriteJobs, WriteStatus, Passes
  <2>3. ASSUME NEW s \in Slots, NEW j \in Jobs, Create(s, j) \/ Note(s, j) \/ Report(s, j)
        PROVE  FileInv'
    BY <2>p, <2>1, <2>3, CreateState, ReportState
  <2>4. ASSUME NEW s \in Slots, Announce(s) PROVE FileInv'
    BY <2>p, <2>1, <2>4, AnnounceState
  <2>5. CASE Poll \/ Receive
    BY <2>1, <2>5, PollState, ReceiveState
  <2>6. ASSUME NEW s \in Places, Read(s) \/ Lose(s) PROVE FileInv'
    BY <2>1, <2>6, ReadState, LoseState
  <2>7. ASSUME NEW j \in Jobs, ExecuteFails(j) PROVE FileInv'
    BY <2>1, <2>7, ExecuteFailsState
  <2>8. ASSUME NEW j \in Jobs, Execute(j) PROVE FileInv'
    <3>1. CASE dry \/ j \in ReadJobs
      BY <2>1, <2>8, <3>1, ExecuteState
    <3>2. CASE ~(dry \/ j \in ReadJobs)
      BY <2>8, <3>2, ExecuteState DEF FileInv
    <3>3. QED
      BY <3>1, <3>2
  <2>9. CASE Restart \/ Midnight \/ UNCHANGED vars
    BY <2>1, <2>9, RestartState, MidnightState DEF vars, bridge
  <2>10. QED
    BY <2>2, <2>3, <2>4, <2>5, <2>6, <2>7, <2>8, <2>9, Steps
<1>3. QED
  BY <1>1, <1>2, TypeInvariant, PTL DEF Spec

\* What it means that a path begins with another one, segment by segment.
LEMMA PrefixFacts ==
    ASSUME NEW p \in Seq(STRING), NEW q \in Seq(STRING), IsPrefix(p, q)
    PROVE  /\ Len(p) <= Len(q) /\ SubSeq(q, 1, Len(p)) = p
           /\ \A i \in 1..Len(p) : q[i] = p[i]
           /\ p # q => Len(p) < Len(q)
<1>1. Len(p) <= Len(q) /\ SubSeq(q, 1, Len(p)) = p
  BY DEF IsPrefix
<1>2. \A i \in 1..Len(p) : q[i] = p[i]
  BY <1>1
<1>3. ASSUME Len(p) = Len(q) PROVE p = q
  BY <1>2, <1>3
<1>4. QED
  BY <1>1, <1>2, <1>3

\* What resolveVaultPath() accepts has an allowed first name and lies under no link
\* that leads somewhere.
LEMMA AcceptedPath ==
    ASSUME NEW p \in Seq(STRING), InFolder(p), ~ThroughLink(p)
    PROVE  /\ IsStrictPrefix(Root, p) /\ FirstPart(p[Len(Root) + 1]) \in Allowed
           /\ \A l \in Links : IsStrictPrefix(Root, l) => ~IsPrefix(l, p)
<1>0. Root \in Seq(STRING) /\ Links \subseteq Seq(STRING)
  BY PathAssumption
<1>3. ASSUME NEW l \in Links, IsStrictPrefix(Root, l), IsPrefix(l, p) PROVE FALSE
  <2>1. l \in Seq(STRING) /\ Len(Root) < Len(l)
    BY <1>0, <1>3, PrefixFacts DEF IsStrictPrefix
  <2>2. Len(l) <= Len(p) /\ SubSeq(p, 1, Len(l)) = l
    BY <1>0, <1>3, <2>1, PrefixFacts
  <2>3. Len(l) \in Len(Root) + 1 .. Len(p)
    BY <2>1, <2>2
  <2>4. QED
    BY <1>3, <2>2, <2>3 DEF ThroughLink
<1>4. QED
  BY <1>3 DEF InFolder

\* Induction along a path is on the first segment where something would be wrong.
LEMMA LeastNatural ==
    ASSUME NEW S \in SUBSET Nat, S # {}
    PROVE  \E x \in S : \A y \in S : x <= y
<1>1. PICK x \in S : \A y \in S : ~(<<y, x>> \in OpToRel(<, Nat))
  BY NatLessThanWellFounded, WFMin
<1>2. ASSUME NEW y \in S
      PROVE  x <= y
  <2>1. x \in Nat /\ y \in Nat
    OBVIOUS
  <2>2. ~(y < x)
    BY <1>1, <2>1 DEF OpToRel
  <2>3. QED
    BY <2>1, <2>2
<1>3. QED
  BY <1>2

\* The folders reached after each of the first m segments.
IsWalk(g, rel, m) ==
    g = [n \in 0 .. m |-> IF n = 0 THEN Root ELSE Enter(g[n-1], rel[n])]

\* path.resolve() gets to the end of any path.
LEMMA WalkExists ==
    ASSUME NEW rel, NEW len \in Nat
    PROVE  \E g : IsWalk(g, rel, len)
<1> DEFINE Stuck == {m \in Nat : ~\E g : IsWalk(g, rel, m)}
<1> SUFFICES ASSUME Stuck # {} PROVE FALSE
  OBVIOUS
<1>1. PICK m \in Stuck : \A k \in Stuck : m <= k
  <2>1. Stuck \in SUBSET Nat
    OBVIOUS
  <2> HIDE DEF Stuck
  <2>2. QED
    BY <2>1, LeastNatural
<1>2. CASE m = 0
  <2> DEFINE g == [n \in 0 .. 0 |-> Root]
  <2>1. IsWalk(g, rel, 0)
    BY DEF IsWalk
  <2>2. QED
    BY <1>1, <1>2, <2>1
<1>3. CASE m # 0
  <2>1. m \in Nat /\ m - 1 \in Nat /\ m - 1 < m /\ ~(m <= m - 1)
    BY <1>3
  <2>2. PICK g : IsWalk(g, rel, m - 1)
    BY <1>1, <2>1
  <2> DEFINE next == Enter(g[m-1], rel[m])
             h    == [n \in 0 .. m |-> IF n = m THEN next ELSE g[n]]
  <2>3. \A n \in 0 .. m - 1 : h[n] = g[n] /\ g[n] = IF n = 0 THEN Root ELSE Enter(g[n-1], rel[n])
    BY <2>1, <2>2 DEF IsWalk
  <2>4. ASSUME NEW n \in 0 .. m
        PROVE  h[n] = IF n = 0 THEN Root ELSE Enter(h[n-1], rel[n])
    <3>1. CASE n = m
      <4>1. h[m] = next /\ h[m-1] = g[m-1]
        BY <2>1, <2>3
      <4>2. QED
        BY <1>3, <3>1, <4>1
    <3>2. CASE n # m
      <4>1. n \in 0 .. m - 1 /\ (n # 0 => n - 1 \in 0 .. m - 1)
        BY <2>1, <3>2
      <4> HIDE DEF h
      <4>2. QED
        BY <2>3, <4>1
    <3>3. QED
      BY <3>1, <3>2
  <2>5. IsWalk(h, rel, m)
    <3> DEFINE w == [n \in 0 .. m |-> IF n = 0 THEN Root ELSE Enter(h[n-1], rel[n])]
    <3>1. h = w
      <4>1. \A n \in 0 .. m : h[n] = w[n]
        <5> HIDE DEF h
        <5>1. QED
          BY <2>4
      <4>2. QED
        BY <4>1
    <3>2. QED
      BY <3>1 DEF IsWalk
  <2>6. QED
    BY <1>1, <2>5
<1>4. QED
  BY <1>2, <1>3

LEMMA AppendType ==
    ASSUME NEW S, NEW s \in Seq(S), NEW x \in S
    PROVE  Append(s, x) \in Seq(S)
  OBVIOUS

LEMMA EnterType ==
    ASSUME NEW dir \in Seq(STRING), NEW segment \in STRING
    PROVE  Enter(dir, segment) \in Seq(STRING)
<1>1. dir # <<>> => Front(dir) \in Seq(STRING)
  BY DEF Front
<1>2. Append(dir, segment) \in Seq(STRING)
  BY AppendType
<1>3. QED
  BY <1>1, <1>2 DEF Enter

\* What path.resolve() returns is a path.
LEMMA ResolvedType ==
    ASSUME NEW rel \in Seq(STRING)
    PROVE  Resolved(rel) \in Seq(STRING)
<1> DEFINE len == Len(rel)
           dir == CHOOSE g : IsWalk(g, rel, len)
<1>0. len \in Nat /\ \A n \in 1 .. len : rel[n] \in STRING
  OBVIOUS
<1>1. Resolved(rel) = dir[len]
  BY DEF Resolved, IsWalk
<1>2. IsWalk(dir, rel, len)
  BY <1>0, WalkExists
<1> HIDE DEF len, dir
<1> DEFINE Wrong == {n \in 0 .. len : dir[n] \notin Seq(STRING)}
<1>3. ASSUME Wrong # {} PROVE FALSE
  <2>1. PICK n \in Wrong : \A k \in Wrong : n <= k
    <3>1. Wrong \in SUBSET Nat
      BY <1>0
    <3> HIDE DEF Wrong
    <3>2. QED
      BY <1>3, <3>1, LeastNatural
  <2>2. dir[n] = IF n = 0 THEN Root ELSE Enter(dir[n-1], rel[n])
    BY <1>2 DEF IsWalk
  <2>3. CASE n = 0
    BY <2>1, <2>2, <2>3, PathAssumption
  <2>4. CASE n # 0
    <3>1. n - 1 \in 0 .. len /\ n \in 1 .. len /\ ~(n <= n - 1)
      BY <1>0, <2>4
    <3>2. dir[n-1] \in Seq(STRING) /\ rel[n] \in STRING
      BY <1>0, <2>1, <3>1
    <3>3. Enter(dir[n-1], rel[n]) \in Seq(STRING)
      BY <3>2, EnterType
    <3>4. QED
      BY <2>1, <2>2, <2>4, <3>3
  <2>5. QED
    BY <2>3, <2>4
<1>4. QED
  BY <1>0, <1>1, <1>3

\* Only what lies strictly below the root is written, under a name that begins with an
\* allowed folder's, and never through a link that leads somewhere, whatever targets
\* jobs name: resolveVaultPath() guards each write.
THEOREM TouchesAllowedOnly == Spec => []OnlyAllowedTouched
<1>1. FileInv => OnlyAllowedTouched
  <2> SUFFICES ASSUME FileInv, NEW j \in Jobs, files[j].times > 0
               PROVE  /\ IsStrictPrefix(Root, files[j].path)
                      /\ FirstPart(files[j].path[Len(Root) + 1]) \in Allowed
                      /\ \A l \in Links : IsStrictPrefix(Root, l) => ~IsPrefix(l, files[j].path)
    BY DEF OnlyAllowedTouched
  <2>1. /\ files[j].path = Resolved(Target[j])
        /\ InFolder(Resolved(Target[j])) /\ ~ThroughLink(Resolved(Target[j]))
    BY DEF FileInv, ResolveVaultPath
  <2>2. Resolved(Target[j]) \in Seq(STRING)
    BY ResolvedType, JobAssumption
  <2>3. QED
    BY <2>1, <2>2, AcceptedPath
<1>2. QED
  BY <1>1, FileInvariant, PTL
=============================================================================
