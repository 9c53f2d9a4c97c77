------------------------------ MODULE VaultJobs ------------------------------
(***************************************************************************)
(* Vault jobs: the server keeps a list of jobs and a status document, both *)
(* read and written as wholes; the bridge polls for queued jobs, executes  *)
(* them on the vault and posts a result.  A request begins with the        *)
(* handler's first get; what it has still to do are stages, the get and    *)
(* the set of a document each, and others may act in between.              *)
(*                                                                         *)
(* A definition named Op_Something is Op with a plausible slip in it; the  *)
(* specification never uses it.                                            *)
(***************************************************************************)
EXTENDS VaultPaths, FiniteSetsExt

CONSTANTS
    Jobs,       \* jobs, each created at most once
    ReadJobs,   \* those of kind read or list, which change nothing in the vault
    NotePath,   \* the file of the daily note
    Target,     \* per job, the path in its payload
    MaxSlots,   \* bound: requests served at once, besides one poll
    None,       \* nothing
    MaxEvents,  \* bound: jobs created, faults and days gone by
    Top         \* bound: counts stop here

ASSUME JobAssumption == ReadJobs \subseteq Jobs /\ Target \in [Jobs -> Seq(STRING)]
ASSUME NoneAssumption == None \notin Jobs
ASSUME BoundAssumption == {MaxSlots, MaxEvents, Top} \subseteq Nat /\ Top > 1

VARIABLES
    jobs,      \* the stored list: per job "absent", "queued", "done" or "error"
    vstatus,   \* vault_status: enabled, the day of the counter and the counter
    req,       \* the request in each slot
    work,      \* where processVaultJob() stands for each job: "idle", "execute", about to
               \* post "ok" or "error", or waiting for the answer, "okSent", "errorSent"
    booting,   \* announceVaultStatus() has yet to be called
    files,     \* per job, the path its execution wrote, times it did
    dry,       \* COCKPIT_VAULT_DRY_RUN
    today,
    born,      \* jobs created, or skipped because the vault was disabled
    announced, \* an announcement has been stored
    faults,
    raced,     \* documents where a set has overwritten another request's set
    stale      \* a poll's answer started a job that was queued no more

server == <<jobs, vstatus>>
bridge == <<work, booting, files>>
vars   == <<server, req, bridge, dry, today, born, announced, faults, raced, stale>>

-----------------------------------------------------------------------------
(* Data *)

\* Counts of appends and of writes reported stop at Top.
CountUp(n) == IF n = Top THEN n ELSE n + 1

\* getVaultStatus() of a document that is not there; day 0 is no day.
NoStatus == [enabled |-> FALSE, day |-> 0, writes |-> 0]

\* The documents each handler gets and sets, in order; a note and a result have
\* looked at one before.
Plan ==
    [create |-> <<"jobs">>, note |-> <<"jobs">>, pending |-> <<"status">>,
     result |-> <<"jobs", "status">>, announce |-> <<"status">>]

NoRequest ==
    [op |-> "none", todo |-> <<>>, bridge |-> FALSE, job |-> None, ok |-> FALSE,
     day |-> 0, queued |-> {}, copy |-> None]

Request(op, j, ok, fromBridge, copy) ==
    [op |-> op, todo |-> Plan[op], bridge |-> fromBridge, job |-> j, ok |-> ok,
     day |-> 0, queued |-> {}, copy |-> copy]

Events   == Cardinality(born) + faults + today - 1
Slots    == 1..MaxSlots
Poller   == 0
Places   == Slots \union {Poller}
Free(s)  == req[s] = NoRequest
Stage(s) == IF req[s].todo = <<>> THEN "none" ELSE Head(req[s].todo)

\* A poll whose answer is on its way.
Answered(s) == req[s].bridge /\ req[s].todo = <<>>

Init ==
    /\ jobs = [j \in Jobs |-> "absent"]
    /\ vstatus = NoStatus
    /\ req = [s \in Places |-> NoRequest]
    /\ work = [j \in Jobs |-> "idle"]
    /\ booting = TRUE
    /\ files = [j \in Jobs |-> [path |-> NoPath, times |-> 0]]
    /\ dry \in BOOLEAN
    /\ today = 1
    /\ born = {}
    /\ announced = FALSE
    /\ faults = 0
    /\ raced = {}
    /\ stale = FALSE

-----------------------------------------------------------------------------
(* Requests arrive *)

\* Slots are taken in order; which one a request has makes no difference.
Begin(s, r) ==
    /\ Free(s) /\ \A t \in Slots : t < s => ~Free(t)
    /\ req' = [req EXCEPT ![s] = r]
    /\ UNCHANGED <<server, files, dry, today, announced, faults, raced, stale>>

\* handleVaultJobCreate()
Create(s, j) ==
    /\ j \notin born /\ Events < MaxEvents
    /\ Begin(s, Request("create", j, TRUE, FALSE, jobs))
    /\ born' = born \union {j}
    /\ UNCHANGED <<work, booting>>

\* enqueueDailyNoteJob(), from the chat, when the vault is enabled.
Note(s, j) ==
    /\ j \notin born /\ Events < MaxEvents
    /\ Target[j] = NotePath
    /\ Begin(s, IF vstatus.enabled THEN Request("note", j, TRUE, FALSE, None) ELSE NoRequest)
    /\ born' = born \union {j}
    /\ UNCHANGED <<work, booting>>

\* announceVaultStatus(), once when the bridge starts.
Announce(s) ==
    /\ booting
    /\ Begin(s, Request("announce", None, TRUE, TRUE, vstatus))
    /\ booting' = FALSE
    /\ UNCHANGED <<work, born>>

\* pollVaultJobs(), on a timer that waits for nothing; handleVaultJobsPending()
\* picks what is queued.
Poll ==
    /\ ~booting
    /\ Begin(Poller, [Request("pending", None, TRUE, TRUE, None) EXCEPT
                    !.queued = {j \in Jobs : jobs[j] = "queued"}])
    /\ UNCHANGED <<work, booting, born>>

AfterFailure_Keeps(w) == IF w \in {"ok", "okSent"} THEN "error" ELSE w

\* What follows a post that was refused or lost: a success is reported as an error,
\* an error is only logged.
AfterFailure(w) == IF w \in {"ok", "okSent"} THEN "error" ELSE "idle"

\* processVaultJob() posts the result; handleVaultJobResult() looks the job up, takes
\* the time, or refuses.
Report(s, j) ==
    /\ work[j] \in {"ok", "error"}
    /\ IF jobs[j] = "absent"
       THEN Begin(s, NoRequest) /\ work' = [work EXCEPT ![j] = AfterFailure(@)]
       ELSE /\ Begin(s, [Request("result", j, work[j] = "ok", TRUE, None) EXCEPT !.day = today])
            /\ work' = [work EXCEPT ![j] = IF @ = "ok" THEN "okSent" ELSE "errorSent"]
    /\ UNCHANGED <<booting, born>>

-----------------------------------------------------------------------------
(* The server works on them *)

Document(stage) == IF stage = "jobs" THEN jobs ELSE vstatus

\* The get of upsertVaultJob(), or of the status.
Read(s) ==
    /\ Stage(s) \in {"jobs", "status"}
    /\ req[s].copy = None
    /\ req' = [req EXCEPT ![s].copy = Document(Stage(s))]
    /\ UNCHANGED <<server, bridge, dry, today, born, announced, faults, raced, stale>>

Stored_AlwaysDone(r) == [r.copy EXCEPT ![r.job] = IF r.op = "result" THEN "done" ELSE "queued"]

\* The list as r sets it.
Stored(r) ==
    [r.copy EXCEPT ![r.job] = IF r.op # "result" THEN "queued"
                              ELSE IF r.ok THEN "done" ELSE "error"]

Counts_DryRun(r) == r.op = "result" /\ r.ok /\ r.job \notin ReadJobs

\* A write that was done and is reported as such.
Counts(r) == r.op = "result" /\ r.ok /\ r.job \notin ReadJobs /\ ~dry

\* The status as r sets it: the announcement enables, a write is counted for its
\* day, and whatever else the copy holds is written back.
Updated(r) ==
    IF Counts(r)
    THEN [r.copy EXCEPT !.day = r.day, !.writes = IF r.copy.day = r.day THEN CountUp(@) ELSE 1]
    ELSE IF r.op = "announce" THEN [r.copy EXCEPT !.enabled = TRUE]
    ELSE r.copy

\* A stage is done.  After the last one the job of a result is no longer in flight
\* (an orphan's job may be back in flight: it stays), and a poll has its answer.
Passes(s) ==
    LET r == req[s] IN
    /\ req' = [req EXCEPT ![s] = IF Len(r.todo) = 1 /\ ~(r.bridge /\ r.op = "pending")
                                 THEN NoRequest
                                 ELSE [r EXCEPT !.todo = Tail(@), !.copy = None]]
    /\ work' = IF Len(r.todo) = 1 /\ r.bridge /\ r.op = "result"
               THEN [work EXCEPT ![r.job] = "idle"] ELSE work
    /\ UNCHANGED <<booting, files, dry, today, born, faults, stale>>

WriteJobs(s) ==
    /\ Stage(s) = "jobs"
    /\ req[s].copy # None
    /\ jobs' = Stored(req[s])
    /\ raced' = IF req[s].copy = jobs THEN raced ELSE raced \union {"jobs"}
    /\ Passes(s)
    /\ UNCHANGED <<vstatus, announced>>

WriteStatus(s) ==
    /\ Stage(s) = "status"
    /\ req[s].copy # None
    /\ vstatus' = Updated(req[s])
    /\ raced' = IF req[s].copy = vstatus THEN raced ELSE raced \union {"status"}
    /\ announced' = (announced \/ req[s].op = "announce")
    /\ Passes(s)
    /\ UNCHANGED jobs

-----------------------------------------------------------------------------
(* The bridge *)

Startable_Always(j) == TRUE

\* _vaultInFlight keeps a job from being processed twice at once.
Startable(j) == work[j] = "idle"

Acts(w) ==
    /\ work' = w
    /\ UNCHANGED <<server, booting, dry, today, born, announced, raced>>

\* The answer of a poll: its jobs are started.
Receive ==
    /\ Answered(Poller)
    /\ LET started == {j \in req[Poller].queued : Startable(j)} IN
         /\ Acts([j \in Jobs |-> IF j \in started THEN "execute" ELSE work[j]])
         /\ stale' = (stale \/ \E j \in started : jobs[j] # "queued")
    /\ req' = [req EXCEPT ![Poller] = NoRequest]
    /\ UNCHANGED <<files, faults>>

Touches(j) == ~dry /\ j \notin ReadJobs

\* executeVaultJob() returns: the text is appended unless this is a dry run.  A link
\* that led nowhere may lead somewhere afterwards, and then ExecuteFails.
Execute(j) ==
    /\ work[j] = "execute"
    /\ ResolveVaultPath(Target[j]) # NoPath
    /\ Touches(j) => Reachable(ResolveVaultPath(Target[j]))
    /\ files' = IF ~Touches(j) THEN files
                ELSE [files EXCEPT ![j] = [path  |-> ResolveVaultPath(Target[j]),
                                           times |-> CountUp(@.times)]]
    /\ Acts([work EXCEPT ![j] = "ok"])
    /\ UNCHANGED <<req, faults, stale>>

\* executeVaultJob() throws: the path is refused or the file system fails.
ExecuteFails(j) ==
    /\ work[j] = "execute"
    /\ Acts([work EXCEPT ![j] = "error"])
    /\ UNCHANGED <<req, files, faults, stale>>

\* What the server makes of a request whose caller no longer waits.
Orphaned(r) == IF r.todo = <<>> THEN NoRequest ELSE [r EXCEPT !.bridge = FALSE]

\* A request fails: the server has died or never got it, or works on although the
\* connection to the bridge is lost.
Lose(s) ==
    /\ Events < MaxEvents
    /\ ~Free(s)
    /\ faults' = faults + 1
    /\ \E r \in {NoRequest} \union (IF req[s].bridge THEN {Orphaned(req[s])} ELSE {}) :
         req' = [req EXCEPT ![s] = r]
    /\ Acts([j \in Jobs |-> IF req[s].bridge /\ req[s].job = j THEN AfterFailure(work[j]) ELSE work[j]])
    /\ UNCHANGED <<files, stale>>

\* The bridge dies and starts again.
Restart ==
    /\ Events < MaxEvents
    /\ faults' = faults + 1
    /\ work' = [j \in Jobs |-> "idle"]
    /\ booting' = TRUE
    /\ req' = [s \in Places |-> IF req[s].bridge THEN Orphaned(req[s]) ELSE req[s]]
    /\ UNCHANGED <<server, files, dry, today, born, announced, raced, stale>>

Midnight ==
    /\ Events < MaxEvents
    /\ today' = today + 1
    /\ UNCHANGED <<server, req, bridge, dry, born, announced, faults, raced, stale>>

-----------------------------------------------------------------------------

Serve(s) == Read(s) \/ WriteJobs(s) \/ WriteStatus(s)

Next ==
    \/ \E s \in Slots, j \in Jobs : Create(s, j) \/ Note(s, j) \/ Report(s, j)
    \/ \E s \in Slots : Announce(s)
    \/ Poll \/ Receive
    \/ \E s \in Places : Serve(s) \/ Lose(s)
    \/ \E j \in Jobs : Execute(j) \/ ExecuteFails(j)
    \/ Restart \/ Midnight

Spec == Init /\ [][Next]_vars

\* A request is served to its end and its answer read, a job's processing goes on,
\* and the bridge polls on a timer.  Faults, users and time get no fairness.
Fairness ==
    /\ \A s \in Places : WF_vars(Serve(s))
    /\ WF_vars(\E s \in Slots : Announce(s))
    /\ WF_vars(Poll) /\ WF_vars(Receive)
    /\ \A j \in Jobs : /\ WF_vars(Execute(j) \/ ExecuteFails(j))
                       /\ SF_vars(\E s \in Slots : Report(s, j))

FairSpec == Spec /\ Fairness

-----------------------------------------------------------------------------
(* Properties *)

\* "Each job is executed exactly once" (openclaw-bridge.js:557-559) holds as long as
\* nothing was lost, no set of the list has undone another and no poll's answer came
\* after the job it names was done: a text is then in the vault at most once, and
\* once its job is stored as done.
ExecutedOnce ==
    faults = 0 /\ "jobs" \notin raced /\ ~stale =>
        \A j \in Jobs \ ReadJobs :
            /\ files[j].times <= 1
            /\ jobs[j] = "done" /\ ~dry => files[j].times = 1
            /\ jobs[j] = "error" => files[j].times = 0

\* A job stored as done has been executed, whatever was lost or overwritten: an
\* error report never turns into a success and a refused path is never done.
DoneIsDone ==
    \A j \in Jobs :
        jobs[j] = "done" => /\ ResolveVaultPath(Target[j]) # NoPath
                            /\ j \in ReadJobs \/ dry \/ files[j].times > 0

Appended == {a \in (Jobs \ ReadJobs) \X (1..Top) : a[2] <= files[a[1]].times}

AtRest == (\A s \in Places : Free(s)) /\ (\A j \in Jobs : work[j] = "idle")

\* The counter of writes on the dashboard never exceeds what is in the vault, and
\* within one day equals it at rest, unless a report was lost or the heartbeat of a
\* poll or another report has undone the update (or a lost set the job).
CounterAgrees ==
    /\ vstatus.writes <= Cardinality(Appended)
    /\ AtRest /\ today = 1 /\ faults = 0 /\ raced = {} =>
           vstatus.writes = Min({Cardinality(Appended), Top})

\* Once the bridge has announced the vault it stays enabled, so that chat messages
\* keep reaching the daily note, unless a heartbeat that had read the status before
\* the announcement set it after.
StaysEnabled == announced /\ "status" \notin raced => vstatus.enabled

\* What the dashboard says of the vault agrees with what the bridge has done to it.
StatusAgrees == CounterAgrees /\ StaysEnabled

\* Whatever ".." a path holds, only what lies strictly below the vault's root is
\* touched, under a name that begins with an allowed folder's, and never through a link
\* that leads somewhere.  The head of vault.js promises more (30-31), but a link that leads
\* nowhere is written through, and a name in the root is allowed up to a backslash.
OnlyAllowedTouched ==
    \A j \in Jobs : files[j].times > 0 =>
        /\ IsStrictPrefix(Root, files[j].path)
        /\ FirstPart(files[j].path[Len(Root) + 1]) \in Allowed
        /\ \A l \in Links : IsStrictPrefix(Root, l) => ~IsPrefix(l, files[j].path)

\* Every queued job is executed and reported in the end, whatever was lost on the way.
EveryJobSettles == \A j \in Jobs : jobs[j] = "queued" ~> jobs[j] # "queued"
=============================================================================
