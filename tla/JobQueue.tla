------------------------------ MODULE JobQueue ------------------------------
(***************************************************************************)
(* The dispatcher's job queue: the job documents in the store and the      *)
(* asynchronous handlers that move them.  A handler is one invocation of   *)
(* drive() (from submit(), from the Firestore create trigger or from the   *)
(* cron sweep) or one invocation of handleComputerCallback().  Every await *)
(* on the store is an interleaving point, so transition() is two steps:    *)
(* its read with the version check, and its set.  Nothing keeps others out *)
(* between the two: a set may replace a document that is not the one whose *)
(* version was checked, and `overlapped` remembers the jobs it happened to.*)
(*                                                                         *)
(* A definition named Op_Something is Op with a plausible slip in it; the  *)
(* specification never uses it.                                            *)
(***************************************************************************)
EXTENDS Integers, FiniteSets

CONSTANTS
    Jobs,          \* job ids, in the order of their documents; each is enqueued at most once
    ComputerJobs,  \* the jobs routed to the computer worker
    Handlers,      \* handler invocations that can be in flight at once
    None,          \* "no job"
    MaxAttempts,   \* maxAttempts of each job
    SweepLimit,    \* how many queued jobs one sweep takes
    MaxCrashes,    \* bound: handlers that die half way
    MaxRuns        \* bound: worker.run() calls for one job

ASSUME JobsAssumption == Jobs \subseteq Nat /\ ComputerJobs \subseteq Jobs /\ None \notin Jobs
ASSUME BudgetAssumption == MaxAttempts \in [Jobs -> Nat \ {0}]
ASSUME SweepAssumption == SweepLimit \in Nat \ {0}
ASSUME BoundAssumption == MaxCrashes \in Nat /\ MaxRuns \in Nat

VARIABLES
    doc,       \* jobs/{id}: the stored document of each job
    hs,        \* the local state of each handler
    issued,    \* per job, how many tasks Computer has been handed
    runs,      \* per job, how many times worker.run() was called
    verdicts,  \* per job, what workers and callbacks reported: done, failed
    events,    \* terminal document updates the update trigger has yet to see
    notes,     \* per job, the outcomes its owner was notified of
    unsent,    \* history: the jobs for which the update trigger's notify() failed
    crashes,   \* history: how many handlers died
    overlapped \* history: the jobs of which a set replaced an unread document

vars == <<doc, hs, issued, runs, verdicts, events, notes, unsent, crashes, overlapped>>

-----------------------------------------------------------------------------
(* Data *)

JOB_STATUSES == {"queued", "claimed", "running", "awaiting_input", "done", "failed"}

Notifiable == {"done", "failed"}
Outcomes   == {"done", "error", "fatal"}   \* ok, retryable failure, fatal failure
Goals      == {"claim", "run", "park"} \union Outcomes
NoTask     == 0

\* What an outcome makes of a job that has no attempts left.
Verdict(outcome) == IF outcome = "done" THEN "done" ELSE "failed"

\* The part of a CockpitJob document that control depends on; tasks of a job
\* are numbered in the order they were handed to Computer.
Document ==
    [status : JOB_STATUSES \union {"absent"}, version : Nat, attempts : Nat, task : Nat]

Doc(status, version, attempts, task) ==
    [status |-> status, version |-> version, attempts |-> attempts, task |-> task]

NoDocument == Doc("absent", 0, 0, NoTask)
Enqueued   == Doc("queued", 0, 0, NoTask)

Phases == {"idle", "check", "write", "work", "notify"}

\* A handler: the job it serves, the transition it is after, its own copy of
\* the job (the variable `job`) and the document transition() is about to set.
HandlerState ==
    [pc : Phases, role : {"drive", "callback"}, on : Jobs \union {None},
     goal : Goals, task : Nat, seen : Document, next : Document]

Handler(pc, role, on, goal, task, seen, next) ==
    [pc |-> pc, role |-> role, on |-> on, goal |-> goal,
     task |-> task, seen |-> seen, next |-> next]

Idle == Handler("idle", "drive", None, "claim", NoTask, NoDocument, NoDocument)

\* Handler h takes on a job, goes on with the one it has, returns or throws.
Begin(h, role, j, goal, task) ==
    hs' = [hs EXCEPT ![h] = Handler("check", role, j, goal, task, doc[j], NoDocument)]
GoOn(h, pc, goal, task, seen, next) ==
    hs' = [hs EXCEPT ![h] = Handler(pc, hs[h].role, hs[h].on, goal, task, seen, next)]
Return(h) == hs' = [hs EXCEPT ![h] = Idle]

Init ==
    /\ doc        = [j \in Jobs |-> NoDocument]
    /\ hs         = [h \in Handlers |-> Idle]
    /\ issued     = [j \in Jobs |-> 0]
    /\ runs       = [j \in Jobs |-> 0]
    /\ verdicts   = [j \in Jobs |-> {}]
    /\ events     = {}
    /\ notes      = [j \in Jobs |-> {}]
    /\ unsent     = {}
    /\ crashes    = 0
    /\ overlapped = {}

-----------------------------------------------------------------------------
(* The patches of the mark* helpers, applied to the document `cur` that     *)
(* transition() read; `job` is the caller's own copy.                       *)

Patched(cur, status) == Doc(status, cur.version + 1, cur.attempts, cur.task)

MarkClaimed_Uncounted(job, cur) == Patched(cur, "claimed")

MarkClaimed(job, cur) == Doc("claimed", cur.version + 1, job.attempts + 1, cur.task)

MarkRunning(cur) == Patched(cur, "running")

MarkDone(cur) == Patched(cur, "done")

WillRetry_OffByOne(job, max, fatal) == ~fatal /\ job.attempts <= max

WillRetry(job, max, fatal) == ~fatal /\ job.attempts < max

MarkFailed_Cancels(job, cur, max, fatal) ==
    Patched(cur, IF WillRetry(job, max, fatal) THEN "queued" ELSE "cancelled")

MarkFailed(job, cur, max, fatal) ==
    Patched(cur, IF WillRetry(job, max, fatal) THEN "queued" ELSE "failed")

MarkAwaitingInput_KeepsTask(cur, t) ==
    Doc("awaiting_input", cur.version + 1, cur.attempts,
        IF cur.task = NoTask THEN t ELSE cur.task)

MarkAwaitingInput(cur, t) == Doc("awaiting_input", cur.version + 1, cur.attempts, t)

NextDocument(s, cur) ==
    CASE s.goal = "claim" -> MarkClaimed(s.seen, cur)
      [] s.goal = "run"   -> MarkRunning(cur)
      [] s.goal = "park"  -> MarkAwaitingInput(cur, s.task)
      [] s.goal = "done"  -> MarkDone(cur)
      [] s.goal = "error" -> MarkFailed(s.seen, cur, MaxAttempts[s.on], FALSE)
      [] s.goal = "fatal" -> MarkFailed(s.seen, cur, MaxAttempts[s.on], TRUE)

-----------------------------------------------------------------------------
(* Handlers *)

Enqueue(j) ==
    /\ doc[j].status = "absent"
    /\ doc' = [doc EXCEPT ![j] = Enqueued]
    /\ UNCHANGED <<hs, issued, runs, verdicts, events, notes, unsent, crashes, overlapped>>

Drivable_FailedToo(j) == doc[j].status \in {"queued", "failed"}

Drivable(j) == doc[j].status = "queued"

\* drive()'s getJob: anything but a queued job is reported back and left alone.
Drive(h, j) ==
    /\ hs[h].pc = "idle"
    /\ Drivable(j)
    /\ Begin(h, "drive", j, "claim", NoTask)
    /\ UNCHANGED <<doc, issued, runs, verdicts, events, notes, unsent, crashes, overlapped>>

Parked_Unchecked(j) == doc[j].status # "absent"

Parked(j) == doc[j].status = "awaiting_input"

TaskMatches_Unchecked(j, t) == TRUE

TaskMatches(j, t) == doc[j].task \in {NoTask, t}

GoalOf_IgnoresStatus(outcome) == "done"

\* markDone for a payload with status 'done', markFailed (fatal or not) otherwise.
GoalOf(outcome) == outcome

\* handleComputerCallback()'s getJob and its guards: only a parked job whose
\* task id is the payload's goes on; every other delivery changes nothing.
Callback(h, j, t, outcome) ==
    /\ hs[h].pc = "idle"
    /\ t \in 1..issued[j]
    /\ Parked(j)
    /\ TaskMatches(j, t)
    /\ Begin(h, "callback", j, GoalOf(outcome), t)
    /\ verdicts' = [verdicts EXCEPT ![j] = @ \union {Verdict(outcome)}]
    /\ UNCHANGED <<doc, issued, runs, events, notes, unsent, crashes, overlapped>>

VersionMatches_Unchecked(h) == TRUE

VersionMatches(h) == doc[hs[h].on].version = hs[h].seen.version

\* transition(): the read finds the expected version; the next document is
\* computed from what was read.
CheckVersion(h) ==
    /\ hs[h].pc = "check"
    /\ VersionMatches(h)
    /\ GoOn(h, "write", hs[h].goal, hs[h].task, hs[h].seen,
            NextDocument(hs[h], doc[hs[h].on]))
    /\ UNCHANGED <<doc, issued, runs, verdicts, events, notes, unsent, crashes, overlapped>>

\* transition(): the read finds another version; the throw ends the handler.
VersionMismatch(h) ==
    /\ hs[h].pc = "check"
    /\ ~VersionMatches(h)
    /\ Return(h)
    /\ UNCHANGED <<doc, issued, runs, verdicts, events, notes, unsent, crashes, overlapped>>

BecomesFinal_FromRunningOnly(before, after) ==
    after.status \in Notifiable /\ before.status = "running"

\* handleJobUpdated()'s condition on the document before and after the update.
BecomesFinal(before, after) ==
    after.status \in Notifiable /\ before.status \notin Notifiable

\* The document about to be replaced is not the one transition() read.
Overlaps(h) == doc[hs[h].on].version + 1 # hs[h].next.version

\* transition()'s set, whatever the document is by now; the update trigger will
\* be told of the change.
SetDocument(h) ==
    LET j == hs[h].on IN
    /\ hs[h].pc = "write"
    /\ doc' = [doc EXCEPT ![j] = hs[h].next]
    /\ overlapped' = IF Overlaps(h) THEN overlapped \union {j} ELSE overlapped
    /\ events' = IF BecomesFinal(doc[j], hs[h].next)
                 THEN events \union {<<j, hs[h].next.status>>}
                 ELSE events

WriteClaim(h) ==
    /\ hs[h].goal = "claim"
    /\ SetDocument(h)
    /\ GoOn(h, "check", "run", hs[h].task, hs[h].next, NoDocument)
    /\ UNCHANGED <<issued, runs, verdicts, notes, unsent, crashes>>

WriteRunning_KeepsOldCopy(h) ==
    /\ hs[h].goal = "run"
    /\ SetDocument(h)
    /\ GoOn(h, "work", "run", hs[h].task, hs[h].seen, NoDocument)
    /\ UNCHANGED <<issued, runs, verdicts, notes, unsent, crashes>>

WriteRunning(h) ==
    /\ hs[h].goal = "run"
    /\ SetDocument(h)
    /\ GoOn(h, "work", "run", hs[h].task, hs[h].next, NoDocument)
    /\ UNCHANGED <<issued, runs, verdicts, notes, unsent, crashes>>

\* The set that ends an attempt.  A callback goes on to notify on a terminal
\* status; drive() returns.
WriteResult(h) ==
    /\ hs[h].goal \notin {"claim", "run"}
    /\ SetDocument(h)
    /\ IF hs[h].role = "callback" /\ hs[h].next.status \in Notifiable
       THEN GoOn(h, "notify", hs[h].goal, hs[h].task, hs[h].next, NoDocument)
       ELSE Return(h)
    /\ UNCHANGED <<issued, runs, verdicts, notes, unsent, crashes>>

\* worker.run() of the local worker: ok, a thrown error, or a fatal one
\* (unknown capability, unknown intent, ZodError).
RunLocal(h) ==
    /\ hs[h].pc = "work"
    /\ hs[h].on \notin ComputerJobs
    /\ runs[hs[h].on] < MaxRuns
    /\ runs' = [runs EXCEPT ![hs[h].on] = @ + 1]
    /\ \E outcome \in Outcomes :
         /\ GoOn(h, "check", outcome, NoTask, hs[h].seen, NoDocument)
         /\ verdicts' = [verdicts EXCEPT ![hs[h].on] = @ \union {Verdict(outcome)}]
    /\ UNCHANGED <<doc, issued, events, notes, unsent, crashes, overlapped>>

\* worker.run() of the computer worker when Computer accepts the task and the
\* answer arrives: the job is to be parked under the new task's id.
SubmitTask(h) ==
    LET j == hs[h].on IN
    /\ hs[h].pc = "work"
    /\ j \in ComputerJobs
    /\ runs[j] < MaxRuns
    /\ runs' = [runs EXCEPT ![j] = @ + 1]
    /\ issued' = [issued EXCEPT ![j] = @ + 1]
    /\ GoOn(h, "check", "park", issued[j] + 1, hs[h].seen, NoDocument)
    /\ UNCHANGED <<doc, verdicts, events, notes, unsent, crashes, overlapped>>

\* worker.run() of the computer worker when submission fails: refused (4xx is
\* fatal), or a network error, a 5xx or a malformed answer.  In the second
\* case Computer may have taken the task all the same.
SubmitFails(h) ==
    LET j == hs[h].on IN
    /\ hs[h].pc = "work"
    /\ j \in ComputerJobs
    /\ runs[j] < MaxRuns
    /\ runs' = [runs EXCEPT ![j] = @ + 1]
    /\ \E outcome \in {"error", "fatal"}, taken \in {0, 1} :
         /\ outcome = "fatal" => taken = 0
         /\ issued' = [issued EXCEPT ![j] = @ + taken]
         /\ GoOn(h, "check", outcome, NoTask, hs[h].seen, NoDocument)
         /\ verdicts' = [verdicts EXCEPT ![j] = @ \union {Verdict(outcome)}]
    /\ UNCHANGED <<doc, events, notes, unsent, crashes, overlapped>>

\* The callback handler's own notify(), after the terminal transition; when it
\* throws, the error is logged and forgotten.
NotifyFromCallback(h) ==
    LET j == hs[h].on IN
    /\ hs[h].pc = "notify"
    /\ \/ notes' = [notes EXCEPT ![j] = @ \union {hs[h].seen.status}]
       \/ UNCHANGED notes
    /\ Return(h)
    /\ UNCHANGED <<doc, issued, runs, verdicts, events, unsent, crashes, overlapped>>

\* handleJobUpdated() on a terminal update: its notify() is awaited outside any
\* try, so it tells the outcome, or it throws or dies with the invocation.
\* Firestore may deliver an update again, though not because of the failure; the
\* delivery after one that succeeded tells the same outcome again.
NotifyFromTrigger(e) ==
    /\ e \in events
    /\ \/ /\ notes' = [notes EXCEPT ![e[1]] = @ \union {e[2]}]
          /\ events' = events \ {e}
          /\ UNCHANGED unsent
       \/ /\ unsent' = unsent \union {e[1]}
          /\ events' \in {events, events \ {e}}
          /\ UNCHANGED notes
    /\ UNCHANGED <<doc, hs, issued, runs, verdicts, crashes, overlapped>>

\* The instance that runs a handler is killed or times out: nothing undoes or
\* resumes what the handler was doing.
Crash(h) ==
    /\ hs[h].pc # "idle"
    /\ crashes < MaxCrashes
    /\ crashes' = crashes + 1
    /\ Return(h)
    /\ UNCHANGED <<doc, issued, runs, verdicts, events, notes, unsent, overlapped>>

-----------------------------------------------------------------------------
(* Specification *)

\* drive() from its first transition to its return, or the callback handler's
\* continuation: the steps a live handler takes on its own.
Step(h) ==
    \/ CheckVersion(h) \/ VersionMismatch(h)
    \/ WriteClaim(h) \/ WriteRunning(h) \/ WriteResult(h)
    \/ RunLocal(h) \/ SubmitTask(h) \/ SubmitFails(h)
    \/ NotifyFromCallback(h)

\* Computer reports the outcome of a task, at any time and any number of times.
Answer(j) == \E h \in Handlers, t \in 1..issued[j], o \in Outcomes : Callback(h, j, t, o)

\* submit(), the create trigger or a late delivery of its event: somebody drives
\* a queued job.
Created(j) == \E h \in Handlers : Drive(h, j)

Queued(j) == doc[j].status = "queued"

SweepBatch_AnyStatus ==
    {j \in Jobs : /\ Queued(j)
                  /\ Cardinality({i \in Jobs : i < j /\ doc[i].status # "absent"}) < SweepLimit}

\* The sweep's query: the first queued jobs, in the order of their ids.
SweepBatch ==
    {j \in Jobs : Queued(j) /\ Cardinality({i \in Jobs : i < j /\ Queued(i)}) < SweepLimit}

\* The cron sweep, POST /api/jobs/drive: it drives the jobs of its batch.
Sweep(j) == j \in SweepBatch /\ \E h \in Handlers : Drive(h, j)

Next ==
    \/ \E j \in Jobs : Enqueue(j) \/ Created(j) \/ Sweep(j) \/ Answer(j)
    \/ \E h \in Handlers : Step(h) \/ Crash(h)
    \/ \E e \in events : NotifyFromTrigger(e)

Spec == Init /\ [][Next]_vars

\* A handler that does not crash goes on, the cron job runs every minute, and
\* Firestore delivers every update.  Nobody owes the queue a callback.
Fairness ==
    /\ \A h \in Handlers : WF_vars(Step(h))
    /\ \A j \in Jobs : WF_vars(Sweep(j))
    /\ WF_vars(\E e \in events : NotifyFromTrigger(e))

FairSpec == Spec /\ Fairness
-----------------------------------------------------------------------------
(* Properties *)

\* Every variable keeps its shape.
TypeOK ==
    /\ doc \in [Jobs -> Document]
    /\ hs \in [Handlers -> HandlerState]
    /\ issued \in [Jobs -> Nat]
    /\ runs \in [Jobs -> Nat]
    /\ verdicts \in [Jobs -> SUBSET Notifiable]
    /\ events \subseteq Jobs \X Notifiable
    /\ notes \in [Jobs -> SUBSET Notifiable]
    /\ unsent \subseteq Jobs
    /\ crashes \in Nat
    /\ overlapped \subseteq Jobs

\* However handlers interleave, a stored outcome is one somebody reported and a
\* parked job waits for a task Computer really has: done needs a success,
\* failed a failure, awaiting_input a task that was handed over; and a success
\* that was announced was reported.
OutcomeIsEarned ==
    \A j \in Jobs :
        /\ doc[j].status \in Notifiable => doc[j].status \in verdicts[j]
        /\ doc[j].status = "awaiting_input" => doc[j].task \in 1..issued[j]
        /\ notes[j] \subseteq verdicts[j]

\* h is a drive() whose claim went through and that has not returned.
Owns(h, j) ==
    /\ hs[h].pc # "idle"
    /\ hs[h].role = "drive"
    /\ hs[h].goal # "claim"
    /\ hs[h].on = j

\* Without a crash no job is left claimed or running with no drive() at work on
\* it: version mismatches, lost updates and racing sweeps never strand a job.
StrandedOnlyByCrash ==
    \A j \in Jobs :
        (doc[j].status \in {"claimed", "running"} /\ crashes = 0)
            => \E h \in Handlers : Owns(h, j)

\* The version check leaves one way to lose an update: a set that replaces a
\* document written since its get.  The properties below say so, job by job:
\* until that happens to a job, and whatever happens to the others, they hold of it.
Clean(j) == j \notin overlapped

\* Between its claim and its last transition a drive() has a clean job to itself:
\* nobody else claims it and nobody changes the document under it, so the
\* version check never throws away the result of work already done.
SoleOwner ==
    \A j \in Jobs, h \in Handlers :
        Clean(j) /\ Owns(h, j) =>
            /\ doc[j] = hs[h].seen
            /\ \A g \in Handlers : Owns(g, j) => g = h

\* The worker of a clean job is called at most once for each attempt counted, and
\* the attempts counted never pass the job's budget.
RunsWithinAttempts ==
    \A j \in Jobs :
        Clean(j) => runs[j] <= doc[j].attempts /\ doc[j].attempts <= MaxAttempts[j]

\* A clean job that is parked waits for the newest task Computer was handed for it.
ParkedOnNewestTask ==
    \A j \in Jobs :
        Clean(j) /\ doc[j].status = "awaiting_input" => doc[j].task = issued[j]

\* A notification about a clean job, from the callback handler or from the update
\* trigger, delivered once or often, tells the outcome the job still has.
AnnouncedOutcomeStands ==
    \A j \in Jobs : Clean(j) => notes[j] \subseteq {doc[j].status}

\* A document that is done or failed is written again by nothing but a set that
\* overlaps with the one that ended the job: a mismatch stops every other.
TerminalIsFinal ==
    [][\A j \in Jobs : doc[j].status \in Notifiable /\ Clean(j)' => doc'[j] = doc[j]]_vars

\* A clean parked job is resumed only by the callback for the task it is parked on:
\* a late answer to the task of an earlier attempt never resumes it.
ResumedByItsTask ==
    [][\A j \in Jobs :
        (doc[j].status = "awaiting_input" /\ doc'[j] # doc[j] /\ Clean(j)')
            => \E h \in Handlers :
                 /\ hs[h].role = "callback"
                 /\ hs[h].on = j
                 /\ hs[h].task = issued[j]]_vars

\* Where a job with this status is in its lifecycle.
PhaseOf(status) ==
    CASE status = "queued" -> "waiting"
      [] status \in {"claimed", "running"} -> "active"
      [] status = "awaiting_input" -> "parked"
      [] OTHER -> status

\* The queue implements the job lifecycle it promises, and a lost update spoils no
\* other job than its own.
Lifecycle == INSTANCE JobLifecycle WITH
    phase <- [j \in Jobs |-> IF Clean(j) THEN PhaseOf(doc[j].status) ELSE "spoilt"],
    tries <- [j \in Jobs |-> IF Clean(j) THEN doc[j].attempts ELSE 0]

LifecycleSpec == Lifecycle!Spec

\* Unless a handler dies, every job that is queued ends or is parked with Computer,
\* whatever fails or races on the way and however many jobs queue before it.
EventuallySettled ==
    [](crashes = 0) =>
        \A j \in Jobs :
            Queued(j) ~> doc[j].status \in Notifiable \union {"awaiting_input"}

\* Every job that finishes is announced unless the update trigger's own notify()
\* fails: even if the callback handler dies between its last transition and its
\* notify(), or its notify() throws.
EventuallyAnnounced ==
    \A j \in Jobs :
        (doc[j].status \in Notifiable) ~> (notes[j] # {} \/ j \in unsent)

\* The comment on handleJobCreated: a second delivery of the create event does
\* not execute the job a second time in the same attempt.
RedeliveryDoesNotDoubleExecute ==
    \A j \in Jobs : runs[j] <= doc[j].attempts
=============================================================================
