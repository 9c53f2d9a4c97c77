-------------------------------- MODULE Chat --------------------------------
(***************************************************************************)
(* The chat: three lists on the server, the requests that read and write   *)
(* them as wholes, and the bridge that polls the queue, asks the model and *)
(* replies or escalates.  A request is a plan, the stages it has yet to go *)
(* through; every await on the store is an interleaving point, so a stage  *)
(* that changes a list is two steps, its get and its set.  The note that a *)
(* message or a reply also queues for the vault is a write of another list *)
(* whose failure never shows here.                                         *)
(*                                                                         *)
(* A definition named Op_Something is Op with a plausible slip in it; the  *)
(* specification never uses it.                                            *)
(***************************************************************************)
EXTENDS Integers, Sequences, FiniteSets

CONSTANTS
    Messages,     \* what the user writes, numbered in the order it is posted
    Slots,        \* requests the server can be serving at once
    Polls,        \* polls whose answers can be on the way at once
    None,         \* nothing
    MaxJobs,      \* bound: pending jobs ever created
    MaxFeedback,  \* bound: questions kept apart; a later escalation of a message
                  \* asks one of the message's earlier ones again
    MaxFaults,    \* bound: requests and bridges that die, holds for the model
    MaxEvents     \* bound: questions and faults, and messages counted twice

\* A pending job, what never changes of one, and a feedback request.
JobRecords == [msg : Messages, status : {"queued", "done", "escalated_to_computer"}]
Births     == [msg : Messages, answered : BOOLEAN]
Questions  == [msg : Messages, resolved : BOOLEAN]

ASSUME MessageAssumption == Messages \subseteq Nat
ASSUME NoneAssumption ==
    None \notin Messages \union Nat \union JobRecords \union Births \union Questions
ASSUME BoundAssumption == {MaxJobs, MaxFeedback, MaxFaults, MaxEvents} \subseteq Nat

VARIABLES
    chat,      \* chat_messages: per message, whether it is there and its replies, up to 2
    jobs,      \* pending_jobs, in the order of their ids
    feedback,  \* feedback_requests
    req,       \* the request in each slot
    polls,     \* per poll on its way, the jobs in the answer
    work,      \* the bridge's processing of each job
    fails,     \* _failCounts
    born,      \* what never changes of each job created: its message and answer
    asked,     \* feedback ids given out
    faults,
    raced,     \* a set has overwritten what another request had set
    stale      \* a poll's answer started a job that was queued no more

lists  == <<chat, jobs, feedback>>
bridge == <<polls, work, fails>>
vars   == <<lists, req, bridge, born, asked, faults, raced, stale>>

-----------------------------------------------------------------------------
(* Data *)

JobIds      == 1..MaxJobs
FeedbackIds == 1..MaxFeedback

Job(m, status)        == [msg |-> m, status |-> status]
Question(m, resolved) == [msg |-> m, resolved |-> resolved]

Plan_NoRequeue ==
    [post     |-> <<"append", "job">>,
     reply    |-> <<"append", "find", "job">>,
     escalate |-> <<"find", "job", "feedback">>,
     answer   |-> <<"lookup", "feedback">>]

\* The stages of each handler: "append", "job" and "feedback" are a get and a
\* set of one list, "lookup" and "find" a get with a search.
Plan ==
    [post     |-> <<"append", "job">>,
     reply    |-> <<"append", "find", "job">>,
     escalate |-> <<"find", "job", "feedback">>,
     answer   |-> <<"lookup", "feedback", "find", "job">>]

NoRequest ==
    [op |-> "none", todo |-> <<>>, msg |-> None, by |-> None,
     job |-> None, fb |-> None, item |-> None, copy |-> None]

\* A request: what it does, on which message, the job whose processing awaits it,
\* the job and the question it is about to store and the list it has read.
Request(op, m, by, job, fb, item) ==
    [op |-> op, todo |-> Plan[op], msg |-> m, by |-> by,
     job |-> job, fb |-> fb, item |-> item, copy |-> None]

Posted      == {m \in Messages : \E j \in JobIds : born[j] # None /\ born[j].msg = m}
Events      == 2 * Cardinality(Posted) + asked + faults
Free(s)     == req[s] = NoRequest
Stage(s)    == IF Free(s) THEN "none" ELSE Head(req[s].todo)
Queued(j)   == jobs[j] # None /\ jobs[j].status = "queued"

Init ==
    /\ chat = [m \in Messages |-> [posted |-> FALSE, replies |-> 0]]
    /\ jobs = [j \in JobIds |-> None]
    /\ feedback = [f \in FeedbackIds |-> None]
    /\ req = [s \in Slots |-> NoRequest]
    /\ polls = [p \in Polls |-> {}]
    /\ work = [j \in JobIds |-> "idle"]
    /\ fails = [j \in JobIds |-> 0]
    /\ born = [j \in JobIds |-> None]
    /\ asked = 0
    /\ faults = 0
    /\ raced = FALSE
    /\ stale = FALSE

-----------------------------------------------------------------------------
(* The dashboard's requests *)

\* Job id j is the next one; ids are given out in the order of creation.
Creates(s, j, op, m, f, item) ==
    /\ Free(s)
    /\ \A i \in JobIds : (born[i] # None) <=> i < j
    /\ req' = [req EXCEPT ![s] = Request(op, m, None, j, f, item)]
    /\ born' = [born EXCEPT ![j] = [msg |-> m, answered |-> op = "answer"]]
    /\ UNCHANGED <<lists, bridge, asked, faults, raced, stale>>

\* handlePostChatMessage()
Post(s, j, m) ==
    /\ m \notin Posted
    /\ \A n \in Messages : n < m => n \in Posted
    /\ Events + 2 <= MaxEvents
    /\ Creates(s, j, "post", m, None, Job(m, "queued"))

\* handleFeedbackAnswer(), for any question that was asked, resolved or not.
Answer(s, j, f) ==
    /\ feedback[f] # None
    /\ Creates(s, j, "answer", feedback[f].msg, f, None)

-----------------------------------------------------------------------------
(* The bridge *)

\* poll(): the server answers with what is queued.
Poll(p) ==
    /\ polls[p] = {}
    /\ \E j \in JobIds : Queued(j)
    /\ polls' = [polls EXCEPT ![p] = {j \in JobIds : Queued(j)}]
    /\ UNCHANGED <<lists, req, work, fails, born, asked, faults, raced, stale>>

Startable_Always(j) == TRUE

\* _inFlight keeps a job from being processed twice at once.
Startable(j) == work[j] = "idle"

\* The answer is there and the health check done: its jobs are started.
Deliver(p) ==
    /\ polls[p] # {}
    /\ LET started == {j \in polls[p] : Startable(j)} IN
         /\ work' = [j \in JobIds |-> IF j \in started THEN "thinking" ELSE work[j]]
         /\ stale' = (stale \/ \E j \in started : ~Queued(j))
    /\ polls' = [polls EXCEPT ![p] = {}]
    /\ UNCHANGED <<lists, req, fails, born, asked, faults, raced>>

\* processJob() after a success, or after the excuse: the job's failures are
\* forgotten and it is no longer in flight.
Settle(j) ==
    /\ work' = [work EXCEPT ![j] = "idle"]
    /\ fails' = [fails EXCEPT ![j] = 0]

LastTry(j) == fails[j] + 1 >= 3

\* processJob()'s catch: after the third failure in a row an excuse is posted;
\* an excuse that fails is given up.
Fail(j) ==
    IF work[j] = "excusing" THEN Settle(j)
    ELSE IF LastTry(j) THEN work' = [work EXCEPT ![j] = "sorry"] /\ UNCHANGED fails
    ELSE /\ work' = [work EXCEPT ![j] = "idle"]
         /\ fails' = [fails EXCEPT ![j] = @ + 1]

\* The messages cannot be fetched, or the model or its answer fails.
ThinkFails(j) ==
    /\ work[j] = "thinking"
    /\ Fail(j)
    /\ UNCHANGED <<lists, req, polls, born, asked, faults, raced, stale>>

\* There is text to forward: the message is found, or an answer came with the job.
HasText(j) == chat[born[j].msg].posted \/ born[j].answered

Posts(s, j, op, f, during) ==
    /\ Free(s)
    /\ req' = [req EXCEPT ![s] = Request(op, born[j].msg, j, None, f, None)]
    /\ work' = [work EXCEPT ![j] = during]
    /\ UNCHANGED <<lists, polls, fails, born, faults, raced, stale>>

\* The model's reply is posted.
Reply(s, j) ==
    /\ work[j] = "thinking"
    /\ HasText(j)
    /\ Posts(s, j, "reply", None, "posting")
    /\ UNCHANGED asked

\* The model asks to escalate, as often as it likes: with a new question, or with
\* one of the message's that was stored, which stands for a new one.
Escalate(s, j) ==
    /\ work[j] = "thinking"
    /\ HasText(j)
    /\ \E f \in FeedbackIds :
         /\ \/ f = asked + 1 /\ Events < MaxEvents /\ asked' = asked + 1
            \/ feedback[f] # None /\ feedback[f].msg = born[j].msg /\ asked' = asked
         /\ Posts(s, j, "escalate", f, "posting")

\* The third failure is answered with an error message.
Excuse(s, j) ==
    /\ work[j] = "sorry"
    /\ Posts(s, j, "reply", None, "excusing")
    /\ UNCHANGED asked

-----------------------------------------------------------------------------
(* The stages of a request *)

\* The bridge sees whether the request it awaits has succeeded.
Tell(s, ok) ==
    IF req[s].by = None THEN UNCHANGED <<work, fails>>
    ELSE IF ok THEN Settle(req[s].by) ELSE Fail(req[s].by)

NextStage(r, job, item) ==
    [r EXCEPT !.todo = Tail(@), !.job = job, !.item = item, !.copy = None]

\* The request goes on to its next stage, or is answered.
Advance(s, job, item) ==
    IF Len(req[s].todo) = 1
    THEN /\ req' = [req EXCEPT ![s] = NoRequest]
         /\ Tell(s, TRUE)
    ELSE /\ req' = [req EXCEPT ![s] = NextStage(@, job, item)]
         /\ UNCHANGED <<work, fails>>

\* The request is answered before its last stage, or not at all.
End(s, ok) ==
    /\ req' = [req EXCEPT ![s] = NoRequest]
    /\ Tell(s, ok)

\* handleFeedbackAnswer(): the question is found, to be stored as resolved.
Lookup(s) ==
    /\ Stage(s) = "lookup"
    /\ IF feedback[req[s].fb] = None
       THEN End(s, FALSE)
       ELSE Advance(s, req[s].job, Question(req[s].msg, TRUE))
    /\ UNCHANGED <<lists, polls, born, asked, faults, raced, stale>>

First(S) == {j \in S : \A i \in S : j <= i}

OfMessage(m) == {j \in JobIds : jobs[j] # None /\ jobs[j].msg = m}

FirstOpen_OfAny(m) == First({j \in JobIds : jobs[j] # None /\ jobs[j].status # "done"})


\* The job a reply closes: the first of the message that is not done.
FirstOpen(m) == First({j \in OfMessage(m) : jobs[j].status # "done"})

\* The search in pending_jobs.  Escalation takes the first job of the message and
\* answers 400 if there is none; an answer needs one to create another.
Find(s) ==
    LET r == req[s]
        found == IF r.op = "reply" THEN FirstOpen(r.msg) ELSE First(OfMessage(r.msg)) IN
    /\ Stage(s) = "find"
    /\ \/ /\ found = {}
          /\ End(s, r.op # "escalate")
       \/ \E j \in found :
            CASE r.op = "reply"    -> Advance(s, j, Job(jobs[j].msg, "done"))
              [] r.op = "escalate" -> Advance(s, j, Job(jobs[j].msg, "escalated_to_computer"))
              [] r.op = "answer"   -> Advance(s, r.job, Job(r.msg, "queued"))
    /\ UNCHANGED <<lists, polls, born, asked, faults, raced, stale>>

Current(s) ==
    CASE Stage(s) = "append"   -> chat
      [] Stage(s) = "job"      -> jobs
      [] Stage(s) = "feedback" -> feedback

\* appendChatMessage(), upsertPendingJob(), upsertFeedbackRequest(): the get.
Read(s) ==
    /\ Stage(s) \in {"append", "job", "feedback"}
    /\ req[s].copy = None
    /\ req' = [req EXCEPT ![s].copy = Current(s)]
    /\ UNCHANGED <<lists, bridge, born, asked, faults, raced, stale>>

\* The user's message is stored, or a reply, which is counted up to two.
Extended(c, op) ==
    IF op = "post" THEN [c EXCEPT !.posted = TRUE]
    ELSE [c EXCEPT !.replies = IF c.replies = 2 THEN 2 ELSE c.replies + 1]

Appended(r) == [r.copy EXCEPT ![r.msg] = Extended(@, r.op)]

\* The set: the list that was read, with the record put in.  An escalation goes
\* on to store its question.
Write(s) ==
    LET r == req[s] IN
    /\ r.copy # None
    /\ chat'     = IF Stage(s) = "append" THEN Appended(r) ELSE chat
    /\ jobs'     = IF Stage(s) = "job" THEN [r.copy EXCEPT ![r.job] = r.item] ELSE jobs
    /\ feedback' = IF Stage(s) = "feedback" THEN [r.copy EXCEPT ![r.fb] = r.item] ELSE feedback
    /\ Advance(s, r.job, IF r.op = "escalate" THEN Question(r.msg, FALSE) ELSE r.item)
    /\ raced' = (raced \/ Current(s) # r.copy)
    /\ UNCHANGED <<polls, born, asked, faults, stale>>

-----------------------------------------------------------------------------
(* Faults *)

Fault ==
    /\ faults < MaxFaults
    /\ Events < MaxEvents
    /\ faults' = faults + 1

\* The server's instance dies, or cannot be reached: the request goes no further.
Die(s) ==
    /\ Fault
    /\ ~Free(s)
    /\ End(s, FALSE)
    /\ UNCHANGED <<lists, polls, born, asked, raced, stale>>

\* The connection breaks: the bridge sees a failure, the request goes on.
Disconnect(s) ==
    /\ Fault
    /\ req[s].by # None
    /\ Fail(req[s].by)
    /\ req' = [req EXCEPT ![s].by = None]
    /\ UNCHANGED <<lists, polls, born, asked, raced, stale>>

\* The bridge is restarted: what it knew is gone, its requests go on.
Restart ==
    /\ Fault
    /\ polls' = [p \in Polls |-> {}]
    /\ work' = [j \in JobIds |-> "idle"]
    /\ fails' = [j \in JobIds |-> 0]
    /\ req' = [s \in Slots |-> [req[s] EXCEPT !.by = None]]
    /\ UNCHANGED <<lists, born, asked, raced, stale>>

\* A poll fails, or its health check finds that the model is down.
Skip(p) ==
    /\ Fault
    /\ polls[p] # {}
    /\ polls' = [polls EXCEPT ![p] = {}]
    /\ UNCHANGED <<lists, req, work, fails, born, asked, raced, stale>>

\* The model cannot be reached: the job is held without counting a failure, to
\* be polled again.
Hold(j) ==
    /\ Fault
    /\ work[j] = "thinking"
    /\ work' = [work EXCEPT ![j] = "idle"]
    /\ UNCHANGED <<lists, req, polls, fails, born, asked, raced, stale>>

-----------------------------------------------------------------------------
(* Specification *)

Serve(s) == Lookup(s) \/ Find(s) \/ Read(s) \/ Write(s)

Next ==
    \/ \E s \in Slots, j \in JobIds :
         \/ \E m \in Messages : Post(s, j, m)
         \/ \E f \in FeedbackIds : Answer(s, j, f)
         \/ Reply(s, j) \/ Escalate(s, j) \/ Excuse(s, j)
    \/ \E j \in JobIds : Hold(j) \/ ThinkFails(j)
    \/ \E p \in Polls : Poll(p) \/ Deliver(p) \/ Skip(p)
    \/ \E s \in Slots : Serve(s) \/ Die(s) \/ Disconnect(s)
    \/ Restart

Spec == Init /\ [][Next]_vars

\* A request is served to its end; the bridge polls every three seconds and its
\* polls are answered; a model that can be reached replies or fails, and an
\* excuse that is due is posted.
Fairness ==
    /\ \A s \in Slots : WF_vars(Serve(s))
    /\ \A p \in Polls : WF_vars(Poll(p)) /\ WF_vars(Deliver(p))
    /\ \A j \in JobIds :
         WF_vars(ThinkFails(j) \/ \E s \in Slots : Reply(s, j) \/ Excuse(s, j))

FairSpec == Spec /\ Fairness
-----------------------------------------------------------------------------
(* Properties *)

\* As long as no set overwrites another's, a job is only done when its message
\* has been replied to.
DoneIsReplied ==
    ~raced => \A j \in JobIds : (jobs[j] # None /\ jobs[j].status = "done")
                                    => chat[jobs[j].msg].replies > 0

\* Under the same condition, if nothing dies, a message that was posted is never
\* forgotten: it is replied to, queued, waiting for an answer of the user's, or
\* in the hands of a request.
NothingForgotten ==
    (~raced /\ faults = 0) =>
        \A m \in Messages : chat[m].posted =>
            \/ chat[m].replies > 0
            \/ \E j \in OfMessage(m) : Queued(j)
            \/ \E f \in FeedbackIds : feedback[f] = Question(m, FALSE)
            \/ \E s \in Slots : req[s].msg = m

\* A message is replied to once, unless sets overwrite each other, something
\* dies, an old poll starts a job again, or the message was escalated.
RepliedOnce ==
    \A m \in Messages :
        (/\ ~raced /\ ~stale /\ faults = 0
         /\ \A f \in FeedbackIds : feedback[f] = None \/ feedback[f].msg # m)
            => chat[m].replies <= 1


\* The handlers' comments: the reply "marks pending_job done", the escalation
\* "marks pending_job as escalated_to_computer".  So when the request the bridge
\* made for a job has been served, that job is queued no more.
RequestSettlesItsJob ==
    [][\A s \in Slots, j \in JobIds :
        (req[s].by = j /\ req'[s] = NoRequest /\ ~raced' /\ faults' = 0)
            => ~Queued(j)']_vars
=============================================================================
