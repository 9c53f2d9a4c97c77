--------------------------- MODULE JobQueueProofs ---------------------------
(***************************************************************************)
(* Theorems about JobQueue, for every set of jobs and handlers, every      *)
(* attempt budget and every number of crashes.                             *)
(***************************************************************************)
EXTENDS JobQueue, TLAPS

\* What the mark* helpers return is a document again.
LEMMA NextDocumentType ==
    ASSUME NEW s \in HandlerState, NEW cur \in Document
    PROVE  NextDocument(s, cur) \in Document
<1>1. s.goal \in Goals /\ s.task \in Nat /\ s.seen \in Document
  BY DEF HandlerState
<1>2. \A st \in JOB_STATUSES : Patched(cur, st) \in Document
  BY DEF Patched, Doc, Document
<1>3. MarkClaimed(s.seen, cur) \in Document
  BY <1>1 DEF MarkClaimed, Doc, Document, JOB_STATUSES
<1>4. MarkRunning(cur) \in Document
  BY <1>2 DEF MarkRunning, JOB_STATUSES
<1>5. MarkDone(cur) \in Document
  BY <1>2 DEF MarkDone, JOB_STATUSES
<1>6. \A f, m : MarkFailed(s.seen, cur, m, f) \in Document
  BY <1>2 DEF MarkFailed, JOB_STATUSES
<1>7. MarkAwaitingInput(cur, s.task) \in Document
  BY <1>1 DEF MarkAwaitingInput, Doc, Document, JOB_STATUSES
<1>8. QED
  BY <1>1, <1>3, <1>4, <1>5, <1>6, <1>7 DEF NextDocument, Goals, Outcomes

\* The documents and the handler state that the code begins with are well formed.
LEMMA ConstantTypes == NoDocument \in Document /\ Enqueued \in Document /\ Idle \in HandlerState
  BY DEF NoDocument, Enqueued, Idle, Doc, Handler, Document, JOB_STATUSES, HandlerState,
         Phases, Goals, NoTask

\* The helpers that set a handler's state keep it a handler state.
LEMMA GoOnType ==
    ASSUME hs \in [Handlers -> HandlerState], NEW h \in Handlers,
           NEW pc \in Phases, NEW goal \in Goals, NEW task \in Nat,
           NEW seen \in Document, NEW next \in Document,
           GoOn(h, pc, goal, task, seen, next)
    PROVE  hs' \in [Handlers -> HandlerState]
<1>1. Handler(pc, hs[h].role, hs[h].on, goal, task, seen, next) \in HandlerState
  BY DEF HandlerState, Handler
<1>2. QED
  BY <1>1 DEF GoOn

LEMMA BeginType ==
    ASSUME hs \in [Handlers -> HandlerState], doc \in [Jobs -> Document],
           NEW h \in Handlers, NEW j \in Jobs, NEW role \in {"drive", "callback"},
           NEW goal \in Goals, NEW task \in Nat,
           Begin(h, role, j, goal, task)
    PROVE  hs' \in [Handlers -> HandlerState]
<1>1. Handler("check", role, j, goal, task, doc[j], NoDocument) \in HandlerState
  BY ConstantTypes DEF HandlerState, Handler, Phases
<1>2. QED
  BY <1>1 DEF Begin

LEMMA ReturnType ==
    ASSUME hs \in [Handlers -> HandlerState], NEW h \in Handlers, Return(h)
    PROVE  hs' \in [Handlers -> HandlerState]
  BY ConstantTypes DEF Return

\* Setting a document keeps documents, update events and the ghost well formed.
LEMMA SetDocumentType ==
    ASSUME TypeOK, NEW h \in Handlers, hs[h].on \in Jobs, SetDocument(h)
    PROVE  /\ doc' \in [Jobs -> Document] /\ events' \subseteq Jobs \X Notifiable
           /\ overlapped' \subseteq Jobs
<1>1. hs[h].next \in Document
  BY DEF TypeOK, HandlerState
<1>2. QED
  BY <1>1 DEF TypeOK, SetDocument, BecomesFinal

\* A handler that is not idle serves a job; one about to notify has seen the
\* job done or failed.
BusyOnJob ==
    \A h \in Handlers :
        /\ hs[h].pc # "idle" => hs[h].on \in Jobs
        /\ hs[h].pc = "notify" => hs[h].seen.status \in Notifiable

TypeInv == TypeOK /\ BusyOnJob

\* Every step keeps handlers busy on jobs.
LEMMA BusyStep == TypeInv /\ [Next]_vars => BusyOnJob'
<1> SUFFICES ASSUME TypeInv, [Next]_vars PROVE BusyOnJob'
  OBVIOUS
<1>t. hs \in [Handlers -> HandlerState]
  BY DEF TypeInv, TypeOK
<1> USE DEF TypeInv, BusyOnJob
<1>1. ASSUME NEW h \in Handlers, NEW pc \in Phases, NEW goal, NEW task, NEW seen, NEW next,
             hs[h].pc # "idle", pc = "notify" => seen.status \in Notifiable,
             GoOn(h, pc, goal, task, seen, next)
      PROVE  BusyOnJob'
  BY <1>t, <1>1 DEF GoOn, Handler
<1>2. ASSUME NEW h \in Handlers, Return(h)
      PROVE  BusyOnJob'
  BY <1>t, <1>2 DEF Return, Idle, Handler
<1>3. ASSUME NEW h \in Handlers, NEW j \in Jobs, NEW role, NEW goal, NEW task,
             Begin(h, role, j, goal, task)
      PROVE  BusyOnJob'
  BY <1>t, <1>3 DEF Begin, Handler
<1>4. ASSUME NEW j \in Jobs, Enqueue(j)
      PROVE  BusyOnJob'
  BY <1>4 DEF Enqueue
<1>5. ASSUME NEW j \in Jobs, Created(j) \/ Sweep(j)
      PROVE  BusyOnJob'
  BY <1>3, <1>5 DEF Created, Sweep, Drive
<1>6. ASSUME NEW j \in Jobs, Answer(j)
      PROVE  BusyOnJob'
  BY <1>3, <1>6 DEF Answer, Callback
<1>7. ASSUME NEW h \in Handlers, Step(h)
      PROVE  BusyOnJob'
  <2>1. CASE CheckVersion(h)
    BY <1>1, <2>1 DEF CheckVersion, Phases
  <2>2. CASE VersionMismatch(h)
    BY <1>2, <2>2 DEF VersionMismatch
  <2>3. CASE WriteClaim(h)
    BY <1>1, <2>3 DEF WriteClaim, SetDocument, Phases
  <2>4. CASE WriteRunning(h)
    BY <1>1, <2>4 DEF WriteRunning, SetDocument, Phases
  <2>5. CASE WriteResult(h)
    BY <1>1, <1>2, <2>5 DEF WriteResult, SetDocument, Phases
  <2>6. CASE RunLocal(h)
    BY <1>1, <2>6 DEF RunLocal, Phases
  <2>7. CASE SubmitTask(h)
    BY <1>1, <2>7 DEF SubmitTask, Phases
  <2>8. CASE SubmitFails(h)
    BY <1>1, <2>8 DEF SubmitFails, Phases
  <2>9. CASE NotifyFromCallback(h)
    BY <1>2, <2>9 DEF NotifyFromCallback
  <2>10. QED
    BY <1>7, <2>1, <2>2, <2>3, <2>4, <2>5, <2>6, <2>7, <2>8, <2>9 DEF Step
<1>8. ASSUME NEW h \in Handlers, Crash(h)
      PROVE  BusyOnJob'
  BY <1>2, <1>8 DEF Crash
<1>9. ASSUME NEW e \in events, NotifyFromTrigger(e)
      PROVE  BusyOnJob'
  BY <1>9 DEF NotifyFromTrigger
<1>10. CASE UNCHANGED vars
  BY <1>10 DEF vars
<1>11. QED
  BY <1>4, <1>5, <1>6, <1>7, <1>8, <1>9, <1>10 DEF Next

\* Every step keeps the types.
LEMMA TypeStep == TypeInv /\ [Next]_vars => TypeOK'
<1> SUFFICES ASSUME TypeInv, [Next]_vars PROVE TypeOK'
  OBVIOUS
<1>t. TypeOK /\ BusyOnJob
  BY DEF TypeInv
<1>b. \A h \in Handlers :
        /\ hs[h].pc # "idle" => hs[h].on \in Jobs
        /\ hs[h].pc = "notify" => hs[h].seen.status \in Notifiable
  BY DEF TypeInv, BusyOnJob
<1>h. \A h \in Handlers : /\ hs[h] \in HandlerState
                         /\ hs[h].goal \in Goals /\ hs[h].task \in Nat
                         /\ hs[h].seen \in Document /\ hs[h].next \in Document
  BY <1>t DEF TypeOK, HandlerState
<1>d. NoDocument \in Document /\ Enqueued \in Document
  BY ConstantTypes
<1>p. {"idle", "check", "write", "work", "notify"} = Phases
  BY DEF Phases
<1>v. \A o : Verdict(o) \in Notifiable
  BY DEF Verdict, Notifiable
<1>g. Goals = {"claim", "run", "park", "done", "error", "fatal"} /\ Outcomes = {"done", "error", "fatal"}
  BY DEF Goals, Outcomes
<1>1. ASSUME NEW j \in Jobs, Enqueue(j)
      PROVE  TypeOK'
  BY <1>t, <1>d, <1>1 DEF TypeOK, Enqueue
<1>2. ASSUME NEW j \in Jobs, Created(j) \/ Sweep(j)
      PROVE  TypeOK'
  <2>1. PICK h \in Handlers : Drive(h, j)
    BY <1>2 DEF Created, Sweep
  <2>2. hs' \in [Handlers -> HandlerState]
    BY <1>t, <1>g, <2>1, BeginType DEF TypeOK, Drive, NoTask
  <2>3. QED
    BY <1>t, <2>1, <2>2 DEF TypeOK, Drive
<1>3. ASSUME NEW j \in Jobs, Answer(j)
      PROVE  TypeOK'
  <2>1. PICK h \in Handlers, t \in 1..issued[j], o \in Outcomes : Callback(h, j, t, o)
    BY <1>3 DEF Answer
  <2>2. issued[j] \in Nat /\ t \in Nat
    BY <1>t DEF TypeOK
  <2>3. hs' \in [Handlers -> HandlerState]
    BY <1>t, <1>g, <2>1, <2>2, BeginType DEF TypeOK, Callback, GoalOf
  <2>4. QED
    BY <1>t, <1>v, <2>1, <2>3 DEF TypeOK, Callback
<1>4. ASSUME NEW h \in Handlers, Step(h)
      PROVE  TypeOK'
  <2>1. CASE CheckVersion(h)
    <3>1. hs[h].on \in Jobs /\ doc[hs[h].on] \in Document
      BY <1>t, <2>1 DEF CheckVersion, BusyOnJob, TypeOK
    <3>2. NextDocument(hs[h], doc[hs[h].on]) \in Document
      BY <1>h, <3>1, NextDocumentType
    <3>3. hs' \in [Handlers -> HandlerState]
      BY <1>t, <1>h, <1>p, <2>1, <3>2, GoOnType DEF TypeOK, CheckVersion
    <3>4. QED
      BY <1>t, <2>1, <3>3 DEF TypeOK, CheckVersion
  <2>2. CASE VersionMismatch(h)
    <3>1. hs' \in [Handlers -> HandlerState]
      BY <1>t, <2>2, ReturnType DEF TypeOK, VersionMismatch
    <3>2. QED
      BY <1>t, <2>2, <3>1 DEF TypeOK, VersionMismatch
  <2>w. ASSUME SetDocument(h)
        PROVE  /\ doc' \in [Jobs -> Document] /\ events' \subseteq Jobs \X Notifiable
               /\ overlapped' \subseteq Jobs
    BY <1>t, <2>w, SetDocumentType DEF BusyOnJob, SetDocument
  <2>3. CASE WriteClaim(h)
    <3>1. hs' \in [Handlers -> HandlerState]
      BY <1>t, <1>h, <1>p, <1>g, <1>d, <2>3, GoOnType DEF TypeOK, WriteClaim
    <3>2. QED
      BY <1>t, <2>w, <2>3, <3>1 DEF TypeOK, WriteClaim
  <2>4. CASE WriteRunning(h)
    <3>1. hs' \in [Handlers -> HandlerState]
      BY <1>t, <1>h, <1>p, <1>g, <1>d, <2>4, GoOnType DEF TypeOK, WriteRunning
    <3>2. QED
      BY <1>t, <2>w, <2>4, <3>1 DEF TypeOK, WriteRunning
  <2>5. CASE WriteResult(h)
    <3>1. hs' \in [Handlers -> HandlerState]
      BY <1>t, <1>h, <1>p, <1>d, <2>5, GoOnType, ReturnType DEF TypeOK, WriteResult
    <3>2. QED
      BY <1>t, <2>w, <2>5, <3>1 DEF TypeOK, WriteResult
  <2>6. CASE RunLocal(h)
    <3>1. PICK o \in Outcomes : /\ GoOn(h, "check", o, NoTask, hs[h].seen, NoDocument)
                               /\ verdicts' = [verdicts EXCEPT ![hs[h].on] = @ \union {Verdict(o)}]
      BY <2>6 DEF RunLocal
    <3>2. hs' \in [Handlers -> HandlerState]
      BY <1>t, <1>h, <1>p, <1>g, <1>d, <3>1, GoOnType DEF TypeOK, NoTask
    <3>3. QED
      BY <1>t, <1>b, <1>v, <2>6, <3>1, <3>2 DEF TypeOK, RunLocal
  <2>7. CASE SubmitTask(h)
    <3>1. hs[h].on \in Jobs /\ issued[hs[h].on] \in Nat
      BY <1>t, <2>7 DEF SubmitTask, BusyOnJob, TypeOK
    <3>2. hs' \in [Handlers -> HandlerState]
      <4>1. GoOn(h, "check", "park", issued[hs[h].on] + 1, hs[h].seen, NoDocument)
        BY <2>7 DEF SubmitTask
      <4>2. issued[hs[h].on] + 1 \in Nat
        BY <3>1
      <4>3. QED
        BY <1>t, <1>h, <1>p, <1>g, <1>d, <4>1, <4>2, GoOnType DEF TypeOK
    <3>3. issued' \in [Jobs -> Nat] /\ runs' \in [Jobs -> Nat]
      BY <1>t, <3>1, <2>7 DEF TypeOK, SubmitTask
    <3>4. QED
      BY <1>t, <2>7, <3>2, <3>3 DEF TypeOK, SubmitTask
  <2>8. CASE SubmitFails(h)
    <3>1. PICK o \in {"error", "fatal"}, taken \in {0, 1} :
            /\ issued' = [issued EXCEPT ![hs[h].on] = @ + taken]
            /\ GoOn(h, "check", o, NoTask, hs[h].seen, NoDocument)
            /\ verdicts' = [verdicts EXCEPT ![hs[h].on] = @ \union {Verdict(o)}]
      BY <2>8 DEF SubmitFails
    <3>2. hs' \in [Handlers -> HandlerState]
      BY <1>t, <1>h, <1>p, <1>g, <1>d, <3>1, GoOnType DEF TypeOK, NoTask
    <3>3. QED
      <4>1. issued' \in [Jobs -> Nat] /\ runs' \in [Jobs -> Nat]
        BY <1>t, <1>b, <2>8, <3>1 DEF TypeOK, SubmitFails
      <4>2. verdicts' \in [Jobs -> SUBSET Notifiable]
        BY <1>t, <1>b, <1>v, <2>8, <3>1 DEF TypeOK, SubmitFails
      <4>3. QED
        BY <1>t, <2>8, <3>2, <4>1, <4>2 DEF TypeOK, SubmitFails
  <2>9. CASE NotifyFromCallback(h)
    <3>1. hs' \in [Handlers -> HandlerState]
      BY <1>t, <2>9, ReturnType DEF TypeOK, NotifyFromCallback
    <3>2. hs[h].on \in Jobs /\ hs[h].seen.status \in Notifiable
      BY <1>b, <2>9 DEF NotifyFromCallback
    <3>3. notes' \in [Jobs -> SUBSET Notifiable]
      BY <1>t, <2>9, <3>2 DEF TypeOK, NotifyFromCallback
    <3>4. QED
      BY <1>t, <2>9, <3>1, <3>3 DEF TypeOK, NotifyFromCallback
  <2>10. QED
    BY <1>4, <2>1, <2>2, <2>3, <2>4, <2>5, <2>6, <2>7, <2>8, <2>9 DEF Step
<1>5. ASSUME NEW h \in Handlers, Crash(h)
      PROVE  TypeOK'
  <2>1. hs' \in [Handlers -> HandlerState]
    BY <1>t, <1>5, ReturnType DEF TypeOK, Crash
  <2>2. QED
    BY <1>t, <1>5, <2>1 DEF TypeOK, Crash
<1>6. ASSUME NEW e \in events, NotifyFromTrigger(e)
      PROVE  TypeOK'
  BY <1>t, <1>6 DEF TypeOK, NotifyFromTrigger
<1>7. CASE UNCHANGED vars
  BY <1>t, <1>7 DEF TypeOK, vars
<1>8. QED
  BY <1>1, <1>2, <1>3, <1>4, <1>5, <1>6, <1>7 DEF Next

\* The type invariant, with what it needs about busy handlers.
LEMMA TypeInvariant == Spec => []TypeInv
<1>1. Init => TypeInv
  BY ConstantTypes DEF Init, TypeInv, TypeOK, BusyOnJob, Idle, Handler
<1>2. TypeInv /\ [Next]_vars => TypeInv'
  BY TypeStep, BusyStep DEF TypeInv
<1>3. QED
  BY <1>1, <1>2, PTL DEF Spec

\* Documents, handlers and histories keep their shape, whatever interleaves.
THEOREM TypeCorrect == Spec => []TypeOK
<1>1. TypeInv => TypeOK
  BY DEF TypeInv
<1>2. QED
  BY <1>1, TypeInvariant, PTL

-----------------------------------------------------------------------------
(* Outcomes are earned: the argument needs nothing about versions.  What a  *)
(* handler is about to write was reported before, and reports and tasks are *)
(* never taken back.                                                        *)

\* d may be stored for a job with reports v and n tasks handed to Computer.
Backed(d, v, n) ==
    /\ d.status \in Notifiable => d.status \in v
    /\ d.status = "awaiting_input" => d.task \in 1..n

GoalBacked(s, v, n) ==
    /\ s.goal \in Outcomes => Verdict(s.goal) \in v
    /\ s.goal = "park" => s.task \in 1..n

\* What a handler s may hold.
HandlerBacked(s, v, n) ==
    /\ s.pc \in {"check", "write"} => GoalBacked(s, v, n)
    /\ s.pc = "write" => Backed(s.next, v, n)
    /\ s.pc = "notify" => Backed(s.seen, v, n)

EarnedInv ==
    /\ \A j \in Jobs : Backed(doc[j], verdicts[j], issued[j])
    /\ \A h \in Handlers :
         hs[h].pc # "idle" => HandlerBacked(hs[h], verdicts[hs[h].on], issued[hs[h].on])
    /\ \A e \in events : e[2] \in verdicts[e[1]]
    /\ \A j \in Jobs : notes[j] \subseteq verdicts[j]

LEMMA BackedMonotonic ==
    ASSUME NEW v, NEW w, v \subseteq w, NEW n \in Nat, NEW m \in Nat, n <= m
    PROVE  /\ \A d \in Document : Backed(d, v, n) => Backed(d, w, m)
           /\ \A s \in HandlerState : HandlerBacked(s, v, n) => HandlerBacked(s, w, m)
<1>1. \A k : k \in 1..n => k \in 1..m
  OBVIOUS
<1>2. \A d \in Document : Backed(d, v, n) => Backed(d, w, m)
  BY <1>1 DEF Backed
<1>3. \A s \in HandlerState : GoalBacked(s, v, n) => GoalBacked(s, w, m)
  BY <1>1 DEF GoalBacked
<1>4. \A s \in HandlerState : s.next \in Document /\ s.seen \in Document
  BY DEF HandlerState
<1>5. QED
  BY <1>2, <1>3, <1>4 DEF HandlerBacked

\* Whatever goal a backed handler has, the document it computes is backed.
LEMMA NextDocumentBacked ==
    ASSUME NEW s \in HandlerState, NEW cur \in Document, NEW v, NEW n,
           GoalBacked(s, v, n)
    PROVE  Backed(NextDocument(s, cur), v, n)
<1>1. s.goal \in {"claim", "run", "park", "done", "error", "fatal"}
  BY DEF HandlerState, Goals, Outcomes
<1>2. CASE s.goal = "claim"
  BY <1>2 DEF NextDocument, MarkClaimed, Doc, Backed, Notifiable
<1>3. CASE s.goal = "run"
  BY <1>3 DEF NextDocument, MarkRunning, Patched, Doc, Backed, Notifiable
<1>4. CASE s.goal = "park"
  BY <1>4 DEF NextDocument, MarkAwaitingInput, Doc, Backed, GoalBacked, Notifiable
<1>5. CASE s.goal = "done"
  BY <1>5 DEF NextDocument, MarkDone, Patched, Doc, Backed, GoalBacked, Outcomes, Notifiable, Verdict
<1>6. CASE s.goal = "error"
  BY <1>6 DEF NextDocument, MarkFailed, Patched, Doc, Backed, GoalBacked, Outcomes, Notifiable, Verdict
<1>7. CASE s.goal = "fatal"
  BY <1>7 DEF NextDocument, MarkFailed, Patched, Doc, Backed, GoalBacked, Outcomes, Notifiable, Verdict
<1>8. QED
  BY <1>1, <1>2, <1>3, <1>4, <1>5, <1>6, <1>7

\* Reports and tasks are only added.
LEMMA HistoryGrows ==
    ASSUME TypeInv, [Next]_vars, NEW j \in Jobs
    PROVE  /\ verdicts[j] \subseteq verdicts'[j]
           /\ issued[j] \in Nat /\ issued'[j] \in Nat /\ issued[j] <= issued'[j]
<1>t. TypeOK /\ TypeOK'
  BY TypeStep DEF TypeInv
<1>i. issued[j] \in Nat /\ issued'[j] \in Nat
  BY <1>t DEF TypeOK
<1>1. CASE UNCHANGED <<verdicts, issued>>
  BY <1>i, <1>1
<1>2. ASSUME NEW k \in Jobs, Answer(k)
      PROVE  verdicts[j] \subseteq verdicts'[j] /\ issued[j] <= issued'[j]
  BY <1>t, <1>i, <1>2 DEF Answer, Callback, TypeOK
<1>3. ASSUME NEW h \in Handlers, RunLocal(h) \/ SubmitTask(h) \/ SubmitFails(h)
      PROVE  verdicts[j] \subseteq verdicts'[j] /\ issued[j] <= issued'[j]
  BY <1>t, <1>i, <1>3 DEF RunLocal, SubmitTask, SubmitFails, TypeOK
<1>4. QED
  <2>1. \/ UNCHANGED <<verdicts, issued>>
        \/ \E k \in Jobs : Answer(k)
        \/ \E h \in Handlers : RunLocal(h) \/ SubmitTask(h) \/ SubmitFails(h)
    BY DEF Next, vars, Enqueue, Created, Sweep, Drive, Step, CheckVersion, VersionMismatch, WriteClaim,
           WriteRunning, WriteResult, SetDocument, NotifyFromCallback, NotifyFromTrigger, Crash
  <2>2. QED
    BY <1>i, <1>1, <1>2, <1>3, <2>1

\* A document only changes by being enqueued or by a handler's set.
LEMMA DocumentChanges ==
    ASSUME TypeInv, [Next]_vars
    PROVE  /\ \A j \in Jobs : \/ doc'[j] = doc[j]
                            \/ doc'[j] = Enqueued
                            \/ \E h \in Handlers : /\ hs[h].pc = "write"
                                                  /\ hs[h].on = j
                                                  /\ doc'[j] = hs[h].next
           /\ \A e \in events' : \/ e \in events
                                \/ \E h \in Handlers : /\ hs[h].pc = "write"
                                                      /\ e = <<hs[h].on, hs[h].next.status>>
<1>t. doc \in [Jobs -> Document]
  BY DEF TypeInv, TypeOK
<1>1. CASE UNCHANGED <<doc, events>>
  BY <1>1
<1>2. ASSUME NEW j \in Jobs, Enqueue(j)
      PROVE  UNCHANGED events /\ \A k \in Jobs : doc'[k] = doc[k] \/ doc'[k] = Enqueued
  BY <1>t, <1>2 DEF Enqueue
<1>3. ASSUME NEW h \in Handlers, SetDocument(h)
      PROVE  /\ hs[h].pc = "write"
             /\ \A k \in Jobs : doc'[k] = doc[k] \/ (hs[h].on = k /\ doc'[k] = hs[h].next)
             /\ \A e \in events' : e \in events \/ e = <<hs[h].on, hs[h].next.status>>
  BY <1>t, <1>3 DEF SetDocument
<1>4. ASSUME NEW e \in events, NotifyFromTrigger(e)
      PROVE  UNCHANGED doc /\ events' \subseteq events
  BY <1>4 DEF NotifyFromTrigger
<1>5. \/ UNCHANGED <<doc, events>>
      \/ \E j \in Jobs : Enqueue(j)
      \/ \E h \in Handlers : SetDocument(h)
      \/ \E e \in events : NotifyFromTrigger(e)
  BY DEF Next, vars, Created, Sweep, Drive, Answer, Callback, Step, CheckVersion, VersionMismatch,
         WriteClaim, WriteRunning, WriteResult, RunLocal, SubmitTask, SubmitFails,
         NotifyFromCallback, Crash
<1>6. QED
  BY <1>1, <1>2, <1>3, <1>4, <1>5

\* A handler moves by its own step, when it dies, or when it takes on a job; no
\* other handler moves with it.
LEMMA HandlerMoves ==
    ASSUME TypeInv, [Next]_vars, NEW h \in Handlers
    PROVE  \/ hs'[h] = hs[h]
           \/ Step(h)
           \/ Crash(h)
           \/ \E k \in Jobs : Drive(h, k)
           \/ \E k \in Jobs : \E t \in 1..issued[k], o \in Outcomes : Callback(h, k, t, o)
<1>t. hs \in [Handlers -> HandlerState]
  BY DEF TypeInv, TypeOK
<1>1. CASE hs' = hs
  BY <1>1
<1>2. ASSUME NEW g \in Handlers, g # h, Step(g) \/ Crash(g)
      PROVE  hs'[h] = hs[h]
  BY <1>t, <1>2 DEF Step, CheckVersion, VersionMismatch, WriteClaim, WriteRunning, WriteResult,
         RunLocal, SubmitTask, SubmitFails, NotifyFromCallback, Crash, GoOn, Return
<1>3. ASSUME NEW g \in Handlers, g # h, NEW k \in Jobs, Drive(g, k)
      PROVE  hs'[h] = hs[h]
  BY <1>t, <1>3 DEF Drive, Begin
<1>4. ASSUME NEW g \in Handlers, g # h, NEW k \in Jobs, NEW t, NEW o, Callback(g, k, t, o)
      PROVE  hs'[h] = hs[h]
  BY <1>t, <1>4 DEF Callback, Begin
<1>5. \/ hs' = hs
      \/ \E g \in Handlers : Step(g) \/ Crash(g)
      \/ \E g \in Handlers, k \in Jobs : Drive(g, k)
      \/ \E g \in Handlers, k \in Jobs : \E t \in 1..issued[k], o \in Outcomes : Callback(g, k, t, o)
  BY DEF Next, vars, Enqueue, Created, Sweep, Answer, NotifyFromTrigger
<1>6. QED
  BY <1>1, <1>2, <1>3, <1>4, <1>5

\* A handler keeps its state, is reset, or takes a step of its own.
LEMMA HandlerChanges ==
    ASSUME TypeInv, [Next]_vars, NEW h \in Handlers
    PROVE  \/ hs'[h] = hs[h] \/ hs'[h] = Idle
           \/ CheckVersion(h) \/ WriteClaim(h) \/ WriteRunning(h) \/ WriteResult(h)
           \/ RunLocal(h) \/ SubmitTask(h) \/ SubmitFails(h)
           \/ \E k \in Jobs : Drive(h, k)
           \/ \E k \in Jobs : \E t \in 1..issued[k], o \in Outcomes : Callback(h, k, t, o)
<1>1. Return(h) => hs'[h] = Idle
  BY DEF TypeInv, TypeOK, Return
<1>2. QED
  BY <1>1, HandlerMoves DEF Step, VersionMismatch, NotifyFromCallback, Crash

\* Every step keeps outcomes, announcements and handlers backed by reports.
LEMMA EarnedStep == TypeInv /\ EarnedInv /\ [Next]_vars => EarnedInv'
<1> SUFFICES ASSUME TypeInv, EarnedInv, [Next]_vars PROVE EarnedInv'
  OBVIOUS
<1>t. TypeOK /\ TypeOK' /\ BusyOnJob
  BY TypeStep DEF TypeInv
<1>g. \A j \in Jobs : /\ verdicts[j] \subseteq verdicts'[j]
                     /\ issued[j] \in Nat /\ issued'[j] \in Nat /\ issued[j] <= issued'[j]
  BY HistoryGrows
<1>m. \A j \in Jobs :
        /\ \A d \in Document :
             Backed(d, verdicts[j], issued[j]) => Backed(d, verdicts'[j], issued'[j])
        /\ \A s \in HandlerState :
             HandlerBacked(s, verdicts[j], issued[j]) => HandlerBacked(s, verdicts'[j], issued'[j])
  BY <1>g, BackedMonotonic
<1>h. \A h \in Handlers : /\ hs[h] \in HandlerState /\ hs[h].next \in Document
                         /\ hs[h].pc # "idle" => hs[h].on \in Jobs
  BY <1>t DEF TypeOK, HandlerState, BusyOnJob
<1>n. \A h \in Handlers :
        hs[h].pc = "write" => Backed(hs[h].next, verdicts[hs[h].on], issued[hs[h].on])
  BY <1>h DEF EarnedInv, HandlerBacked
<1>1. \A j \in Jobs : Backed(doc'[j], verdicts'[j], issued'[j])
  <2>1. \A j \in Jobs : doc[j] \in Document /\ Backed(doc[j], verdicts[j], issued[j])
    BY <1>t DEF EarnedInv, TypeOK
  <2>2. \A v, n : Backed(Enqueued, v, n)
    BY DEF Backed, Enqueued, Doc, Notifiable
  <2>3. SUFFICES ASSUME NEW j \in Jobs
                 PROVE  Backed(doc'[j], verdicts'[j], issued'[j])
    OBVIOUS
  <2>4. CASE doc'[j] = doc[j]
    BY <1>m, <2>1, <2>4, Zenon
  <2>5. CASE doc'[j] = Enqueued
    BY <2>2, <2>5, Zenon
  <2>6. ASSUME NEW h \in Handlers, hs[h].pc = "write", hs[h].on = j, doc'[j] = hs[h].next
        PROVE  Backed(doc'[j], verdicts'[j], issued'[j])
    <3>1. hs[h].next \in Document
      BY <1>t DEF TypeOK, HandlerState
    <3>2. Backed(hs[h].next, verdicts[j], issued[j])
      BY <1>n, <2>6
    <3>3. QED
      BY <1>m, <2>6, <3>1, <3>2, Zenon
  <2>7. QED
    BY <2>4, <2>5, <2>6, DocumentChanges
<1>e. \A e \in events : e[1] \in Jobs /\ e[2] \in Notifiable /\ e[2] \in verdicts[e[1]]
  BY <1>t DEF EarnedInv, TypeOK
<1>2. \A e \in events' : e[2] \in verdicts'[e[1]]
  <2>1. SUFFICES ASSUME NEW e \in events'
                 PROVE  e[2] \in verdicts'[e[1]]
    OBVIOUS
  <2>2. CASE e \in events
    BY <1>e, <1>g, <2>2
  <2>3. ASSUME NEW h \in Handlers, hs[h].pc = "write", e = <<hs[h].on, hs[h].next.status>>
        PROVE  e[2] \in verdicts'[e[1]]
    <3>1. hs[h].on \in Jobs /\ e[1] = hs[h].on /\ e[2] = hs[h].next.status
      <4>1. e[1] = hs[h].on /\ e[2] = hs[h].next.status
        BY <2>3
      <4>2. hs[h].pc # "idle"
        BY <2>3
      <4>3. hs[h].on \in Jobs
        BY <1>t, <4>2 DEF BusyOnJob
      <4>4. QED
        BY <4>1, <4>3
    <3>2. e[2] \in Notifiable
      BY <1>t, <2>1 DEF TypeOK
    <3>3. e[2] \in verdicts[e[1]]
      BY <1>n, <2>3, <3>1, <3>2 DEF Backed
    <3>4. QED
      BY <1>g, <3>1, <3>3
  <2>4. QED
    BY <2>1, <2>2, <2>3, DocumentChanges
<1>3. \A j \in Jobs : notes'[j] \subseteq verdicts'[j]
  <2>1. SUFFICES ASSUME NEW j \in Jobs, NEW n \in notes'[j]
                 PROVE  n \in verdicts[j]
    BY <1>g
  <2>2. CASE n \in notes[j]
    BY <2>1, <2>2 DEF EarnedInv
  <2>3. ASSUME NEW h \in Handlers, NotifyFromCallback(h), n \notin notes[j]
        PROVE  n \in verdicts[j]
    <3>1. hs[h].on = j /\ n = hs[h].seen.status
      BY <1>t, <2>3 DEF NotifyFromCallback, TypeOK
    <3>2. Backed(hs[h].seen, verdicts[j], issued[j]) /\ hs[h].seen.status \in Notifiable
      BY <1>t, <2>3, <3>1 DEF NotifyFromCallback, EarnedInv, HandlerBacked, BusyOnJob
    <3>3. QED
      BY <3>1, <3>2 DEF Backed
  <2>4. ASSUME NEW e \in events, NotifyFromTrigger(e), n \notin notes[j]
        PROVE  n \in verdicts[j]
    <3>1. e[1] = j /\ n = e[2]
      BY <1>t, <2>4 DEF NotifyFromTrigger, TypeOK
    <3>2. QED
      BY <1>e, <3>1
  <2>5. \/ notes' = notes
        \/ \E h \in Handlers : NotifyFromCallback(h)
        \/ \E e \in events : NotifyFromTrigger(e)
    BY DEF Next, vars, Enqueue, Created, Sweep, Drive, Answer, Callback, Step, CheckVersion,
           VersionMismatch, WriteClaim, WriteRunning, WriteResult, RunLocal, SubmitTask,
           SubmitFails, Crash
  <2>6. QED
    BY <2>2, <2>3, <2>4, <2>5
<1>4. \A h \in Handlers :
        hs'[h].pc # "idle" => HandlerBacked(hs'[h], verdicts'[hs'[h].on], issued'[hs'[h].on])
  <2> SUFFICES ASSUME NEW h \in Handlers, hs'[h].pc # "idle"
               PROVE  HandlerBacked(hs'[h], verdicts'[hs'[h].on], issued'[hs'[h].on])
    OBVIOUS
  <2> DEFINE j == hs[h].on
             v == verdicts'[j]
             n == issued'[j]
  <2>b. ASSUME hs[h].pc # "idle"
        PROVE  j \in Jobs /\ HandlerBacked(hs[h], v, n)
    <3>1. j \in Jobs /\ hs[h] \in HandlerState
      BY <1>t, <2>b DEF BusyOnJob, TypeOK
    <3>2. HandlerBacked(hs[h], verdicts[j], issued[j])
      BY <2>b DEF EarnedInv
    <3>3. QED
      BY <1>m, <3>1, <3>2, Zenon
  <2>1. CASE hs'[h] = hs[h]
    BY <2>b, <2>1
  <2>2. CASE hs'[h] = Idle
    BY <2>2 DEF Idle, Handler
  <2>3. ASSUME NEW pc \in {"check", "work"}, NEW goal, NEW task, NEW seen,
               GoOn(h, pc, goal, task, seen, NoDocument),
               pc = "check" => /\ goal \in Outcomes => Verdict(goal) \in v
                               /\ goal = "park" => task \in 1..n
        PROVE  HandlerBacked(hs'[h], verdicts'[hs'[h].on], issued'[hs'[h].on])
    <3>1. /\ hs'[h].pc = pc /\ hs'[h].on = j
          /\ hs'[h].goal = goal /\ hs'[h].task = task
      BY <1>t, <2>3 DEF GoOn, Handler, TypeOK
    <3>2. QED
      BY <2>3, <3>1 DEF HandlerBacked, GoalBacked
  <2>4. CASE CheckVersion(h)
    <3>1. /\ hs'[h].pc = "write" /\ hs'[h].on = j /\ hs'[h].goal = hs[h].goal
          /\ hs'[h].task = hs[h].task /\ hs'[h].next = NextDocument(hs[h], doc[j])
      BY <1>t, <2>4 DEF CheckVersion, GoOn, Handler, TypeOK
    <3>2. doc[j] \in Document /\ GoalBacked(hs[h], v, n)
      BY <1>t, <2>b, <2>4 DEF CheckVersion, HandlerBacked, TypeOK
    <3>3. Backed(NextDocument(hs[h], doc[j]), v, n)
      <4>1. hs[h] \in HandlerState /\ doc[j] \in Document
        BY <1>t, <3>2 DEF TypeOK
      <4>2. ASSUME NEW w, NEW m, GoalBacked(hs[h], w, m)
            PROVE  Backed(NextDocument(hs[h], doc[j]), w, m)
        BY <4>1, <4>2, NextDocumentBacked
      <4>3. QED
        BY <3>2, <4>2, Zenon
    <3>4. QED
      BY <3>1, <3>2, <3>3 DEF HandlerBacked, GoalBacked
  <2>5. CASE WriteClaim(h) \/ WriteRunning(h)
    BY <2>3, <2>5 DEF WriteClaim, WriteRunning, Outcomes
  <2>6. CASE WriteResult(h)
    <3>1. /\ hs'[h].pc = "notify" /\ hs'[h].on = j /\ hs'[h].seen = hs[h].next
          \/ hs'[h] = Idle
      BY <1>t, <2>6 DEF WriteResult, GoOn, Return, Handler, TypeOK
    <3>2. Backed(hs[h].next, v, n)
      BY <2>b, <2>6 DEF WriteResult, SetDocument, HandlerBacked
    <3>3. QED
      BY <2>2, <3>1, <3>2 DEF HandlerBacked
  <2>7. CASE RunLocal(h)
    <3>1. PICK o \in Outcomes : /\ GoOn(h, "check", o, NoTask, hs[h].seen, NoDocument)
                               /\ verdicts' = [verdicts EXCEPT ![j] = @ \union {Verdict(o)}]
      BY <2>7 DEF RunLocal
    <3>2. Verdict(o) \in v
      BY <1>t, <2>b, <2>7, <3>1 DEF RunLocal, TypeOK
    <3>3. QED
      BY <2>3, <3>1, <3>2 DEF Outcomes
  <2>8. CASE SubmitTask(h)
    <3>1. GoOn(h, "check", "park", issued[j] + 1, hs[h].seen, NoDocument)
      BY <2>8 DEF SubmitTask
    <3>2. issued[j] \in Nat /\ n = issued[j] + 1
      BY <1>t, <2>b, <2>8 DEF SubmitTask, TypeOK
    <3>3. issued[j] + 1 \in 1..n
      BY <3>2
    <3>4. QED
      BY <2>3, <3>1, <3>3 DEF Outcomes
  <2>9. CASE SubmitFails(h)
    <3>1. PICK o \in {"error", "fatal"} : /\ GoOn(h, "check", o, NoTask, hs[h].seen, NoDocument)
                                         /\ verdicts' = [verdicts EXCEPT ![j] = @ \union {Verdict(o)}]
      BY <2>9 DEF SubmitFails
    <3>2. Verdict(o) \in v
      BY <1>t, <2>b, <2>9, <3>1 DEF SubmitFails, TypeOK
    <3>3. QED
      BY <2>3, <3>1, <3>2
  <2>10. ASSUME NEW k \in Jobs, Drive(h, k)
         PROVE  HandlerBacked(hs'[h], verdicts'[hs'[h].on], issued'[hs'[h].on])
    BY <1>t, <2>10 DEF Drive, Begin, Handler, HandlerBacked, GoalBacked, Outcomes, TypeOK
  <2>11. ASSUME NEW k \in Jobs, NEW t \in 1..issued[k], NEW o \in Outcomes, Callback(h, k, t, o)
         PROVE  HandlerBacked(hs'[h], verdicts'[hs'[h].on], issued'[hs'[h].on])
    <3>1. /\ hs'[h].pc = "check" /\ hs'[h].on = k /\ hs'[h].goal = o
          /\ Verdict(o) \in verdicts'[k]
      BY <1>t, <2>11 DEF Callback, Begin, Handler, GoalOf, TypeOK
    <3>2. QED
      BY <3>1 DEF HandlerBacked, GoalBacked, Outcomes
  <2>12. \/ hs'[h] = hs[h] \/ hs'[h] = Idle
         \/ CheckVersion(h) \/ WriteClaim(h) \/ WriteRunning(h) \/ WriteResult(h)
         \/ RunLocal(h) \/ SubmitTask(h) \/ SubmitFails(h)
         \/ \E k \in Jobs : Drive(h, k)
         \/ \E k \in Jobs : \E t \in 1..issued[k], o \in Outcomes : Callback(h, k, t, o)
    BY HandlerChanges
  <2>13. QED
    BY <2>1, <2>2, <2>4, <2>5, <2>6, <2>7, <2>8, <2>9, <2>10, <2>11, <2>12
<1>5. QED
  BY <1>1, <1>2, <1>3, <1>4 DEF EarnedInv

\* Whatever interleaves: what is stored, and what is announced, was reported.
THEOREM OutcomeCorrect == Spec => []OutcomeIsEarned
<1>1. Init => EarnedInv
  BY DEF Init, EarnedInv, Backed, NoDocument, Doc, Notifiable, Idle, Handler
<1>2. TypeInv /\ EarnedInv => OutcomeIsEarned
  BY DEF EarnedInv, OutcomeIsEarned, Backed
<1>3. QED
  BY <1>1, <1>2, EarnedStep, TypeInvariant, PTL DEF Spec

-----------------------------------------------------------------------------
(* Nobody is stranded: what a handler is after fits its copy of the job, and *)
(* of the handlers that claimed a job the one that wrote last stays.         *)

\* What GoOn makes of a handler.
LEMMA GoOnState ==
    ASSUME TypeInv, NEW h \in Handlers, NEW pc, NEW goal, NEW task, NEW seen, NEW next,
           GoOn(h, pc, goal, task, seen, next)
    PROVE  /\ hs'[h].pc = pc /\ hs'[h].role = hs[h].role /\ hs'[h].on = hs[h].on
           /\ hs'[h].goal = goal /\ hs'[h].task = task
           /\ hs'[h].seen = seen /\ hs'[h].next = next
           /\ \A g \in Handlers \ {h} : hs'[g] = hs[g]
  BY DEF TypeInv, TypeOK, GoOn, Handler

\* What the steps of worker.run() have in common.
LEMMA WorkState ==
    ASSUME TypeInv, NEW h \in Handlers, RunLocal(h) \/ SubmitTask(h) \/ SubmitFails(h)
    PROVE  /\ UNCHANGED <<doc, events, notes, unsent, crashes, overlapped>>
           /\ hs[h].pc = "work" /\ hs[h].on \in Jobs
           /\ runs' = [runs EXCEPT ![hs[h].on] = @ + 1]
           /\ hs'[h].pc = "check" /\ hs'[h].role = hs[h].role /\ hs'[h].on = hs[h].on
           /\ hs'[h].goal \in Outcomes \union {"park"} /\ hs'[h].seen = hs[h].seen
           /\ \A g \in Handlers \ {h} : hs'[g] = hs[g]
           /\ \A j \in Jobs \ {hs[h].on} : issued'[j] = issued[j]
           /\ hs'[h].goal = "park" => hs'[h].task = issued'[hs[h].on]
<1>t. issued \in [Jobs -> Nat] /\ (hs[h].pc # "idle" => hs[h].on \in Jobs)
  BY DEF TypeInv, TypeOK, BusyOnJob
<1>o. Outcomes = {"done", "error", "fatal"} /\ NoTask \in Nat
  BY DEF Outcomes, NoTask
<1>1. /\ UNCHANGED <<doc, events, notes, unsent, crashes, overlapped>>
      /\ hs[h].pc = "work" /\ hs[h].on \in Jobs
      /\ runs' = [runs EXCEPT ![hs[h].on] = @ + 1]
  BY <1>t DEF RunLocal, SubmitTask, SubmitFails
<1>2. PICK goal \in Outcomes \union {"park"}, t \in Nat :
        /\ GoOn(h, "check", goal, t, hs[h].seen, NoDocument)
        /\ goal = "park" => t = issued[hs[h].on] + 1
        /\ \E n \in {0, 1} : /\ issued' = [issued EXCEPT ![hs[h].on] = @ + n]
                             /\ goal = "park" => n = 1
  <2>1. CASE RunLocal(h)
    <3>1. PICK o \in Outcomes : GoOn(h, "check", o, NoTask, hs[h].seen, NoDocument)
      BY <2>1 DEF RunLocal
    <3>2. o # "park" /\ issued' = [issued EXCEPT ![hs[h].on] = @ + 0]
      BY <1>t, <1>o, <1>1, <2>1 DEF RunLocal
    <3>3. QED
      BY <1>o, <3>1, <3>2
  <2>2. CASE SubmitTask(h)
    <3>1. issued[hs[h].on] + 1 \in Nat
      BY <1>t, <1>1
    <3>2. QED
      BY <2>2, <3>1 DEF SubmitTask
  <2>3. CASE SubmitFails(h)
    <3>1. PICK o \in {"error", "fatal"}, n \in {0, 1} :
            /\ issued' = [issued EXCEPT ![hs[h].on] = @ + n]
            /\ GoOn(h, "check", o, NoTask, hs[h].seen, NoDocument)
      BY <2>3 DEF SubmitFails
    <3>2. QED
      BY <1>o, <3>1
  <2>4. QED
    BY <2>1, <2>2, <2>3
<1>3. /\ hs'[h].pc = "check" /\ hs'[h].role = hs[h].role /\ hs'[h].on = hs[h].on
      /\ hs'[h].goal = goal /\ hs'[h].task = t /\ hs'[h].seen = hs[h].seen
      /\ \A g \in Handlers \ {h} : hs'[g] = hs[g]
  BY <1>2, GoOnState
<1>4. QED
  BY <1>t, <1>1, <1>2, <1>3

Writes(h) == WriteClaim(h) \/ WriteRunning(h) \/ WriteResult(h)

\* What a handler that sets a document does.
LEMMA WriteState ==
    ASSUME TypeInv, NEW h \in Handlers, Writes(h)
    PROVE  /\ UNCHANGED <<issued, runs, verdicts, notes, unsent, crashes>>
           /\ hs[h].pc = "write" /\ hs[h].on \in Jobs
           /\ doc' = [doc EXCEPT ![hs[h].on] = hs[h].next]
           /\ \A g \in Handlers \ {h} : hs'[g] = hs[g]
           /\ hs'[h] # hs[h]
           /\ hs'[h].pc # "idle" =>
                 /\ hs'[h].role = hs[h].role /\ hs'[h].on = hs[h].on
                 /\ hs'[h].seen = hs[h].next /\ hs'[h].pc # "write"
           /\ WriteClaim(h) => hs[h].goal = "claim" /\ hs'[h].pc = "check" /\ hs'[h].goal = "run"
           /\ WriteRunning(h) => hs[h].goal = "run" /\ hs'[h].pc = "work" /\ hs'[h].goal = "run"
           /\ WriteResult(h) =>
                 /\ hs[h].goal \notin {"claim", "run"}
                 /\ hs'[h].pc # "idle" => /\ hs'[h].pc = "notify" /\ hs[h].role = "callback"
                                          /\ hs[h].next.status \in Notifiable
<1>t. hs \in [Handlers -> HandlerState] /\ (hs[h].pc # "idle" => hs[h].on \in Jobs)
  BY DEF TypeInv, TypeOK, BusyOnJob
<1>1. /\ UNCHANGED <<issued, runs, verdicts, notes, unsent, crashes>>
      /\ hs[h].pc = "write" /\ hs[h].on \in Jobs
      /\ doc' = [doc EXCEPT ![hs[h].on] = hs[h].next]
  BY <1>t DEF Writes, WriteClaim, WriteRunning, WriteResult, SetDocument
<1>2. CASE WriteClaim(h)
  <2>1. hs[h].goal = "claim" /\ GoOn(h, "check", "run", hs[h].task, hs[h].next, NoDocument)
    BY <1>2 DEF WriteClaim
  <2>2. QED
    BY <1>1, <1>2, <2>1, GoOnState DEF WriteRunning, WriteResult
<1>3. CASE WriteRunning(h)
  <2>1. hs[h].goal = "run" /\ GoOn(h, "work", "run", hs[h].task, hs[h].next, NoDocument)
    BY <1>3 DEF WriteRunning
  <2>2. QED
    BY <1>1, <1>3, <2>1, GoOnState DEF WriteClaim, WriteResult
<1>4. CASE WriteResult(h)
  <2>1. hs[h].goal \notin {"claim", "run"}
    BY <1>4 DEF WriteResult
  <2>2. ASSUME Return(h)
        PROVE  hs'[h].pc = "idle" /\ \A g \in Handlers \ {h} : hs'[g] = hs[g]
    BY <1>t, <2>2 DEF Return, Idle, Handler
  <2>3. CASE Return(h)
    BY <1>1, <1>4, <2>1, <2>2, <2>3 DEF WriteClaim, WriteRunning
  <2>4. CASE ~Return(h)
    <3>1. /\ hs[h].role = "callback" /\ hs[h].next.status \in Notifiable
          /\ GoOn(h, "notify", hs[h].goal, hs[h].task, hs[h].next, NoDocument)
      BY <1>4, <2>4 DEF WriteResult
    <3>2. QED
      BY <1>1, <1>4, <2>1, <3>1, GoOnState DEF WriteClaim, WriteRunning
  <2>5. QED
    BY <2>3, <2>4
<1>5. QED
  BY <1>2, <1>3, <1>4 DEF Writes

\* Whose goal it is, and the copy of the job a handler works from, fit together:
\* Transacting handlers are inside transition().
Transacting(s) == s.pc \in {"check", "write"}

\* The statuses a transition with this goal can set.
StatusesOf(goal) ==
    CASE goal = "claim" -> {"claimed"}
      [] goal = "run"   -> {"running"}
      [] goal = "park"  -> {"awaiting_input"}
      [] goal = "done"  -> {"done"}
      [] OTHER          -> {"queued", "failed"}

DriveFits(s) ==
    \/ Transacting(s) /\ s.goal = "claim" /\ s.seen.status = "queued"
    \/ Transacting(s) /\ s.goal = "run" /\ s.seen.status = "claimed"
    \/ Transacting(s) /\ s.goal \in Outcomes \union {"park"} /\ s.seen.status = "running"
    \/ s.pc = "work" /\ s.goal = "run" /\ s.seen.status = "running"

CallbackFits(s) ==
    \/ /\ Transacting(s) /\ s.goal \in Outcomes
       /\ s.seen.status = "awaiting_input" /\ s.seen.task \in {NoTask, s.task}
    \/ s.pc = "notify" /\ s.seen.status \in Notifiable

Purposeful(s) ==
    /\ s.role = "drive" => DriveFits(s)
    /\ s.role = "callback" => CallbackFits(s)
    /\ s.pc = "write" => /\ s.next.version = s.seen.version + 1
                         /\ s.next.status \in StatusesOf(s.goal)

PurposeInv == \A h \in Handlers : hs[h].pc # "idle" => Purposeful(hs[h])

\* The next document is one version up and has a status of its goal.
LEMMA NextDocumentStatus ==
    ASSUME NEW s \in HandlerState, NEW cur \in Document
    PROVE  /\ NextDocument(s, cur).version = cur.version + 1
           /\ NextDocument(s, cur).status \in StatusesOf(s.goal)
<1>1. s.goal \in {"claim", "run", "park", "done", "error", "fatal"}
  BY DEF HandlerState, Goals, Outcomes
<1>2. CASE s.goal = "claim"
  BY <1>2 DEF NextDocument, MarkClaimed, Doc, StatusesOf
<1>3. CASE s.goal = "run"
  BY <1>3 DEF NextDocument, MarkRunning, Patched, Doc, StatusesOf
<1>4. CASE s.goal = "park"
  BY <1>4 DEF NextDocument, MarkAwaitingInput, Doc, StatusesOf
<1>5. CASE s.goal = "done"
  BY <1>5 DEF NextDocument, MarkDone, Patched, Doc, StatusesOf
<1>6. CASE s.goal = "error"
  BY <1>6 DEF NextDocument, MarkFailed, Patched, Doc, StatusesOf
<1>7. CASE s.goal = "fatal"
  BY <1>7 DEF NextDocument, MarkFailed, Patched, Doc, StatusesOf
<1>8. QED
  BY <1>1, <1>2, <1>3, <1>4, <1>5, <1>6, <1>7

\* What Begin makes of a handler.
LEMMA BeginState ==
    ASSUME TypeInv, NEW h \in Handlers, NEW role, NEW j, NEW goal, NEW task,
           Begin(h, role, j, goal, task)
    PROVE  /\ hs'[h].pc = "check" /\ hs'[h].role = role /\ hs'[h].on = j
           /\ hs'[h].goal = goal /\ hs'[h].task = task /\ hs'[h].seen = doc[j]
           /\ \A g \in Handlers \ {h} : hs'[g] = hs[g]
  BY DEF TypeInv, TypeOK, Begin, Handler

\* What transition()'s read makes of a handler.
LEMMA CheckState ==
    ASSUME TypeInv, NEW h \in Handlers, CheckVersion(h)
    PROVE  /\ UNCHANGED <<doc, issued, runs, verdicts, events, notes, unsent, crashes, overlapped>>
           /\ hs[h].pc = "check" /\ hs[h].on \in Jobs
           /\ doc[hs[h].on].version = hs[h].seen.version
           /\ hs'[h].pc = "write" /\ hs'[h].role = hs[h].role /\ hs'[h].on = hs[h].on
           /\ hs'[h].goal = hs[h].goal /\ hs'[h].task = hs[h].task
           /\ hs'[h].seen = hs[h].seen /\ hs'[h].next = NextDocument(hs[h], doc[hs[h].on])
           /\ \A g \in Handlers \ {h} : hs'[g] = hs[g]
<1>1. /\ GoOn(h, "write", hs[h].goal, hs[h].task, hs[h].seen, NextDocument(hs[h], doc[hs[h].on]))
      /\ UNCHANGED <<doc, issued, runs, verdicts, events, notes, unsent, crashes, overlapped>>
      /\ hs[h].pc = "check" /\ doc[hs[h].on].version = hs[h].seen.version
  BY DEF CheckVersion, VersionMatches
<1>2. hs[h].on \in Jobs
  BY <1>1 DEF TypeInv, BusyOnJob
<1>3. QED
  BY <1>1, <1>2, GoOnState

\* A handler that returns or dies is idle.
LEMMA LeaveState ==
    ASSUME TypeInv, NEW h \in Handlers,
           VersionMismatch(h) \/ NotifyFromCallback(h) \/ Crash(h)
    PROVE  hs'[h].pc = "idle" /\ UNCHANGED doc /\ \A g \in Handlers \ {h} : hs'[g] = hs[g]
  BY DEF TypeInv, TypeOK, VersionMismatch, NotifyFromCallback, Crash, Return, Idle, Handler

\* The moves of a handler, by kind.
LEMMA Moves ==
    ASSUME TypeInv, [Next]_vars, NEW h \in Handlers
    PROVE  \/ hs'[h] = hs[h]
           \/ CheckVersion(h)
           \/ Writes(h)
           \/ RunLocal(h) \/ SubmitTask(h) \/ SubmitFails(h)
           \/ VersionMismatch(h) \/ NotifyFromCallback(h) \/ Crash(h)
           \/ \E k \in Jobs : Drive(h, k)
           \/ \E k \in Jobs : \E t \in 1..issued[k], o \in Outcomes : Callback(h, k, t, o)
  BY HandlerMoves DEF Step, Writes

\* Every step keeps a handler's goal and its copy of the job fitting together.
LEMMA PurposeStep == TypeInv /\ PurposeInv /\ [Next]_vars => PurposeInv'
<1> SUFFICES ASSUME TypeInv, PurposeInv, [Next]_vars, NEW h \in Handlers, hs'[h].pc # "idle"
             PROVE  Purposeful(hs'[h])
  BY DEF PurposeInv
<1>h. /\ hs[h] \in HandlerState /\ hs[h].role \in {"drive", "callback"}
      /\ hs[h].pc # "idle" => Purposeful(hs[h])
  BY DEF TypeInv, TypeOK, HandlerState, PurposeInv
<1>1. CASE hs'[h] = hs[h]
  BY <1>h, <1>1
<1>2. CASE CheckVersion(h)
  <2>1. doc[hs[h].on] \in Document
    BY <1>2, CheckState DEF TypeInv, TypeOK
  <2>2. /\ hs'[h].next.version = hs'[h].seen.version + 1
        /\ hs'[h].next.status \in StatusesOf(hs'[h].goal)
    BY <1>h, <1>2, <2>1, CheckState, NextDocumentStatus
  <2>3. hs[h].pc = "check" /\ Purposeful(hs[h])
    BY <1>h, <1>2, CheckState
  <2>4. QED
    BY <1>2, <2>2, <2>3, CheckState DEF Purposeful, DriveFits, CallbackFits, Transacting
<1>3. CASE Writes(h)
  <2>1. hs[h].pc = "write" /\ Purposeful(hs[h])
    BY <1>h, <1>3, WriteState
  <2>2. /\ hs[h].next.status \in StatusesOf(hs[h].goal)
        /\ hs'[h].role = hs[h].role /\ hs'[h].seen = hs[h].next /\ hs'[h].pc # "write"
    BY <1>3, <2>1, WriteState DEF Purposeful
  <2>3. CASE WriteClaim(h)
    <3>1. hs[h].goal = "claim" /\ hs'[h].pc = "check" /\ hs'[h].goal = "run"
      BY <1>3, <2>3, WriteState
    <3>2. hs[h].role = "drive" /\ hs[h].next.status = "claimed"
      BY <1>h, <2>1, <2>2, <3>1 DEF Purposeful, CallbackFits, Outcomes, StatusesOf
    <3>3. QED
      BY <2>2, <3>1, <3>2 DEF Purposeful, DriveFits, Transacting
  <2>4. CASE WriteRunning(h)
    <3>1. hs[h].goal = "run" /\ hs'[h].pc = "work" /\ hs'[h].goal = "run"
      BY <1>3, <2>4, WriteState
    <3>2. hs[h].role = "drive" /\ hs[h].next.status = "running"
      BY <1>h, <2>1, <2>2, <3>1 DEF Purposeful, CallbackFits, Outcomes, StatusesOf
    <3>3. QED
      BY <2>2, <3>1, <3>2 DEF Purposeful, DriveFits
  <2>5. CASE WriteResult(h)
    <3>1. /\ hs'[h].pc = "notify" /\ hs[h].role = "callback"
          /\ hs[h].next.status \in Notifiable
      BY <1>3, <2>5, WriteState
    <3>2. QED
      BY <2>2, <3>1 DEF Purposeful, CallbackFits
  <2>6. QED
    BY <1>3, <2>3, <2>4, <2>5 DEF Writes
<1>4. CASE RunLocal(h) \/ SubmitTask(h) \/ SubmitFails(h)
  <2>1. hs[h].pc = "work" /\ Purposeful(hs[h])
    BY <1>h, <1>4, WorkState
  <2>2. hs[h].role = "drive" /\ hs[h].seen.status = "running"
    BY <1>h, <2>1 DEF Purposeful, DriveFits, CallbackFits, Transacting
  <2>3. QED
    BY <1>4, <2>2, WorkState DEF Purposeful, DriveFits, Transacting
<1>5. CASE VersionMismatch(h) \/ NotifyFromCallback(h) \/ Crash(h)
  BY <1>5, LeaveState
<1>6. ASSUME NEW k \in Jobs, Drive(h, k)
      PROVE  Purposeful(hs'[h])
  BY <1>6, BeginState DEF Drive, Drivable, Purposeful, DriveFits, Transacting
<1>7. ASSUME NEW k \in Jobs, NEW t \in 1..issued[k], NEW o \in Outcomes, Callback(h, k, t, o)
      PROVE  Purposeful(hs'[h])
  BY <1>7, BeginState
     DEF Callback, Parked, TaskMatches, GoalOf, Purposeful, CallbackFits, Transacting
<1>8. QED
  BY <1>1, <1>2, <1>3, <1>4, <1>5, <1>6, <1>7, Moves

\* A document changes only by being enqueued or by being set.
LEMMA DocumentWritten ==
    ASSUME TypeInv, [Next]_vars, NEW j \in Jobs, doc'[j] # doc[j]
    PROVE  \/ Enqueue(j) /\ doc[j].status = "absent" /\ doc'[j] = Enqueued
           \/ \E h \in Handlers : Writes(h) /\ hs[h].on = j /\ doc'[j] = hs[h].next
<1>t. doc \in [Jobs -> Document]
  BY DEF TypeInv, TypeOK
<1>1. ASSUME NEW k \in Jobs, Enqueue(k)
      PROVE  Enqueue(j) /\ doc[j].status = "absent" /\ doc'[j] = Enqueued
  BY <1>t, <1>1 DEF Enqueue
<1>2. ASSUME NEW h \in Handlers, Writes(h)
      PROVE  hs[h].on = j /\ doc'[j] = hs[h].next
  BY <1>t, <1>2, WriteState
<1>3. \/ UNCHANGED doc
      \/ \E k \in Jobs : Enqueue(k)
      \/ \E h \in Handlers : Writes(h)
  BY DEF Next, vars, Created, Sweep, Drive, Answer, Callback, Step, CheckVersion, VersionMismatch,
         RunLocal, SubmitTask, SubmitFails, NotifyFromCallback, NotifyFromTrigger,
         Crash, Writes
<1>4. QED
  BY <1>1, <1>2, <1>3

\* A job that is claimed or running has a drive() that works from its newest version,
\* the one that wrote last.
MannedInv ==
    \A j \in Jobs :
        (doc[j].status \in {"claimed", "running"} /\ crashes = 0)
            => \E h \in Handlers : Owns(h, j) /\ hs[h].seen.version = doc[j].version

\* Every step leaves a claimed or running job with the drive() that wrote last.
LEMMA MannedStep == TypeInv /\ PurposeInv /\ MannedInv /\ [Next]_vars => MannedInv'
<1> SUFFICES ASSUME TypeInv, PurposeInv, MannedInv, [Next]_vars, NEW j \in Jobs,
                    doc'[j].status \in {"claimed", "running"}, crashes' = 0
             PROVE  \E h \in Handlers : Owns(h, j)' /\ hs'[h].seen.version = doc'[j].version
  BY DEF MannedInv
<1>c. crashes = 0 /\ \A h \in Handlers : ~Crash(h)
  <2>1. crashes \in Nat
    BY DEF TypeInv, TypeOK
  <2>2. UNCHANGED crashes \/ \E h \in Handlers : Crash(h)
    BY DEF Next, vars, Enqueue, Created, Sweep, Drive, Answer, Callback, Step, CheckVersion,
           VersionMismatch, WriteClaim, WriteRunning, WriteResult, RunLocal, SubmitTask,
           SubmitFails, NotifyFromCallback, NotifyFromTrigger
  <2>3. ASSUME NEW h \in Handlers, Crash(h)
        PROVE  FALSE
    BY <2>1, <2>3 DEF Crash
  <2>4. QED
    BY <2>2, <2>3
<1>1. CASE doc'[j] = doc[j]
  <2>1. PICK h \in Handlers : Owns(h, j) /\ hs[h].seen.version = doc[j].version
    BY <1>c, <1>1 DEF MannedInv
  <2>h. /\ hs[h].role = "drive" /\ hs[h].pc # "idle" /\ hs[h].on = j /\ hs[h].goal # "claim"
        /\ Purposeful(hs[h])
    BY <2>1 DEF Owns, PurposeInv
  <2>2. CASE hs'[h] = hs[h]
    BY <1>1, <2>1, <2>2 DEF Owns
  <2>3. CASE CheckVersion(h)
    BY <1>1, <2>1, <2>3, CheckState DEF Owns
  <2>4. CASE Writes(h)
    <3>1. hs[h].pc = "write" /\ doc'[j] = hs[h].next
      BY <2>h, <2>4, WriteState DEF TypeInv, TypeOK
    <3>2. hs[h].next.version = hs[h].seen.version + 1 /\ hs[h].seen.version \in Nat
      BY <2>h, <3>1 DEF Purposeful, TypeInv, TypeOK, HandlerState, Document
    <3>3. QED
      BY <1>1, <2>1, <3>1, <3>2
  <2>5. CASE RunLocal(h) \/ SubmitTask(h) \/ SubmitFails(h)
    <3>1. hs'[h].goal # "claim"
      BY <2>5, WorkState DEF Outcomes
    <3>2. QED
      BY <1>1, <2>1, <2>h, <2>5, <3>1, WorkState DEF Owns
  <2>6. CASE VersionMismatch(h) \/ NotifyFromCallback(h) \/ Crash(h)
    <3>1. ~VersionMismatch(h)
      BY <2>1, <2>h DEF VersionMismatch, VersionMatches
    <3>2. ~NotifyFromCallback(h)
      BY <2>h DEF NotifyFromCallback, Purposeful, DriveFits, Transacting
    <3>3. QED
      BY <1>c, <2>6, <3>1, <3>2
  <2>7. (\A k \in Jobs : ~Drive(h, k)) /\ (\A k \in Jobs : \A t, o : ~Callback(h, k, t, o))
    BY <2>h DEF Drive, Callback
  <2>8. QED
    BY <2>2, <2>3, <2>4, <2>5, <2>6, <2>7, Moves
<1>2. CASE doc'[j] # doc[j]
  <2>1. doc'[j] # Enqueued
    BY DEF Enqueued, Doc
  <2>2. PICK h \in Handlers : Writes(h) /\ hs[h].on = j /\ doc'[j] = hs[h].next
    BY <1>2, <2>1, DocumentWritten
  <2>3. hs[h].pc = "write" /\ Purposeful(hs[h]) /\ hs[h].role \in {"drive", "callback"}
    BY <2>2, WriteState DEF PurposeInv, TypeInv, TypeOK, HandlerState
  <2>4. hs[h].goal \in {"claim", "run"}
    <3>1. hs[h].goal \in {"claim", "run", "park", "done", "error", "fatal"}
      BY DEF TypeInv, TypeOK, HandlerState, Goals, Outcomes
    <3>2. hs[h].next.status \in StatusesOf(hs[h].goal)
      BY <2>3 DEF Purposeful
    <3>3. QED
      BY <2>2, <3>1, <3>2 DEF StatusesOf
  <2>5. hs[h].role = "drive"
    BY <2>3, <2>4 DEF Purposeful, CallbackFits, Outcomes
  <2>6. hs'[h].pc # "idle" /\ hs'[h].goal = "run"
    BY <2>2, <2>4, WriteState DEF Writes
  <2>7. QED
    BY <2>2, <2>5, <2>6, WriteState DEF Owns
<1>3. QED
  BY <1>1, <1>2

\* Only the death of a handler leaves a job claimed or running with nobody at work,
\* whatever overlaps.
THEOREM OnlyCrashesStrand == Spec => []StrandedOnlyByCrash
<1>1. Init => PurposeInv /\ MannedInv
  BY DEF Init, PurposeInv, MannedInv, NoDocument, Doc, Idle, Handler
<1>2. MannedInv => StrandedOnlyByCrash
  BY DEF MannedInv, StrandedOnlyByCrash
<1>3. QED
  BY <1>1, <1>2, PurposeStep, MannedStep, TypeInvariant, PTL DEF Spec

-----------------------------------------------------------------------------
(* Of a clean job a handler's copy is never newer than the document and     *)
(* equals it at the same version.  So a set that does not overlap works from *)
(* the job as it is, and statuses keep handlers apart.                       *)

\* No handler serves a job that is not there; of a clean job a handler's copy is an
\* older version of the document, or the document.
CopyInv ==
    \A h \in Handlers : hs[h].pc # "idle" =>
        LET cur == doc[hs[h].on] IN
        /\ cur.status # "absent"
        /\ Clean(hs[h].on) => /\ hs[h].seen.version <= cur.version
                              /\ hs[h].seen.version = cur.version => hs[h].seen = cur

\* What a handler is about to set on a clean job follows from its own copy.
WriterInv ==
    \A h \in Handlers :
        hs[h].pc = "write" /\ Clean(hs[h].on) => hs[h].next = NextDocument(hs[h], hs[h].seen)

ExclusiveInv == TypeInv /\ PurposeInv /\ CopyInv /\ WriterInv /\ SoleOwner

\* j is clean after the step.
StaysClean(j) == j \notin overlapped'

\* A job that is clean after a step was clean before.
LEMMA CleanBefore ==
    ASSUME [Next]_vars, NEW j, StaysClean(j)
    PROVE  Clean(j)
<1>1. ASSUME NEW h \in Handlers, SetDocument(h)
      PROVE  overlapped \subseteq overlapped'
  BY <1>1 DEF SetDocument
<1>2. UNCHANGED overlapped \/ \E h \in Handlers : SetDocument(h)
  BY DEF Next, vars, Enqueue, Created, Sweep, Drive, Answer, Callback, Step, CheckVersion,
         VersionMismatch, WriteClaim, WriteRunning, WriteResult, RunLocal, SubmitTask,
         SubmitFails, NotifyFromCallback, NotifyFromTrigger, Crash
<1>3. QED
  BY <1>1, <1>2 DEF Clean, StaysClean

\* A set that leaves its job clean replaces the document its handler had read.
LEMMA FreshWrite ==
    ASSUME ExclusiveInv, NEW h \in Handlers, Writes(h), StaysClean(hs[h].on)
    PROVE  /\ Clean(hs[h].on) /\ Purposeful(hs[h])
           /\ hs[h].seen = doc[hs[h].on]
           /\ hs[h].next = NextDocument(hs[h], doc[hs[h].on])
           /\ hs[h].next.version = doc[hs[h].on].version + 1
<1>1. hs[h].pc = "write" /\ hs[h].on \in Jobs
  BY WriteState DEF ExclusiveInv
<1>2. Clean(hs[h].on) /\ ~Overlaps(h)
  BY DEF Writes, WriteClaim, WriteRunning, WriteResult, SetDocument, Clean, StaysClean
<1>3. Purposeful(hs[h]) /\ hs[h].next.version = hs[h].seen.version + 1
  BY <1>1 DEF ExclusiveInv, PurposeInv, Purposeful
<1>4. doc[hs[h].on].version \in Nat /\ hs[h].seen.version \in Nat
  BY <1>1 DEF ExclusiveInv, TypeInv, TypeOK, HandlerState, Document
<1>5. doc[hs[h].on].version = hs[h].seen.version
  BY <1>2, <1>3, <1>4 DEF Overlaps
<1>6. hs[h].seen = doc[hs[h].on]
  BY <1>1, <1>2, <1>5 DEF ExclusiveInv, CopyInv
<1>7. hs[h].next = NextDocument(hs[h], hs[h].seen)
  BY <1>1, <1>2 DEF ExclusiveInv, WriterInv
<1>8. QED
  BY <1>2, <1>3, <1>5, <1>6, <1>7

\* A drive() past its claim has a copy that is claimed or running.
LEMMA OwnersCopy ==
    ASSUME PurposeInv, NEW h \in Handlers, NEW j, Owns(h, j)
    PROVE  hs[h].seen.status \in {"claimed", "running"}
  BY DEF PurposeInv, Purposeful, DriveFits, Owns

\* Who sets a job's document, and leaves the job clean, while another handler owns the
\* job is that owner.
LEMMA OwnerWrites ==
    ASSUME ExclusiveInv, NEW g \in Handlers, NEW h \in Handlers, NEW j \in Jobs,
           Writes(g), hs[g].on = j, StaysClean(j), Owns(h, j)
    PROVE  g = h
<1>1. /\ hs[g].pc = "write" /\ hs[g].role \in {"drive", "callback"} /\ Purposeful(hs[g])
      /\ hs[g].seen = doc[j] /\ Clean(j)
  BY FreshWrite, WriteState DEF ExclusiveInv, TypeInv, TypeOK, HandlerState
<1>2. doc[j].status \in {"claimed", "running"}
  BY <1>1, OwnersCopy DEF ExclusiveInv, SoleOwner
<1>3. Owns(g, j)
  <2>1. hs[g].seen.status \in {"claimed", "running"}
    BY <1>1, <1>2
  <2>2. hs[g].role = "drive"
    BY <1>1, <2>1 DEF Purposeful, CallbackFits
  <2>3. hs[g].goal # "claim"
    BY <1>1, <2>1, <2>2 DEF Purposeful, DriveFits, Outcomes
  <2>4. QED
    BY <1>1, <2>2, <2>3 DEF Owns
<1>4. QED
  BY <1>1, <1>3 DEF ExclusiveInv, SoleOwner

\* A document that is set without an overlap was what the handler that sets it had
\* seen, and it goes one version up.
LEMMA Advances ==
    ASSUME ExclusiveInv, [Next]_vars, NEW j \in Jobs, doc'[j] # doc[j],
           doc[j].status # "absent", StaysClean(j)
    PROVE  \E h \in Handlers :
             /\ Writes(h) /\ hs[h].on = j /\ hs[h].pc = "write" /\ Purposeful(hs[h])
             /\ hs[h].seen = doc[j] /\ doc'[j] = hs[h].next
             /\ doc'[j].version = doc[j].version + 1
             /\ hs[h].goal \in Goals
             /\ doc'[j] = NextDocument(hs[h], doc[j])
<1>1. PICK h \in Handlers : Writes(h) /\ hs[h].on = j /\ doc'[j] = hs[h].next
  BY DocumentWritten DEF ExclusiveInv
<1>2. hs[h].pc = "write" /\ hs[h].goal \in Goals
  BY <1>1, WriteState DEF ExclusiveInv, TypeInv, TypeOK, HandlerState
<1>3. /\ Purposeful(hs[h]) /\ hs[h].seen = doc[j]
      /\ hs[h].next = NextDocument(hs[h], doc[j])
      /\ hs[h].next.version = doc[j].version + 1
  BY <1>1, FreshWrite
<1>4. QED
  BY <1>1, <1>2, <1>3

\* A transition sets a known status.
LEMMA StatusesKnown ==
    \A goal \in Goals : StatusesOf(goal) \subseteq JOB_STATUSES
  BY DEF Goals, Outcomes, StatusesOf, JOB_STATUSES

\* A document that is there stays, whatever sets it.
LEMMA Stays ==
    ASSUME TypeInv, PurposeInv, [Next]_vars, NEW j \in Jobs, doc[j].status # "absent"
    PROVE  doc'[j].status # "absent"
<1>1. ASSUME NEW h \in Handlers, Writes(h), doc'[j] = hs[h].next
      PROVE  doc'[j].status # "absent"
  <2>1. hs[h].pc = "write" /\ hs[h].goal \in Goals
    BY <1>1, WriteState DEF TypeInv, TypeOK, HandlerState
  <2>2. doc'[j].status \in StatusesOf(hs[h].goal)
    BY <1>1, <2>1 DEF PurposeInv, Purposeful
  <2>3. QED
    BY <2>1, <2>2, StatusesKnown DEF JOB_STATUSES
<1>2. QED
  BY <1>1, DocumentWritten

\* Every step keeps copies no newer than the documents.
LEMMA CopyStep == ExclusiveInv /\ [Next]_vars => CopyInv'
<1> SUFFICES ASSUME ExclusiveInv, [Next]_vars, NEW h \in Handlers, hs'[h].pc # "idle"
             PROVE  /\ doc'[hs'[h].on].status # "absent"
                    /\ StaysClean(hs'[h].on) =>
                         /\ hs'[h].seen.version <= doc'[hs'[h].on].version
                         /\ hs'[h].seen.version = doc'[hs'[h].on].version
                              => hs'[h].seen = doc'[hs'[h].on]
  BY DEF CopyInv, Clean, StaysClean
<1>i. TypeInv /\ TypeInv'
  BY TypeStep, BusyStep DEF ExclusiveInv, TypeInv
<1>d. /\ doc \in [Jobs -> Document] /\ doc' \in [Jobs -> Document]
      /\ \A j \in Jobs : doc[j].version \in Nat /\ doc'[j].version \in Nat
      /\ hs[h].seen.version \in Nat /\ hs[h].next.version \in Nat
      /\ hs[h].pc # "idle" => hs[h].on \in Jobs
      /\ hs[h].pc # "idle" => Purposeful(hs[h])
  BY <1>i DEF ExclusiveInv, PurposeInv, TypeInv, TypeOK, BusyOnJob, Document, HandlerState
<1>g. \A j \in Jobs : doc[j].status # "absent" =>
        /\ doc'[j].status # "absent"
        /\ StaysClean(j) => doc'[j] = doc[j] \/ doc'[j].version = doc[j].version + 1
  BY Advances, Stays DEF ExclusiveInv
<1>k. hs[h].pc # "idle" =>
        /\ doc[hs[h].on].status # "absent"
        /\ StaysClean(hs[h].on) => /\ hs[h].seen.version <= doc[hs[h].on].version
                                   /\ hs[h].seen.version = doc[hs[h].on].version
                                        => hs[h].seen = doc[hs[h].on]
  BY CleanBefore DEF ExclusiveInv, CopyInv
<1>1. CASE hs'[h].on = hs[h].on /\ hs'[h].seen = hs[h].seen /\ hs[h].pc # "idle"
  <2> DEFINE j == hs[h].on
  <2>1. /\ j \in Jobs /\ doc[j].status # "absent" /\ doc'[j].status # "absent"
        /\ doc[j].version \in Nat /\ hs[h].seen.version \in Nat
    BY <1>d, <1>g, <1>k, <1>1
  <2>2. ASSUME StaysClean(j)
        PROVE  /\ hs[h].seen.version <= doc'[j].version
               /\ hs[h].seen.version = doc'[j].version => hs[h].seen = doc'[j]
    <3>1. /\ hs[h].seen.version <= doc[j].version
          /\ hs[h].seen.version = doc[j].version => hs[h].seen = doc[j]
      BY <1>k, <1>1, <2>2 DEF StaysClean
    <3>2. doc'[j] = doc[j] \/ doc'[j].version = doc[j].version + 1
      BY <1>g, <2>1, <2>2
    <3>3. QED
      BY <2>1, <3>1, <3>2
  <2>3. QED
    BY <1>1, <2>1, <2>2
<1>2. CASE Writes(h)
  <2>1. doc'[hs[h].on] = hs[h].next /\ hs'[h].on = hs[h].on /\ hs'[h].seen = hs[h].next
    BY <1>d, <1>i, <1>2, WriteState
  <2>2. hs[h].pc # "idle" /\ hs[h].on \in Jobs
    BY <1>i, <1>2, WriteState
  <2>3. QED
    BY <1>d, <1>g, <1>k, <2>1, <2>2
<1>3. ASSUME NEW k \in Jobs, Drive(h, k)
      PROVE  hs'[h].on = k /\ hs'[h].seen = doc'[k] /\ doc'[k].status # "absent"
  BY <1>i, <1>3, BeginState DEF Drive, Drivable
<1>4. ASSUME NEW k \in Jobs, NEW t \in 1..issued[k], NEW o \in Outcomes, Callback(h, k, t, o)
      PROVE  hs'[h].on = k /\ hs'[h].seen = doc'[k] /\ doc'[k].status # "absent"
  BY <1>i, <1>4, BeginState DEF Callback, Parked
<1>5. CASE CheckVersion(h) \/ RunLocal(h) \/ SubmitTask(h) \/ SubmitFails(h)
  BY <1>1, <1>5, <1>i, CheckState, WorkState
<1>6. QED
  BY <1>1, <1>2, <1>3, <1>4, <1>5, <1>d, <1>i, Moves, LeaveState

\* Every step keeps what is about to be set on a clean job computed from the copy.
LEMMA WriterStep == ExclusiveInv /\ [Next]_vars => WriterInv'
<1> SUFFICES ASSUME ExclusiveInv, [Next]_vars, NEW h \in Handlers,
                    hs'[h].pc = "write", StaysClean(hs'[h].on)
             PROVE  hs'[h].next = NextDocument(hs'[h], hs'[h].seen)
  BY DEF WriterInv, Clean, StaysClean
<1>i. TypeInv
  BY DEF ExclusiveInv
<1>1. CASE hs'[h] = hs[h]
  <2>1. Clean(hs[h].on)
    BY <1>1, CleanBefore
  <2>2. QED
    BY <1>1, <2>1 DEF ExclusiveInv, WriterInv
<1>2. CASE CheckVersion(h)
  <2>1. /\ hs[h].pc = "check"
        /\ hs'[h].on = hs[h].on /\ hs'[h].seen = hs[h].seen
        /\ hs'[h].goal = hs[h].goal /\ hs'[h].task = hs[h].task
        /\ hs'[h].next = NextDocument(hs[h], doc[hs[h].on])
        /\ doc[hs[h].on].version = hs[h].seen.version
    BY <1>i, <1>2, CheckState
  <2>2. Clean(hs[h].on)
    BY <2>1, CleanBefore
  <2>3. hs[h].seen = doc[hs[h].on]
    BY <2>1, <2>2 DEF ExclusiveInv, CopyInv
  <2>4. NextDocument(hs'[h], hs'[h].seen) = NextDocument(hs[h], hs[h].seen)
    BY <2>1 DEF NextDocument
  <2>5. QED
    BY <2>1, <2>3, <2>4
<1>3. QED
  BY <1>1, <1>2, <1>i, Moves, WriteState, WorkState, LeaveState, BeginState DEF Drive, Callback

\* Who owns a job after a step owned it before or has just claimed it.
LEMMA OwnersBefore ==
    ASSUME TypeInv, PurposeInv, [Next]_vars, NEW h \in Handlers, NEW j, Owns(h, j)'
    PROVE  Owns(h, j) \/ (WriteClaim(h) /\ hs[h].on = j)
<1>h. /\ hs'[h].pc # "idle" /\ hs'[h].role = "drive" /\ hs'[h].goal # "claim" /\ hs'[h].on = j
      /\ hs[h].pc # "idle" => Purposeful(hs[h])
  BY DEF Owns, PurposeInv
<1>1. CASE hs'[h] = hs[h]
  BY <1>h, <1>1 DEF Owns
<1>2. CASE CheckVersion(h)
  BY <1>h, <1>2, CheckState DEF Owns
<1>3. CASE Writes(h)
  BY <1>h, <1>3, WriteState DEF Writes, Owns
<1>4. CASE RunLocal(h) \/ SubmitTask(h) \/ SubmitFails(h)
  BY <1>h, <1>4, WorkState DEF Owns, Purposeful, DriveFits, Transacting
<1>5. (\A k \in Jobs : ~Drive(h, k)) /\ (\A k \in Jobs : \A t, o : ~Callback(h, k, t, o))
  BY <1>h, BeginState DEF Drive, Callback
<1>6. QED
  BY <1>h, <1>1, <1>2, <1>3, <1>4, <1>5, Moves, LeaveState

\* A claim that leaves its job clean is set on a job nobody owns.
LEMMA ClaimsUnowned ==
    ASSUME ExclusiveInv, NEW h \in Handlers, WriteClaim(h), StaysClean(hs[h].on)
    PROVE  \A g \in Handlers : ~Owns(g, hs[h].on)
<1>1. hs[h].pc = "write" /\ hs[h].goal = "claim" /\ hs[h].on \in Jobs /\ Writes(h)
  BY WriteState DEF ExclusiveInv, Writes
<1>2. QED
  BY <1>1, OwnerWrites DEF Owns

\* Every step keeps the owner of a clean job alone with it.
LEMMA OwnerStep == ExclusiveInv /\ [Next]_vars => SoleOwner'
<1> SUFFICES ASSUME ExclusiveInv, [Next]_vars, NEW j \in Jobs, NEW h \in Handlers,
                    StaysClean(j), Owns(h, j)'
             PROVE  /\ doc'[j] = hs'[h].seen
                    /\ \A g \in Handlers : Owns(g, j)' => g = h
  BY DEF SoleOwner, Clean, StaysClean
<1>i. TypeInv /\ PurposeInv /\ Clean(j)
  BY CleanBefore DEF ExclusiveInv
<1>c. ASSUME NEW g \in Handlers, WriteClaim(g), hs[g].on = j,
             NEW f \in Handlers, f # g, Owns(f, j)'
      PROVE  FALSE
  <2>1. hs'[f] = hs[f]
    BY <1>c, <1>i, WriteState DEF Writes
  <2>2. Owns(f, j)
    BY <1>c, <2>1 DEF Owns
  <2>3. QED
    BY <1>c, <2>2, ClaimsUnowned
<1>1. ASSUME NEW g \in Handlers, Owns(g, j)', g # h
      PROVE  FALSE
  <2>1. Owns(g, j) /\ Owns(h, j)
    BY <1>1, <1>c, <1>i, OwnersBefore
  <2>2. QED
    BY <1>1, <1>i, <2>1 DEF ExclusiveInv, SoleOwner
<1>2. doc'[j] = hs'[h].seen
  <2>1. CASE Writes(h)
    BY <1>i, <2>1, WriteState DEF Owns, TypeInv, TypeOK
  <2>2. CASE ~Writes(h)
    <3>1. Owns(h, j) /\ doc[j] = hs[h].seen
      BY <1>i, <2>2, OwnersBefore DEF Writes, ExclusiveInv, SoleOwner
    <3>2. hs[h].seen.status \in {"claimed", "running"}
      BY <1>i, <3>1, OwnersCopy
    <3>3. doc'[j] = doc[j]
      <4>1. SUFFICES ASSUME doc'[j] # doc[j] PROVE FALSE
        OBVIOUS
      <4>2. PICK g \in Handlers : Writes(g) /\ hs[g].on = j
        BY <3>1, <3>2, <4>1, Advances
      <4>3. QED
        BY <2>2, <3>1, <4>2, OwnerWrites
    <3>4. hs'[h].seen = hs[h].seen
      <4>1. \A k \in Jobs : ~Drive(h, k) /\ \A t, o : ~Callback(h, k, t, o)
        BY <3>1 DEF Owns, Drive, Callback
      <4>2. hs'[h].pc # "idle"
        BY DEF Owns
      <4>3. QED
        BY <1>i, <2>2, <4>1, <4>2, Moves, CheckState, WorkState, LeaveState
    <3>5. QED
      BY <3>1, <3>3, <3>4
  <2>3. QED
    BY <2>1, <2>2
<1>3. QED
  BY <1>1, <1>2

\* On a clean job handlers exclude one another.
LEMMA ExclusiveInvariant == Spec => []ExclusiveInv
<1>1. Init => PurposeInv /\ CopyInv /\ WriterInv /\ SoleOwner
  BY DEF Init, PurposeInv, CopyInv, WriterInv, SoleOwner, Owns, Idle, Handler
<1>2. TypeInv /\ ExclusiveInv /\ [Next]_vars => (PurposeInv /\ CopyInv /\ WriterInv /\ SoleOwner)'
  BY PurposeStep, CopyStep, WriterStep, OwnerStep DEF ExclusiveInv
<1>3. TypeInv /\ PurposeInv /\ CopyInv /\ WriterInv /\ SoleOwner <=> ExclusiveInv
  BY DEF ExclusiveInv
<1>4. QED
  BY <1>1, <1>2, <1>3, TypeInvariant, PTL DEF Spec

\* A drive() that claimed a job has it to itself until its last transition, unless a
\* set overlapped on that very job: the version check throws no work away.
THEOREM OwnerIsSole == Spec => []SoleOwner
<1>1. ExclusiveInv => SoleOwner
  BY DEF ExclusiveInv
<1>2. QED
  BY <1>1, ExclusiveInvariant, PTL

-----------------------------------------------------------------------------
(* What becomes of a document as long as its job is clean.                  *)

\* How h's set moves a document from d to e.
Moved(h, d, e) ==
    \/ /\ hs[h].goal = "claim" /\ hs[h].role = "drive"
       /\ d.status = "queued" /\ e.status = "claimed" /\ e.attempts = d.attempts + 1
    \/ /\ hs[h].goal = "run" /\ hs[h].role = "drive"
       /\ d.status = "claimed" /\ e.status = "running" /\ e.attempts = d.attempts
    \/ /\ hs[h].goal = "park" /\ hs[h].role = "drive"
       /\ d.status = "running" /\ e.status = "awaiting_input" /\ e.attempts = d.attempts
       /\ e.task = hs[h].task
    \/ /\ hs[h].goal \in Outcomes
       /\ \/ hs[h].role = "drive" /\ d.status = "running"
          \/ /\ hs[h].role = "callback" /\ d.status = "awaiting_input"
             /\ d.task \in {NoTask, hs[h].task}
       /\ e.attempts = d.attempts
       /\ e.status \in Notifiable \/ (e.status = "queued" /\ d.attempts < MaxAttempts[hs[h].on])

\* A document that changes and stays clean is enqueued, or moved by one handler's set.
LEMMA DocumentMoves ==
    ASSUME ExclusiveInv, [Next]_vars, NEW j \in Jobs, doc'[j] # doc[j], StaysClean(j)
    PROVE  \/ Enqueue(j) /\ doc[j].status = "absent" /\ doc'[j] = Enqueued
           \/ \E h \in Handlers : Writes(h) /\ hs[h].on = j /\ Moved(h, doc[j], doc'[j])
<1>i. TypeInv /\ CopyInv
  BY DEF ExclusiveInv
<1>1. CASE doc[j].status = "absent"
  <2>1. ASSUME NEW h \in Handlers, Writes(h), hs[h].on = j
        PROVE  FALSE
    BY <1>1, <1>i, <2>1, WriteState DEF CopyInv
  <2>2. QED
    BY <1>i, <2>1, DocumentWritten
<1>2. CASE doc[j].status # "absent"
  <2>1. PICK h \in Handlers :
          /\ Writes(h) /\ hs[h].on = j /\ hs[h].pc = "write" /\ Purposeful(hs[h])
          /\ hs[h].seen = doc[j] /\ hs[h].goal \in Goals
          /\ doc'[j] = NextDocument(hs[h], doc[j])
    BY <1>2, Advances
  <2>2. /\ hs[h].role = "drive" => DriveFits(hs[h])
        /\ hs[h].role = "callback" => CallbackFits(hs[h])
        /\ hs[h].role \in {"drive", "callback"}
    BY <1>i, <2>1 DEF Purposeful, TypeInv, TypeOK, HandlerState
  <2>g. hs[h].goal \in {"claim", "run", "park", "done", "error", "fatal"}
    BY <2>1 DEF Goals, Outcomes
  <2>o. Outcomes = {"done", "error", "fatal"}
    BY DEF Outcomes
  <2>3. CASE hs[h].goal = "claim"
    <3>1. hs[h].role = "drive" /\ doc[j].status = "queued"
      BY <2>1, <2>2, <2>3, <2>o DEF DriveFits, CallbackFits
    <3>2. doc'[j].status = "claimed" /\ doc'[j].attempts = doc[j].attempts + 1
      BY <2>1, <2>3 DEF NextDocument, MarkClaimed, Doc
    <3>3. QED
      BY <2>1, <2>3, <3>1, <3>2 DEF Moved
  <2>4. CASE hs[h].goal = "run"
    <3>1. hs[h].role = "drive" /\ doc[j].status = "claimed"
      BY <2>1, <2>2, <2>4, <2>o DEF DriveFits, CallbackFits
    <3>2. doc'[j].status = "running" /\ doc'[j].attempts = doc[j].attempts
      BY <2>1, <2>4 DEF NextDocument, MarkRunning, Patched, Doc
    <3>3. QED
      BY <2>1, <2>4, <3>1, <3>2 DEF Moved
  <2>5. CASE hs[h].goal = "park"
    <3>1. hs[h].role = "drive" /\ doc[j].status = "running"
      BY <2>1, <2>2, <2>5, <2>o DEF DriveFits, CallbackFits
    <3>2. /\ doc'[j].status = "awaiting_input" /\ doc'[j].attempts = doc[j].attempts
          /\ doc'[j].task = hs[h].task
      BY <2>1, <2>5 DEF NextDocument, MarkAwaitingInput, Doc
    <3>3. QED
      BY <2>1, <2>5, <3>1, <3>2 DEF Moved
  <2>6. CASE hs[h].goal \in Outcomes
    <3>1. \/ hs[h].role = "drive" /\ doc[j].status = "running"
          \/ /\ hs[h].role = "callback" /\ doc[j].status = "awaiting_input"
             /\ doc[j].task \in {NoTask, hs[h].task}
      BY <2>1, <2>2, <2>6, <2>o DEF DriveFits, CallbackFits, Transacting
    <3>2. /\ doc'[j].attempts = doc[j].attempts
          /\ doc'[j].status \in Notifiable
               \/ (doc'[j].status = "queued" /\ doc[j].attempts < MaxAttempts[hs[h].on])
      <4>1. CASE hs[h].goal = "done"
        BY <2>1, <4>1 DEF NextDocument, MarkDone, Patched, Doc, Notifiable
      <4>2. CASE hs[h].goal = "error"
        BY <2>1, <4>2 DEF NextDocument, MarkFailed, WillRetry, Patched, Doc, Notifiable
      <4>3. CASE hs[h].goal = "fatal"
        BY <2>1, <4>3 DEF NextDocument, MarkFailed, WillRetry, Patched, Doc, Notifiable
      <4>4. QED
        BY <2>6, <2>o, <4>1, <4>2, <4>3
    <3>3. QED
      BY <2>1, <2>6, <3>1, <3>2 DEF Moved
  <2>7. QED
    BY <2>g, <2>o, <2>3, <2>4, <2>5, <2>6
<1>3. QED
  BY <1>1, <1>2

Works(h) == RunLocal(h) \/ SubmitTask(h) \/ SubmitFails(h)

\* Only the owner of a running job calls its worker, if the job is clean.
LEMMA WorkChanges ==
    ASSUME ExclusiveInv, [Next]_vars, NEW j \in Jobs, Clean(j),
           runs'[j] # runs[j] \/ issued'[j] # issued[j]
    PROVE  \E h \in Handlers :
             /\ Works(h) /\ Owns(h, j) /\ hs[h].on = j /\ hs[h].goal = "run"
             /\ doc[j].status = "running"
             /\ runs'[j] = runs[j] + 1 /\ UNCHANGED doc
<1>i. TypeInv /\ PurposeInv /\ runs \in [Jobs -> Nat]
  BY DEF ExclusiveInv, TypeInv, TypeOK
<1>1. PICK h \in Handlers : Works(h)
  BY DEF Next, vars, Enqueue, Created, Sweep, Drive, Answer, Callback, Step, CheckVersion,
         VersionMismatch, WriteClaim, WriteRunning, WriteResult, NotifyFromCallback,
         NotifyFromTrigger, Crash, Works
<1>2. /\ UNCHANGED doc /\ hs[h].pc = "work" /\ hs[h].on \in Jobs
      /\ runs' = [runs EXCEPT ![hs[h].on] = @ + 1]
      /\ \A k \in Jobs \ {hs[h].on} : issued'[k] = issued[k]
  BY <1>1, <1>i, WorkState DEF Works
<1>3. hs[h].on = j /\ runs'[j] = runs[j] + 1
  BY <1>2, <1>i
<1>4. hs[h].role = "drive" /\ hs[h].goal = "run" /\ hs[h].seen.status = "running"
  <2>1. Purposeful(hs[h]) /\ hs[h].role \in {"drive", "callback"}
    BY <1>2, <1>i DEF PurposeInv, TypeInv, TypeOK, HandlerState
  <2>2. hs[h].role = "drive"
    BY <1>2, <2>1 DEF Purposeful, CallbackFits, Transacting
  <2>3. QED
    BY <1>2, <2>1, <2>2 DEF Purposeful, DriveFits, Transacting
<1>5. Owns(h, j)
  BY <1>2, <1>3, <1>4 DEF Owns
<1>6. doc[j].status = "running"
  BY <1>4, <1>5 DEF ExclusiveInv, SoleOwner
<1>7. QED
  BY <1>1, <1>2, <1>3, <1>4, <1>5, <1>6

\* The goal of an owner changes when it works or claims, and with a set it stops being
\* an owner or begins to run.
LEMMA OwnersGoal ==
    ASSUME ExclusiveInv, [Next]_vars, NEW h \in Handlers, NEW j, Owns(h, j)'
    PROVE  \/ WriteClaim(h) /\ hs[h].on = j /\ hs'[h].goal = "run"
           \/ /\ Owns(h, j)
              /\ \/ hs'[h].goal = hs[h].goal /\ hs'[h].task = hs[h].task /\ ~Writes(h)
                 \/ WriteRunning(h) /\ hs[h].goal = "run" /\ hs'[h].goal = "run"
                 \/ Works(h)
<1>i. TypeInv /\ PurposeInv
  BY DEF ExclusiveInv
<1>1. CASE WriteClaim(h)
  BY <1>1, <1>i, OwnersBefore, WriteState DEF Writes, Owns
<1>2. CASE ~WriteClaim(h)
  <2>1. Owns(h, j)
    BY <1>2, <1>i, OwnersBefore
  <2>2. hs'[h].pc # "idle" /\ hs[h].pc # "idle" /\ hs'[h].role = "drive" /\ hs[h].role = "drive"
    BY <2>1 DEF Owns
  <2>3. CASE Writes(h)
    BY <1>2, <1>i, <2>1, <2>2, <2>3, WriteState DEF Writes
  <2>4. CASE Works(h)
    BY <2>1, <2>4
  <2>5. CASE CheckVersion(h)
    BY <1>i, <2>1, <2>3, <2>5, CheckState
  <2>6. \A k \in Jobs : ~Drive(h, k) /\ \A t, o : ~Callback(h, k, t, o)
    BY <2>2 DEF Drive, Callback
  <2>7. QED
    BY <1>i, <2>1, <2>2, <2>3, <2>4, <2>5, <2>6, Moves, LeaveState DEF Works
<1>3. QED
  BY <1>1, <1>2

\* Attempts are counted before the worker is called, and only a job with attempts left
\* is queued.
Budgeted(j) ==
    /\ runs[j] <= doc[j].attempts /\ doc[j].attempts <= MaxAttempts[j]
    /\ doc[j].status = "queued" => doc[j].attempts < MaxAttempts[j]
    /\ doc[j].status = "absent" => runs[j] = 0 /\ doc[j].attempts = 0
    /\ \A h \in Handlers : Owns(h, j) /\ hs[h].goal = "run" => runs[j] < doc[j].attempts

BudgetInv == \A j \in Jobs : Clean(j) => Budgeted(j)

\* Every step keeps worker calls within the attempts and attempts within the budget.
LEMMA BudgetStep == ExclusiveInv /\ BudgetInv /\ [Next]_vars => BudgetInv'
<1> SUFFICES ASSUME ExclusiveInv, BudgetInv, [Next]_vars, NEW j \in Jobs, StaysClean(j)
             PROVE  /\ runs'[j] <= doc'[j].attempts /\ doc'[j].attempts <= MaxAttempts[j]
                    /\ doc'[j].status = "queued" => doc'[j].attempts < MaxAttempts[j]
                    /\ doc'[j].status = "absent" => runs'[j] = 0 /\ doc'[j].attempts = 0
                    /\ \A h \in Handlers :
                         Owns(h, j)' /\ hs'[h].goal = "run" => runs'[j] < doc'[j].attempts
  BY DEF BudgetInv, Budgeted, Clean, StaysClean
<1>i. TypeInv /\ PurposeInv /\ Clean(j)
  BY CleanBefore DEF ExclusiveInv
<1>n. runs[j] \in Nat /\ doc[j].attempts \in Nat /\ MaxAttempts[j] \in Nat \ {0}
  BY <1>i, BudgetAssumption DEF TypeInv, TypeOK, Document
<1>b. Budgeted(j)
  BY <1>i DEF BudgetInv
<1>u. ASSUME NEW h \in Handlers, Owns(h, j), NEW g \in Handlers, Owns(g, j)
      PROVE  g = h
  BY <1>i, <1>u DEF ExclusiveInv, SoleOwner
<1>1. CASE runs'[j] # runs[j]
  <2>1. PICK h \in Handlers : /\ Works(h) /\ Owns(h, j) /\ hs[h].goal = "run"
                              /\ doc[j].status = "running"
                              /\ runs'[j] = runs[j] + 1 /\ UNCHANGED doc
    BY <1>i, <1>1, WorkChanges
  <2>2. ASSUME NEW g \in Handlers, Owns(g, j)'
        PROVE  hs'[g].goal # "run"
    <3>1. ~WriteClaim(g)
      BY <1>n, <1>i, <2>1, WriteState DEF Writes
    <3>2. Owns(g, j)
      BY <1>i, <2>2, <3>1, OwnersBefore DEF ExclusiveInv
    <3>3. g = h
      BY <1>u, <2>1, <3>2
    <3>4. QED
      BY <1>i, <2>1, <3>3, WorkState DEF Works, Outcomes
  <2>3. QED
    BY <1>n, <1>b, <2>1, <2>2 DEF Budgeted
<1>2. CASE runs'[j] = runs[j] /\ doc'[j] = doc[j]
  <2>1. ASSUME NEW h \in Handlers, Owns(h, j)', hs'[h].goal = "run"
        PROVE  Owns(h, j) /\ hs[h].goal = "run"
    <3>1. ~WriteClaim(h)
      <4>1. SUFFICES ASSUME WriteClaim(h) PROVE FALSE
        OBVIOUS
      <4>2. hs[h].pc = "write" /\ hs[h].on = j /\ doc'[j] = hs[h].next
        BY <1>i, <2>1, <4>1, WriteState DEF Writes, TypeInv, TypeOK, Owns
      <4>3. hs[h].next.version = doc[j].version + 1
        BY <4>1, <4>2, FreshWrite DEF Writes
      <4>4. doc[j].version \in Nat /\ hs[h].next = doc[j]
        BY <1>2, <1>i, <4>2 DEF TypeInv, TypeOK, Document
      <4>5. QED
        BY <4>3, <4>4
    <3>2. ~Works(h)
      BY <1>i, <2>1, WorkState DEF Works, Outcomes
    <3>3. QED
      BY <2>1, <3>1, <3>2, OwnersGoal
  <2>2. QED
    BY <1>2, <1>b, <2>1 DEF Budgeted
<1>3. CASE runs'[j] = runs[j] /\ doc'[j] # doc[j]
  <2>1. CASE Enqueue(j) /\ doc[j].status = "absent" /\ doc'[j] = Enqueued
    <3>1. ASSUME NEW h \in Handlers
          PROVE  ~Owns(h, j)'
      <4>1. hs' = hs
        BY <2>1 DEF Enqueue
      <4>2. QED
        BY <2>1, <4>1 DEF Owns, ExclusiveInv, CopyInv
    <3>2. doc'[j].status = "queued" /\ doc'[j].attempts = 0
      BY <2>1 DEF Enqueued, Doc
    <3>3. QED
      BY <1>3, <1>n, <1>b, <2>1, <3>1, <3>2 DEF Budgeted
  <2>2. ASSUME NEW g \in Handlers, Writes(g), hs[g].on = j, Moved(g, doc[j], doc'[j])
        PROVE  /\ runs[j] <= doc'[j].attempts /\ doc'[j].attempts <= MaxAttempts[j]
               /\ doc'[j].status = "queued" => doc'[j].attempts < MaxAttempts[j]
               /\ doc'[j].status # "absent"
               /\ \A h \in Handlers :
                    Owns(h, j)' /\ hs'[h].goal = "run" => runs[j] < doc'[j].attempts
    <3>1. /\ runs[j] <= doc'[j].attempts /\ doc'[j].attempts <= MaxAttempts[j]
          /\ doc'[j].status = "queued" => doc'[j].attempts < MaxAttempts[j]
          /\ doc'[j].status # "absent"
      BY <1>n, <1>b, <2>2 DEF Moved, Notifiable, Budgeted
    <3>2. ASSUME NEW h \in Handlers, Owns(h, j)', hs'[h].goal = "run"
          PROVE  runs[j] < doc'[j].attempts
      <4>w. hs[g].pc = "write"
        BY <1>i, <2>2, WriteState
      <4>1. CASE WriteClaim(h)
        <5>1. h = g
          BY <1>i, <2>2, <4>1, <4>w, WriteState DEF Writes
        <5>2. doc'[j].attempts = doc[j].attempts + 1
          BY <1>i, <2>2, <4>1, <5>1, WriteState DEF Moved, Writes, Outcomes
        <5>3. QED
          BY <1>n, <1>b, <5>2 DEF Budgeted
      <4>2. CASE ~WriteClaim(h)
        <5>1. Owns(h, j)
          BY <1>i, <3>2, <4>2, OwnersBefore DEF ExclusiveInv
        <5>2. g = h
          BY <2>2, <4>w, <5>1, OwnerWrites
        <5>3. hs[h].goal = "run"
          BY <1>i, <2>2, <3>2, <4>2, <5>2, WriteState DEF Writes, Owns
        <5>4. doc'[j].attempts = doc[j].attempts
          BY <2>2, <5>2, <5>3 DEF Moved, Outcomes
        <5>5. QED
          BY <1>b, <5>1, <5>3, <5>4 DEF Budgeted
      <4>3. QED
        BY <4>1, <4>2
    <3>3. QED
      BY <3>1, <3>2
  <2>3. QED
    BY <1>3, <2>1, <2>2, DocumentMoves
<1>4. QED
  BY <1>1, <1>2, <1>3

\* The budget of a clean job is kept.
LEMMA BudgetInvariant == Spec => []BudgetInv
<1>1. Init => BudgetInv
  BY BudgetAssumption
     DEF Init, BudgetInv, Budgeted, NoDocument, Doc, Owns, Idle, Handler
<1>2. QED
  BY <1>1, BudgetStep, ExclusiveInvariant, PTL DEF Spec

\* The worker of a job is called at most once per attempt and the attempts stay within
\* the job's budget, unless a set overlapped on that very job.
THEOREM RunsAreWithinAttempts == Spec => []RunsWithinAttempts
<1>1. BudgetInv => RunsWithinAttempts
  BY DEF BudgetInv, Budgeted, RunsWithinAttempts
<1>2. QED
  BY <1>1, BudgetInvariant, PTL

\* A clean job that is parked, or about to be, is parked on the newest task.
ParkInv ==
    /\ ParkedOnNewestTask
    /\ \A h \in Handlers, j \in Jobs :
         Clean(j) /\ Owns(h, j) /\ hs[h].goal = "park" => hs[h].task = issued[j]

\* Every step keeps parked jobs on the newest task.
LEMMA ParkStep == ExclusiveInv /\ ParkInv /\ [Next]_vars => ParkInv'
<1> SUFFICES ASSUME ExclusiveInv, ParkInv, [Next]_vars, NEW j \in Jobs, StaysClean(j)
             PROVE  /\ doc'[j].status = "awaiting_input" => doc'[j].task = issued'[j]
                    /\ \A h \in Handlers :
                         Owns(h, j)' /\ hs'[h].goal = "park" => hs'[h].task = issued'[j]
  BY DEF ParkInv, ParkedOnNewestTask, Clean, StaysClean
<1>i. TypeInv /\ hs \in [Handlers -> HandlerState] /\ Clean(j)
  BY CleanBefore DEF ExclusiveInv, TypeInv, TypeOK
<1>p. /\ doc[j].status = "awaiting_input" => doc[j].task = issued[j]
      /\ \A h \in Handlers : Owns(h, j) /\ hs[h].goal = "park" => hs[h].task = issued[j]
  BY <1>i DEF ParkInv, ParkedOnNewestTask
<1>1. CASE issued'[j] # issued[j]
  <2>1. PICK g \in Handlers : /\ Works(g) /\ Owns(g, j) /\ hs[g].on = j
                              /\ doc[j].status = "running" /\ UNCHANGED doc
    BY <1>i, <1>1, WorkChanges
  <2>2. ASSUME NEW h \in Handlers, Owns(h, j)', hs'[h].goal = "park"
        PROVE  hs'[h].task = issued'[j]
    <3>1. Owns(h, j)
      BY <2>2, OwnersGoal
    <3>2. h = g
      BY <1>i, <2>1, <3>1 DEF ExclusiveInv, SoleOwner
    <3>3. QED
      BY <1>i, <2>1, <2>2, <3>2, WorkState DEF Works
  <2>3. QED
    BY <2>1, <2>2
<1>2. CASE issued'[j] = issued[j]
  <2>1. ASSUME doc'[j].status = "awaiting_input", doc'[j] # doc[j]
        PROVE  doc'[j].task = issued[j]
    <3>1. doc'[j] # Enqueued
      BY <2>1 DEF Enqueued, Doc
    <3>2. PICK h \in Handlers : Writes(h) /\ hs[h].on = j /\ Moved(h, doc[j], doc'[j])
      BY <2>1, <3>1, DocumentMoves
    <3>3. hs[h].goal = "park" /\ hs[h].role = "drive" /\ doc'[j].task = hs[h].task
      BY <2>1, <3>2 DEF Moved, Notifiable
    <3>4. Owns(h, j)
      BY <1>i, <3>2, <3>3, WriteState DEF Owns
    <3>5. QED
      BY <1>p, <3>3, <3>4
  <2>2. ASSUME NEW h \in Handlers, Owns(h, j)', hs'[h].goal = "park"
        PROVE  hs'[h].task = issued[j]
    <3>1. Owns(h, j)
      BY <2>2, OwnersGoal
    <3>2. CASE Works(h)
      BY <1>2, <1>i, <2>2, <3>1, <3>2, WorkState DEF Works, Owns
    <3>3. CASE ~Works(h)
      BY <1>p, <2>2, <3>1, <3>3, OwnersGoal
    <3>4. QED
      BY <3>2, <3>3
  <2>3. QED
    BY <1>2, <1>p, <2>1, <2>2
<1>3. QED
  BY <1>1, <1>2

\* Clean jobs are parked on the newest task.
LEMMA ParkInvariant == Spec => []ParkInv
<1>1. Init => ParkInv
  BY DEF Init, ParkInv, ParkedOnNewestTask, NoDocument, Doc, Owns, Idle, Handler
<1>2. QED
  BY <1>1, ParkStep, ExclusiveInvariant, PTL DEF Spec

\* A parked job waits for the task handed out last, unless a set overlapped on it.
THEOREM ParkedOnNewest == Spec => []ParkedOnNewestTask
<1>1. ParkInv => ParkedOnNewestTask
  BY DEF ParkInv
<1>2. QED
  BY <1>1, ParkInvariant, PTL

\* ... and only the callback for that task resumes it.
THEOREM ResumedByOwnTask == Spec => ResumedByItsTask
<1> DEFINE Resumed == \A j \in Jobs :
             (doc[j].status = "awaiting_input" /\ doc'[j] # doc[j] /\ Clean(j)')
                 => \E h \in Handlers : /\ hs[h].role = "callback"
                                        /\ hs[h].on = j
                                        /\ hs[h].task = issued[j]
<1>1. ExclusiveInv /\ ParkInv /\ OutcomeIsEarned /\ [Next]_vars => [Resumed]_vars
  <2> SUFFICES ASSUME ExclusiveInv, ParkInv, OutcomeIsEarned, [Next]_vars,
                      NEW j \in Jobs, doc[j].status = "awaiting_input", doc'[j] # doc[j],
                      StaysClean(j)
               PROVE  \E h \in Handlers : /\ hs[h].role = "callback"
                                          /\ hs[h].on = j
                                          /\ hs[h].task = issued[j]
    BY DEF Clean, StaysClean
  <2>1. PICK h \in Handlers : hs[h].on = j /\ Moved(h, doc[j], doc'[j])
    BY DocumentMoves
  <2>2. hs[h].role = "callback" /\ doc[j].task \in {NoTask, hs[h].task}
    BY <2>1 DEF Moved
  <2>3. doc[j].task = issued[j] /\ doc[j].task \in 1..issued[j] /\ issued[j] \in Nat
    BY CleanBefore DEF ParkInv, ParkedOnNewestTask, OutcomeIsEarned, ExclusiveInv, TypeInv, TypeOK
  <2>4. QED
    BY <2>1, <2>2, <2>3 DEF NoTask
<1>2. QED
  BY <1>1, ExclusiveInvariant, ParkInvariant, OutcomeCorrect, PTL DEF Spec, ResumedByItsTask

\* A step that leaves a job clean does not touch a document that is done or failed.
LEMMA FinalStays ==
    ASSUME ExclusiveInv, [Next]_vars, NEW j \in Jobs, doc[j].status \in Notifiable,
           StaysClean(j)
    PROVE  doc'[j] = doc[j]
  BY DocumentMoves DEF Moved, Notifiable

\* A document that is done or failed is written again by nothing but a set that overlaps.
THEOREM FinalIsFinal == Spec => TerminalIsFinal
<1>1. ExclusiveInv /\ [Next]_vars
        => [\A j \in Jobs :
              doc[j].status \in Notifiable /\ Clean(j)' => doc'[j] = doc[j]]_vars
  BY FinalStays DEF Clean, StaysClean
<1>2. QED
  BY <1>1, ExclusiveInvariant, PTL DEF Spec, TerminalIsFinal

\* What was announced of a clean job, is waiting to be, or is about to be is what the
\* job ended with.
AnnounceInv ==
    /\ \A j \in Jobs : Clean(j) => \A n \in notes[j] : n \in Notifiable /\ n = doc[j].status
    /\ \A e \in events : Clean(e[1]) => doc[e[1]].status = e[2]
    /\ \A h \in Handlers :
         hs[h].pc = "notify" /\ Clean(hs[h].on) => hs[h].seen = doc[hs[h].on]

\* Every step keeps what was or will be announced equal to the stored outcome.
LEMMA AnnounceStep == ExclusiveInv /\ AnnounceInv /\ [Next]_vars => AnnounceInv'
<1> SUFFICES ASSUME ExclusiveInv, AnnounceInv, [Next]_vars PROVE AnnounceInv'
  OBVIOUS
<1>i. TypeInv /\ TypeOK /\ TypeOK' /\ BusyOnJob
  BY TypeStep DEF ExclusiveInv, TypeInv
<1>f. \A j \in Jobs : doc[j].status \in Notifiable /\ StaysClean(j) => doc'[j] = doc[j]
  BY FinalStays
<1>c. \A j : StaysClean(j) => Clean(j)
  BY CleanBefore
<1>b. \A h \in Handlers : hs[h].pc = "notify" =>
        /\ hs[h].on \in Jobs /\ hs[h].seen.status \in Notifiable
        /\ Clean(hs[h].on) => hs[h].seen = doc[hs[h].on]
  BY <1>i DEF AnnounceInv, BusyOnJob
<1>e. \A e \in events : /\ e[1] \in Jobs /\ e[2] \in Notifiable
                        /\ Clean(e[1]) => doc[e[1]].status = e[2]
  BY <1>i DEF AnnounceInv, TypeOK
<1>1. ASSUME NEW j \in Jobs, StaysClean(j), NEW n \in notes'[j]
      PROVE  n \in Notifiable /\ n = doc[j].status
  <2>c. Clean(j)
    BY <1>1, <1>c
  <2>1. CASE n \in notes[j]
    BY <2>c, <2>1 DEF AnnounceInv
  <2>2. ASSUME NEW h \in Handlers, NotifyFromCallback(h), n \notin notes[j]
        PROVE  n \in Notifiable /\ n = doc[j].status
    <3>1. hs[h].pc = "notify" /\ hs[h].on = j /\ n = hs[h].seen.status
      BY <1>1, <1>i, <2>2 DEF NotifyFromCallback, TypeOK
    <3>2. QED
      BY <1>b, <2>c, <3>1
  <2>3. ASSUME NEW e \in events, NotifyFromTrigger(e), n \notin notes[j]
        PROVE  n \in Notifiable /\ n = doc[j].status
    <3>1. e[1] = j /\ n = e[2]
      BY <1>1, <1>i, <2>3 DEF NotifyFromTrigger, TypeOK
    <3>2. QED
      BY <1>e, <2>c, <3>1
  <2>4. \/ notes' = notes
        \/ \E h \in Handlers : NotifyFromCallback(h)
        \/ \E e \in events : NotifyFromTrigger(e)
    BY DEF Next, vars, Enqueue, Created, Sweep, Drive, Answer, Callback, Step, CheckVersion,
           VersionMismatch, WriteClaim, WriteRunning, WriteResult, RunLocal, SubmitTask,
           SubmitFails, Crash
  <2>5. QED
    BY <1>1, <2>1, <2>2, <2>3, <2>4
<1>2. \A j \in Jobs : StaysClean(j) => \A n \in notes'[j] : n \in Notifiable /\ n = doc'[j].status
  BY <1>1, <1>f
<1>3. ASSUME NEW e \in events', StaysClean(e[1])
      PROVE  doc'[e[1]].status = e[2]
  <2>1. CASE e \in events
    BY <1>c, <1>e, <1>f, <1>3, <2>1
  <2>2. ASSUME NEW h \in Handlers, Writes(h), e \notin events
        PROVE  e[1] \in Jobs /\ doc'[e[1]].status = e[2]
    <3>1. e = <<hs[h].on, hs[h].next.status>>
      BY <1>3, <2>2 DEF Writes, WriteClaim, WriteRunning, WriteResult, SetDocument
    <3>2. hs[h].on \in Jobs /\ doc'[hs[h].on] = hs[h].next
      BY <1>i, <2>2, WriteState DEF TypeOK
    <3>3. QED
      BY <3>1, <3>2
  <2>3. events' \subseteq events \/ \E h \in Handlers : Writes(h)
    BY DEF Next, vars, Enqueue, Created, Sweep, Drive, Answer, Callback, Step, CheckVersion,
           VersionMismatch, RunLocal, SubmitTask, SubmitFails, NotifyFromCallback,
           NotifyFromTrigger, Crash, Writes
  <2>4. QED
    BY <1>3, <2>1, <2>2, <2>3
<1>4. ASSUME NEW h \in Handlers, hs'[h].pc = "notify", StaysClean(hs'[h].on)
      PROVE  hs'[h].seen = doc'[hs'[h].on]
  <2>1. CASE hs'[h] = hs[h]
    BY <1>b, <1>c, <1>f, <1>4, <2>1
  <2>2. CASE Writes(h)
    BY <1>4, <1>i, <2>2, WriteState DEF TypeOK
  <2>3. QED
    BY <1>4, <1>i, <2>1, <2>2, Moves, CheckState, WorkState, LeaveState, BeginState
       DEF Drive, Callback
<1>5. QED
  BY <1>2, <1>3, <1>4 DEF AnnounceInv, Clean, StaysClean

\* What was announced is the outcome the job still has, unless a set overlapped on it.
THEOREM AnnouncementsStand == Spec => []AnnouncedOutcomeStands
<1>1. Init => AnnounceInv
  BY DEF Init, AnnounceInv, Idle, Handler
<1>2. AnnounceInv => AnnouncedOutcomeStands
  BY DEF AnnounceInv, AnnouncedOutcomeStands
<1>3. QED
  BY <1>1, <1>2, AnnounceStep, ExclusiveInvariant, PTL DEF Spec

-----------------------------------------------------------------------------
(* The queue implements JobLifecycle: a set that overlaps spoils its job, and *)
(* no other.                                                                *)

\* Where the statuses are in the lifecycle.
LEMMA PhasesOfStatuses ==
    /\ PhaseOf("absent") = "absent" /\ PhaseOf("queued") = "waiting"
    /\ PhaseOf("claimed") = "active" /\ PhaseOf("running") = "active"
    /\ PhaseOf("awaiting_input") = "parked"
    /\ PhaseOf("done") = "done" /\ PhaseOf("failed") = "failed"
  BY DEF PhaseOf

\* The lifecycle state of one job, as LifecycleSpec maps it.
Phase(j) == IF Clean(j) THEN PhaseOf(doc[j].status) ELSE "spoilt"
Tries(j) == IF Clean(j) THEN doc[j].attempts ELSE 0

\* The step changes nothing of any job but j.
OnlyJob(j) == \A k \in Jobs \ {j} : doc'[k] = doc[k] /\ (StaysClean(k) <=> Clean(k))

\* A change of one job is a move of that job alone.
LEMMA LifecycleMove ==
    ASSUME NEW j \in Jobs, OnlyJob(j), NEW from, Phase(j) \in from,
           NEW to, Phase(j)' = to, NEW n, Tries(j)' = n
    PROVE  /\ Lifecycle!Move(j, from, to)
           /\ [k \in Jobs |-> Tries(k)]' = [[k \in Jobs |-> Tries(k)] EXCEPT ![j] = n]
<1>1. \A k \in Jobs \ {j} : Phase(k)' = Phase(k) /\ Tries(k)' = Tries(k)
  BY DEF OnlyJob, Phase, Tries, Clean, StaysClean
<1>2. /\ [k \in Jobs |-> Phase(k)]' = [[k \in Jobs |-> Phase(k)] EXCEPT ![j] = to]
      /\ [k \in Jobs |-> Tries(k)]' = [[k \in Jobs |-> Tries(k)] EXCEPT ![j] = n]
  BY <1>1
<1>3. [k \in Jobs |-> Phase(k)][j] \in from
  OBVIOUS
<1>4. QED
  BY <1>2, <1>3 DEF Lifecycle!Move, Phase, Tries

\* A step changes at most one job, and overlaps only on one that is there.
LEMMA OneJob ==
    ASSUME TypeInv, CopyInv, [Next]_vars
    PROVE  \/ UNCHANGED <<doc, overlapped>>
           \/ \E j \in Jobs : /\ OnlyJob(j)
                              /\ doc[j].status = "absent" => StaysClean(j) \/ ~Clean(j)
<1>t. doc \in [Jobs -> Document]
  BY DEF TypeInv, TypeOK
<1>1. ASSUME NEW j \in Jobs, Enqueue(j)
      PROVE  OnlyJob(j) /\ (StaysClean(j) \/ ~Clean(j))
  BY <1>t, <1>1 DEF Enqueue, OnlyJob, Clean, StaysClean
<1>2. ASSUME NEW h \in Handlers, Writes(h)
      PROVE  hs[h].on \in Jobs /\ OnlyJob(hs[h].on) /\ doc[hs[h].on].status # "absent"
  <2>1. hs[h].on \in Jobs /\ hs[h].pc = "write" /\ doc' = [doc EXCEPT ![hs[h].on] = hs[h].next]
    BY <1>2, WriteState
  <2>2. overlapped' \in {overlapped, overlapped \union {hs[h].on}}
    BY <1>2 DEF Writes, WriteClaim, WriteRunning, WriteResult, SetDocument
  <2>3. OnlyJob(hs[h].on)
    BY <1>t, <2>1, <2>2 DEF OnlyJob, Clean, StaysClean
  <2>4. QED
    BY <2>1, <2>3 DEF CopyInv
<1>3. \/ UNCHANGED <<doc, overlapped>>
      \/ \E j \in Jobs : Enqueue(j)
      \/ \E h \in Handlers : Writes(h)
  BY DEF Next, vars, Created, Sweep, Drive, Answer, Callback, Step, CheckVersion, VersionMismatch,
         RunLocal, SubmitTask, SubmitFails, NotifyFromCallback, NotifyFromTrigger,
         Crash, Writes
<1>4. QED
  BY <1>1, <1>2, <1>3

\* Every step of the queue is a step of the lifecycle or leaves it alone.
LEMMA LifecycleStep ==
    ExclusiveInv /\ BudgetInv /\ [Next]_vars => [Lifecycle!Next]_(Lifecycle!vars)
<1> SUFFICES ASSUME ExclusiveInv, BudgetInv, [Next]_vars
             PROVE  [Lifecycle!Next]_(Lifecycle!vars)
  OBVIOUS
<1>v. ASSUME [k \in Jobs |-> Phase(k)]' = [k \in Jobs |-> Phase(k)],
             [k \in Jobs |-> Tries(k)]' = [k \in Jobs |-> Tries(k)]
      PROVE  [Lifecycle!Next]_(Lifecycle!vars)
  BY <1>v DEF Lifecycle!vars, Phase, Tries
<1>1. CASE UNCHANGED <<doc, overlapped>>
  BY <1>1, <1>v DEF Phase, Tries, Clean
<1>2. ASSUME NEW j \in Jobs, OnlyJob(j),
             doc[j].status = "absent" => StaysClean(j) \/ ~Clean(j)
      PROVE  [Lifecycle!Next]_(Lifecycle!vars)
  <2>m. ASSUME NEW S, Phase(j) \in S, NEW to, Phase(j)' = to, NEW n, Tries(j)' = n
        PROVE  /\ Lifecycle!Move(j, S, to)
               /\ [k \in Jobs |-> Tries(k)]' = [[k \in Jobs |-> Tries(k)] EXCEPT ![j] = n]
    BY <1>2, <2>m, LifecycleMove
  <2>u. ASSUME Phase(j)' = Phase(j), Tries(j)' = Tries(j)
        PROVE  [Lifecycle!Next]_(Lifecycle!vars)
    <3>1. \A k \in Jobs : Phase(k)' = Phase(k) /\ Tries(k)' = Tries(k)
      BY <1>2, <2>u DEF OnlyJob, Phase, Tries, Clean, StaysClean
    <3>2. QED
      BY <1>v, <3>1
  <2>b. StaysClean(j) => Clean(j)
    BY CleanBefore
  <2>1. CASE ~Clean(j)
    BY <2>b, <2>u, <2>1 DEF Phase, Tries, Clean, StaysClean
  <2>2. CASE Clean(j) /\ ~StaysClean(j)
    <3>1. doc[j].status \in JOB_STATUSES
      BY <1>2, <2>2 DEF ExclusiveInv, TypeInv, TypeOK, Document
    <3>2. Phase(j) \in {"waiting", "active", "parked", "done", "failed"}
      BY <2>2, <3>1, PhasesOfStatuses DEF Phase, JOB_STATUSES
    <3>3. Phase(j)' = "spoilt" /\ Tries(j)' = 0
      BY <2>2 DEF Phase, Tries, Clean, StaysClean
    <3>4. Lifecycle!Spoil(j)
      BY <2>m, <3>2, <3>3 DEF Lifecycle!Spoil, Tries
    <3>5. QED
      BY <3>4 DEF Lifecycle!Next
  <2>3. CASE StaysClean(j)
    <3>p. /\ Phase(j) = PhaseOf(doc[j].status) /\ Phase(j)' = PhaseOf(doc'[j].status)
          /\ Tries(j) = doc[j].attempts /\ Tries(j)' = doc'[j].attempts
      BY <2>b, <2>3 DEF Phase, Tries, Clean, StaysClean
    <3>b. Budgeted(j)
      BY <2>b, <2>3 DEF BudgetInv
    <3>t. /\ [k \in Jobs |-> Tries(k)][j] = doc[j].attempts
          /\ doc'[j].attempts = doc[j].attempts =>
               [k \in Jobs |-> Tries(k)]' = [k \in Jobs |-> Tries(k)]
      <4>1. \A k \in Jobs \ {j} : Tries(k)' = Tries(k)
        BY <1>2 DEF OnlyJob, Tries, Clean, StaysClean
      <4>2. QED
        BY <3>p, <4>1
    <3>1. CASE doc'[j] = doc[j]
      BY <2>u, <3>p, <3>1
    <3>2. CASE doc[j].status = "absent" /\ doc'[j] = Enqueued
      <4>1. doc'[j].status = "queued" /\ doc'[j].attempts = doc[j].attempts
        BY <3>2, <3>b DEF Enqueued, Doc, Budgeted
      <4>2. Phase(j) = "absent" /\ Phase(j)' = "waiting"
        BY <3>2, <3>p, <4>1, PhasesOfStatuses
      <4>3. Lifecycle!Submit(j)
        BY <2>m, <3>t, <4>1, <4>2 DEF Lifecycle!Submit, Tries
      <4>4. QED
        BY <4>3 DEF Lifecycle!Next
    <3>3. ASSUME NEW h \in Handlers, hs[h].on = j, Moved(h, doc[j], doc'[j])
          PROVE  [Lifecycle!Next]_(Lifecycle!vars)
      <4>1. CASE /\ doc[j].status = "queued" /\ doc'[j].status = "claimed"
                 /\ doc'[j].attempts = doc[j].attempts + 1
        <5>1. [k \in Jobs |-> Tries(k)][j] < MaxAttempts[j]
          BY <3>b, <3>t, <4>1 DEF Budgeted
        <5>2. Phase(j) = "waiting" /\ Phase(j)' = "active"
          BY <3>p, <4>1, PhasesOfStatuses
        <5>3. /\ Lifecycle!Move(j, {"waiting"}, "active")
              /\ [k \in Jobs |-> Tries(k)]'
                   = [[k \in Jobs |-> Tries(k)] EXCEPT ![j] = @ + 1]
          BY <2>m, <3>p, <3>t, <4>1, <5>2
        <5>4. Lifecycle!Begin(j)
          BY <5>1, <5>3 DEF Lifecycle!Begin, Tries
        <5>5. QED
          BY <5>4 DEF Lifecycle!Next
      <4>2. CASE /\ doc[j].status = "claimed" /\ doc'[j].status = "running"
                 /\ doc'[j].attempts = doc[j].attempts
        BY <2>u, <3>p, <4>2, PhasesOfStatuses
      <4>3. CASE /\ doc[j].status = "running" /\ doc'[j].status = "awaiting_input"
                 /\ doc'[j].attempts = doc[j].attempts
        <5>1. Phase(j) = "active" /\ Phase(j)' = "parked"
          BY <3>p, <4>3, PhasesOfStatuses
        <5>2. Lifecycle!Park(j)
          BY <2>m, <3>t, <4>3, <5>1 DEF Lifecycle!Park, Tries
        <5>3. QED
          BY <5>2 DEF Lifecycle!Next
      <4>4. CASE /\ doc[j].status \in {"running", "awaiting_input"}
                 /\ doc'[j].attempts = doc[j].attempts
                 /\ doc'[j].status \in {"done", "failed"}
        <5>1. Phase(j) \in {"active", "parked"} /\ Phase(j)' \in {"done", "failed"}
          BY <3>p, <4>4, PhasesOfStatuses
        <5>2. Lifecycle!Finish(j)
          BY <2>m, <3>t, <4>4, <5>1 DEF Lifecycle!Finish, Tries
        <5>3. QED
          BY <5>2 DEF Lifecycle!Next
      <4>5. CASE /\ doc[j].status \in {"running", "awaiting_input"}
                 /\ doc'[j].attempts = doc[j].attempts
                 /\ doc'[j].status = "queued" /\ doc[j].attempts < MaxAttempts[j]
        <5>1. Phase(j) \in {"active", "parked"} /\ Phase(j)' = "waiting"
          BY <3>p, <4>5, PhasesOfStatuses
        <5>2. [k \in Jobs |-> Tries(k)][j] < MaxAttempts[j]
          BY <3>t, <4>5
        <5>3. Lifecycle!Retry(j)
          BY <2>m, <3>t, <4>5, <5>1, <5>2 DEF Lifecycle!Retry, Tries
        <5>4. QED
          BY <5>3 DEF Lifecycle!Next
      <4>6. QED
        BY <3>3, <4>1, <4>2, <4>3, <4>4, <4>5 DEF Moved, Notifiable
    <3>4. QED
      BY <2>3, <3>1, <3>2, <3>3, DocumentMoves
  <2>4. QED
    BY <2>1, <2>2, <2>3
<1>3. QED
  BY <1>1, <1>2, OneJob DEF ExclusiveInv

\* The queue of documents and handlers implements the lifecycle it promises: a job waits,
\* is attempted within its budget, may be parked, and finishes once, unless a set
\* overlaps on it; whatever overlaps on the others, its own lifecycle is kept.
THEOREM ImplementsLifecycle == Spec => LifecycleSpec
<1>1. Init => Lifecycle!Init
  BY PhasesOfStatuses DEF Init, Lifecycle!Init, NoDocument, Doc, Clean
<1>2. QED
  BY <1>1, LifecycleStep, ExclusiveInvariant, BudgetInvariant, PTL
     DEF Spec, LifecycleSpec, Lifecycle!Spec
=============================================================================
