----------------------------- MODULE ChatProofs ------------------------------
(***************************************************************************)
(* Theorems about Chat, for every set of messages, slots and polls, every  *)
(* number of jobs, questions, events and faults.                           *)
(***************************************************************************)
EXTENDS Chat, WellFoundedInduction, TLAPS

Works     == {"idle", "thinking", "sorry", "posting", "excusing"}
Chats     == [Messages -> [posted : BOOLEAN, replies : 0..2]]
JobLists  == [JobIds -> JobRecords \union {None}]
Feedbacks == [FeedbackIds -> Questions \union {None}]
Items     == JobRecords \union Questions \union {None}
Copies    == Chats \union JobLists \union Feedbacks \union {None}
Ops       == {"post", "reply", "escalate", "answer"}
Stages    == {"append", "job", "feedback", "lookup", "find"}

Requests ==
    [op : Ops \union {"none"}, todo : Seq(Stages), msg : Messages \union {None},
     by : JobIds \union {None}, job : JobIds \union {None},
     fb : FeedbackIds \union {None}, item : Items, copy : Copies]

TypeOK ==
    /\ chat \in Chats /\ jobs \in JobLists /\ feedback \in Feedbacks
    /\ req \in [Slots -> Requests]
    /\ polls \in [Polls -> SUBSET JobIds]
    /\ work \in [JobIds -> Works] /\ fails \in [JobIds -> Nat]
    /\ born \in [JobIds -> Births \union {None}]
    /\ asked \in Nat /\ faults \in Nat
    /\ raced \in BOOLEAN /\ stale \in BOOLEAN

\* The stages a request of each kind can have left.
Todos ==
    [post     |-> {<<"append", "job">>, <<"job">>},
     reply    |-> {<<"append", "find", "job">>, <<"find", "job">>, <<"job">>},
     escalate |-> {<<"find", "job", "feedback">>, <<"job", "feedback">>, <<"feedback">>},
     answer   |-> {<<"lookup", "feedback", "find", "job">>, <<"feedback", "find", "job">>,
                   <<"find", "job">>, <<"job">>}]

At(r) == IF r = NoRequest THEN "none" ELSE Head(r.todo)

\* The status a request gives its job.
Outcome == [post |-> "queued", reply |-> "done", escalate |-> "escalated_to_computer",
            answer |-> "queued"]

\* What a request has in hand at each stage.
Formed(r) ==
    \/ r = NoRequest
    \/ /\ r.op \in Ops /\ r.todo \in Todos[r.op] /\ r.msg \in Messages
       /\ r.op \in {"post", "answer"} => r.job \in JobIds /\ r.by = None
       /\ r.op \in {"escalate", "answer"} => r.fb \in FeedbackIds
       /\ r.op = "post" => r.item = Job(r.msg, "queued")
       /\ At(r) \in {"job", "feedback"} => r.job \in JobIds
       /\ At(r) = "job" => r.item = Job(r.msg, Outcome[r.op])
       /\ At(r) = "feedback" /\ r.op = "answer" => r.item = Question(r.msg, TRUE)
       /\ At(r) = "feedback" /\ r.op = "escalate" => r.item = Question(r.msg, FALSE)
       /\ r.copy # None =>
            \/ At(r) = "append" /\ r.copy \in Chats
            \/ At(r) = "job" /\ r.copy \in JobLists
            \/ At(r) = "feedback" /\ r.copy \in Feedbacks

\* With what is known of the jobs created: each job of a list is one of them, and
\* of that message; so is the job j of message m.
BornIn(list, b) == \A j \in JobIds : list[j] # None => b[j] # None /\ list[j].msg = b[j].msg
BornAs(j, m, b) == j = None \/ (b[j] # None /\ b[j].msg = m)

Wellborn(r, b) ==
    /\ BornAs(r.job, r.msg, b) /\ BornAs(r.by, r.msg, b)
    /\ (At(r) = "job" /\ r.copy # None) => BornIn(r.copy, b)

ShapeInv ==
    /\ TypeOK
    /\ \A s \in Slots : Formed(req[s]) /\ Wellborn(req[s], born)
    /\ BornIn(jobs, born)
    /\ \A p \in Polls : \A j \in polls[p] : born[j] # None
    /\ \A j \in JobIds : work[j] # "idle" => born[j] # None

-----------------------------------------------------------------------------
(* What the operators return *)

\* What a tuple's head, tail and length are.
LEMMA TupleFacts ==
    ASSUME NEW S, NEW a \in S, NEW b \in S, NEW c \in S, NEW d \in S
    PROVE  /\ <<a>> \in Seq(S) /\ Head(<<a>>) = a /\ Len(<<a>>) = 1
           /\ <<a, b>> \in Seq(S) /\ Head(<<a, b>>) = a /\ Len(<<a, b>>) = 2
           /\ Tail(<<a, b>>) = <<b>>
           /\ <<a, b, c>> \in Seq(S) /\ Head(<<a, b, c>>) = a /\ Len(<<a, b, c>>) = 3
           /\ Tail(<<a, b, c>>) = <<b, c>>
           /\ <<a, b, c, d>> \in Seq(S) /\ Head(<<a, b, c, d>>) = a /\ Len(<<a, b, c, d>>) = 4
           /\ Tail(<<a, b, c, d>>) = <<b, c, d>>
<1>1. <<a>> \in Seq(S) /\ Head(<<a>>) = a /\ Len(<<a>>) = 1
  OBVIOUS
<1>2. <<a, b>> \in Seq(S) /\ Head(<<a, b>>) = a /\ Len(<<a, b>>) = 2
  OBVIOUS
<1>3. Tail(<<a, b>>) = <<b>>
  OBVIOUS
<1>4. <<a, b, c>> \in Seq(S) /\ Head(<<a, b, c>>) = a /\ Len(<<a, b, c>>) = 3
  OBVIOUS
<1>5. Tail(<<a, b, c>>) = <<b, c>>
  OBVIOUS
<1>6. <<a, b, c, d>> \in Seq(S) /\ Head(<<a, b, c, d>>) = a /\ Len(<<a, b, c, d>>) = 4
  OBVIOUS
<1>7. Tail(<<a, b, c, d>>) = <<b, c, d>>
  OBVIOUS
<1>8. QED
  BY <1>1, <1>2, <1>3, <1>4, <1>5, <1>6, <1>7


\* The stages of each kind of request, one after the other.
LEMMA StageFacts ==
    ASSUME NEW op \in Ops, NEW todo \in Todos[op]
    PROVE  /\ todo \in Seq(Stages) /\ Head(todo) \in Stages
           /\ op = "post" =>
                \/ Head(todo) = "append" /\ Len(todo) # 1 /\ Head(Tail(todo)) = "job"
                \/ Head(todo) = "job" /\ Len(todo) = 1
           /\ op = "reply" =>
                \/ Head(todo) = "append" /\ Len(todo) # 1 /\ Head(Tail(todo)) = "find"
                \/ Head(todo) = "find" /\ Len(todo) # 1 /\ Head(Tail(todo)) = "job"
                \/ Head(todo) = "job" /\ Len(todo) = 1
           /\ op = "escalate" =>
                \/ Head(todo) = "find" /\ Len(todo) # 1 /\ Head(Tail(todo)) = "job"
                \/ Head(todo) = "job" /\ Len(todo) # 1 /\ Head(Tail(todo)) = "feedback"
                \/ Head(todo) = "feedback" /\ Len(todo) = 1
           /\ op = "answer" =>
                \/ Head(todo) = "lookup" /\ Len(todo) # 1 /\ Head(Tail(todo)) = "feedback"
                \/ Head(todo) = "feedback" /\ Len(todo) # 1 /\ Head(Tail(todo)) = "find"
                \/ Head(todo) = "find" /\ Len(todo) # 1 /\ Head(Tail(todo)) = "job"
                \/ Head(todo) = "job" /\ Len(todo) = 1
           /\ Len(todo) # 1 => Tail(todo) \in Todos[op]
<1>0. /\ "append" \in Stages /\ "job" \in Stages /\ "feedback" \in Stages
      /\ "lookup" \in Stages /\ "find" \in Stages
  BY DEF Stages
<1>1. CASE op = "post"
  <2>1. todo \in {<<"append", "job">>, <<"job">>}
    BY <1>1 DEF Todos
  <2>2. CASE todo = <<"append", "job">>
    BY <1>0, <1>1, <2>2, TupleFacts DEF Todos
  <2>3. CASE todo = <<"job">>
    BY <1>0, <1>1, <2>3, TupleFacts DEF Todos
  <2>4. QED
    BY <2>1, <2>2, <2>3
<1>2. CASE op = "reply"
  <2>1. todo \in {<<"append", "find", "job">>, <<"find", "job">>, <<"job">>}
    BY <1>2 DEF Todos
  <2>2. CASE todo = <<"append", "find", "job">>
    BY <1>0, <1>2, <2>2, TupleFacts DEF Todos
  <2>3. CASE todo = <<"find", "job">>
    BY <1>0, <1>2, <2>3, TupleFacts DEF Todos
  <2>4. CASE todo = <<"job">>
    BY <1>0, <1>2, <2>4, TupleFacts DEF Todos
  <2>5. QED
    BY <2>1, <2>2, <2>3, <2>4
<1>3. CASE op = "escalate"
  <2>1. todo \in {<<"find", "job", "feedback">>, <<"job", "feedback">>, <<"feedback">>}
    BY <1>3 DEF Todos
  <2>2. CASE todo = <<"find", "job", "feedback">>
    BY <1>0, <1>3, <2>2, TupleFacts DEF Todos
  <2>3. CASE todo = <<"job", "feedback">>
    BY <1>0, <1>3, <2>3, TupleFacts DEF Todos
  <2>4. CASE todo = <<"feedback">>
    BY <1>0, <1>3, <2>4, TupleFacts DEF Todos
  <2>5. QED
    BY <2>1, <2>2, <2>3, <2>4
<1>4. CASE op = "answer"
  <2>1. todo \in {<<"lookup", "feedback", "find", "job">>, <<"feedback", "find", "job">>,
                  <<"find", "job">>, <<"job">>}
    BY <1>4 DEF Todos
  <2>2. CASE todo = <<"lookup", "feedback", "find", "job">>
    BY <1>0, <1>4, <2>2, TupleFacts DEF Todos
  <2>3. CASE todo = <<"feedback", "find", "job">>
    BY <1>0, <1>4, <2>3, TupleFacts DEF Todos
  <2>4. CASE todo = <<"find", "job">>
    BY <1>0, <1>4, <2>4, TupleFacts DEF Todos
  <2>5. CASE todo = <<"job">>
    BY <1>0, <1>4, <2>5, TupleFacts DEF Todos
  <2>6. QED
    BY <2>1, <2>2, <2>3, <2>4, <2>5
<1>5. QED
  BY <1>1, <1>2, <1>3, <1>4 DEF Ops

LEMMA PlanFacts ==
    ASSUME NEW op \in Ops
    PROVE  /\ Plan[op] \in Todos[op]
           /\ Head(Plan[op]) = CASE op = "post" -> "append" [] op = "reply" -> "append"
                                 [] op = "escalate" -> "find" [] op = "answer" -> "lookup"
  BY DEF Ops, Plan, Todos

LEMMA NoRequestFacts ==
    /\ NoRequest \in Requests
    /\ NoRequest.op = "none" /\ NoRequest.msg = None /\ NoRequest.by = None
    /\ NoRequest.job = None /\ NoRequest.copy = None
  BY DEF NoRequest, Requests, Items, Copies

LEMMA RequestFacts ==
    ASSUME NEW op \in Ops, NEW m \in Messages, NEW by \in JobIds \union {None},
           NEW job \in JobIds \union {None}, NEW fb \in FeedbackIds \union {None},
           NEW item \in Items
    PROVE  LET r == Request(op, m, by, job, fb, item) IN
           /\ r \in Requests /\ r # NoRequest /\ r.todo \in Todos[op]
           /\ At(r) = Head(Plan[op])
           /\ r.op = op /\ r.msg = m /\ r.by = by /\ r.job = job /\ r.fb = fb
           /\ r.item = item /\ r.copy = None
<1>1. Plan[op] \in Seq(Stages) /\ Plan[op] \in Todos[op]
  BY PlanFacts, StageFacts
<1>2. Request(op, m, by, job, fb, item) # NoRequest
  BY DEF Request, NoRequest, Ops
<1>3. Request(op, m, by, job, fb, item) \in Requests
  BY <1>1 DEF Request, Requests, Copies
<1>4. QED
  BY <1>1, <1>2, <1>3 DEF Request, At

\* The request moved on to its next stage.
LEMMA NextFacts ==
    ASSUME NEW r \in Requests, r # NoRequest, Formed(r), Len(r.todo) # 1,
           NEW job \in JobIds \union {None}, NEW item \in Items
    PROVE  LET q == NextStage(r, job, item) IN
           /\ q \in Requests /\ q # NoRequest /\ q.todo \in Todos[r.op]
           /\ At(q) = Head(Tail(r.todo))
           /\ q.op = r.op /\ q.msg = r.msg /\ q.by = r.by /\ q.job = job /\ q.fb = r.fb
           /\ q.item = item /\ q.copy = None
<1> DEFINE q == NextStage(r, job, item)
<1>1. r.op \in Ops /\ r.todo \in Todos[r.op]
  BY DEF Formed
<1>2. Tail(r.todo) \in Todos[r.op] /\ Tail(r.todo) \in Seq(Stages)
  BY <1>1, StageFacts
<1>3. /\ q.op = r.op /\ q.msg = r.msg /\ q.by = r.by /\ q.job = job /\ q.fb = r.fb
      /\ q.item = item /\ q.copy = None /\ q.todo = Tail(r.todo)
  BY DEF NextStage, Requests
<1>4. q \in Requests
  BY <1>2 DEF NextStage, Requests, Copies
<1>5. q # NoRequest
  BY <1>1, <1>3, NoRequestFacts DEF Ops
<1>6. QED
  BY <1>2, <1>3, <1>4, <1>5 DEF At

LEMMA ItemFacts ==
    ASSUME NEW m \in Messages
    PROVE  /\ \A st \in {"queued", "done", "escalated_to_computer"} :
                /\ Job(m, st) \in JobRecords /\ Job(m, st) \in Items
                /\ Job(m, st).msg = m /\ Job(m, st).status = st /\ Job(m, st) # None
           /\ Question(m, TRUE) \in Questions /\ Question(m, TRUE) \in Items
           /\ Question(m, TRUE).msg = m /\ Question(m, TRUE) # None
           /\ Question(m, FALSE) \in Questions /\ Question(m, FALSE) \in Items
           /\ Question(m, FALSE).msg = m /\ Question(m, FALSE) # None
<1>1. \A st \in {"queued", "done", "escalated_to_computer"} :
                /\ Job(m, st) \in JobRecords
                /\ Job(m, st).msg = m /\ Job(m, st).status = st
  BY DEF Job, JobRecords
<1>2. Question(m, TRUE) \in Questions /\ Question(m, TRUE).msg = m
  BY DEF Question, Questions
<1>3. Question(m, FALSE) \in Questions /\ Question(m, FALSE).msg = m
  BY DEF Question, Questions
<1>4. QED
  BY <1>1, <1>2, <1>3, NoneAssumption DEF Items

\* The set of chat_messages.
LEMMA AppendedFacts ==
    ASSUME NEW r, r.copy \in Chats, r.msg \in Messages
    PROVE  /\ Appended(r) \in Chats
           /\ \A m \in Messages : m # r.msg => Appended(r)[m] = r.copy[m]
           /\ r.op = "post" =>
                /\ Appended(r)[r.msg].posted = TRUE
                /\ Appended(r)[r.msg].replies = r.copy[r.msg].replies
           /\ r.op # "post" =>
                /\ Appended(r)[r.msg].posted = r.copy[r.msg].posted
                /\ Appended(r)[r.msg].replies =
                     IF r.copy[r.msg].replies = 2 THEN 2 ELSE r.copy[r.msg].replies + 1
<1> DEFINE old == r.copy[r.msg]
           new == Extended(old, r.op)
<1>1. old \in [posted : BOOLEAN, replies : 0..2]
  BY DEF Chats
<1>2. CASE r.op = "post"
  <2>1. new = [old EXCEPT !.posted = TRUE]
    BY <1>2 DEF Extended
  <2>2. /\ new \in [posted : BOOLEAN, replies : 0..2]
        /\ new.posted = TRUE /\ new.replies = old.replies
    BY <1>1, <2>1
  <2>3. QED
    BY <1>2, <2>2 DEF Appended, Chats
<1>3. CASE r.op # "post"
  <2>1. new = [old EXCEPT !.replies = IF old.replies = 2 THEN 2 ELSE old.replies + 1]
    BY <1>3 DEF Extended
  <2>2. /\ new \in [posted : BOOLEAN, replies : 0..2]
        /\ new.posted = old.posted
        /\ new.replies = IF old.replies = 2 THEN 2 ELSE old.replies + 1
    BY <1>1, <2>1
  <2>3. QED
    BY <1>3, <2>2 DEF Appended, Chats
<1>4. QED
  BY <1>2, <1>3

LEMMA MoreReplies ==
    ASSUME NEW r, r.copy \in Chats, r.msg \in Messages
    PROVE  /\ \A m \in Messages : r.copy[m].replies > 0 => Appended(r)[m].replies > 0
           /\ r.op # "post" => Appended(r)[r.msg].replies > 0
<1>1. \A m \in Messages : r.copy[m].replies \in 0..2
  BY DEF Chats
<1>2. \A m \in Messages : m # r.msg => Appended(r)[m] = r.copy[m]
  BY AppendedFacts
<1>3. /\ r.op = "post" => Appended(r)[r.msg].replies = r.copy[r.msg].replies
      /\ r.op # "post" => Appended(r)[r.msg].replies =
                             IF r.copy[r.msg].replies = 2 THEN 2 ELSE r.copy[r.msg].replies + 1
  BY AppendedFacts
<1>4. QED
  BY <1>1, <1>2, <1>3

\* The bridge's processing of the job that awaits s, if any, ends up in W.
Tells(s, W) ==
    \A j \in JobIds : IF req[s].by = j THEN work'[j] \in W ELSE work'[j] = work[j]

LEMMA FailFacts ==
    ASSUME TypeOK, NEW j \in JobIds, Fail(j)
    PROVE  /\ work' \in [JobIds -> Works] /\ fails' \in [JobIds -> Nat]
           /\ work'[j] \in {"idle", "sorry"}
           /\ \A i \in JobIds : i # j => work'[i] = work[i]
<1>1. CASE work[j] = "excusing"
  BY <1>1 DEF Fail, Settle, TypeOK, Works
<1>2. CASE work[j] # "excusing" /\ LastTry(j)
  BY <1>2 DEF Fail, TypeOK, Works
<1>3. CASE work[j] # "excusing" /\ ~LastTry(j)
  BY <1>3 DEF Fail, TypeOK, Works
<1>4. QED
  BY <1>1, <1>2, <1>3

LEMMA TellFacts ==
    ASSUME TypeOK, NEW s \in Slots, NEW ok, Tell(s, ok)
    PROVE  /\ work' \in [JobIds -> Works] /\ fails' \in [JobIds -> Nat]
           /\ Tells(s, {"idle", "sorry"})
           /\ ok => Tells(s, {"idle"})
<1>1. req[s].by \in JobIds \union {None} /\ None \notin JobIds
  BY NoneAssumption DEF TypeOK, Requests, JobIds
<1>2. CASE req[s].by = None
  BY <1>1, <1>2 DEF Tell, Tells, TypeOK
<1>3. CASE req[s].by # None /\ ok
  BY <1>1, <1>3 DEF Tell, Tells, Settle, TypeOK, Works
<1>4. CASE req[s].by # None /\ ~ok
  BY <1>1, <1>4, FailFacts DEF Tell, Tells
<1>5. QED
  BY <1>2, <1>3, <1>4

\* q is the request r at a later stage.
Carries(q, r) ==
    /\ q \in Requests /\ q # NoRequest /\ q.todo \in Todos[r.op]
    /\ q.op = r.op /\ q.msg = r.msg /\ q.by = r.by /\ q.fb = r.fb /\ q.copy = None

LEMMA AdvanceFacts ==
    ASSUME TypeOK, NEW s \in Slots, req[s] # NoRequest, Formed(req[s]),
           NEW job \in JobIds \union {None}, NEW item \in Items, Advance(s, job, item)
    PROVE  /\ req' \in [Slots -> Requests] /\ \A t \in Slots : t # s => req'[t] = req[t]
           /\ work' \in [JobIds -> Works] /\ fails' \in [JobIds -> Nat]
           /\ Len(req[s].todo) = 1 => req'[s] = NoRequest /\ Tells(s, {"idle"})
           /\ Len(req[s].todo) # 1 =>
                /\ Carries(req'[s], req[s]) /\ At(req'[s]) = Head(Tail(req[s].todo))
                /\ req'[s].job = job /\ req'[s].item = item
                /\ UNCHANGED <<work, fails>>
<1>1. CASE Len(req[s].todo) = 1
  <2>1. req' = [req EXCEPT ![s] = NoRequest] /\ Tell(s, TRUE)
    BY <1>1 DEF Advance
  <2>2. QED
    BY <1>1, <2>1, TellFacts, NoRequestFacts DEF TypeOK
<1>2. CASE Len(req[s].todo) # 1
  <2>1. /\ req' = [req EXCEPT ![s] = NextStage(req[s], job, item)]
        /\ UNCHANGED <<work, fails>>
    BY <1>2 DEF Advance
  <2>2. req[s] \in Requests
    BY DEF TypeOK
  <2>3. QED
    BY <1>2, <2>1, <2>2, NextFacts, ZenonT(30) DEF TypeOK, Carries
<1>3. QED
  BY <1>1, <1>2

LEMMA EndFacts ==
    ASSUME TypeOK, NEW s \in Slots, NEW ok, End(s, ok)
    PROVE  /\ req' \in [Slots -> Requests] /\ \A t \in Slots : t # s => req'[t] = req[t]
           /\ work' \in [JobIds -> Works] /\ fails' \in [JobIds -> Nat]
           /\ req'[s] = NoRequest /\ Tells(s, {"idle", "sorry"})
           /\ ok => Tells(s, {"idle"})
<1>1. req' = [req EXCEPT ![s] = NoRequest] /\ Tell(s, ok)
  BY DEF End
<1>2. QED
  BY <1>1, TellFacts, NoRequestFacts DEF TypeOK

-----------------------------------------------------------------------------
(* What each step does *)

LEMMA CreatesState ==
    ASSUME TypeOK, NEW s \in Slots, NEW j \in JobIds, NEW op \in {"post", "answer"},
           NEW m \in Messages, NEW f \in FeedbackIds \union {None}, NEW item \in Items,
           Creates(s, j, op, m, f, item)
    PROVE  /\ UNCHANGED <<chat, jobs, feedback, polls, work, fails, asked, faults, raced, stale>>
           /\ req' \in [Slots -> Requests] /\ \A t \in Slots : t # s => req'[t] = req[t]
           /\ req[s] = NoRequest /\ req'[s] # NoRequest /\ req'[s].todo \in Todos[op]
           /\ At(req'[s]) = IF op = "post" THEN "append" ELSE "lookup"
           /\ req'[s].op = op /\ req'[s].msg = m /\ req'[s].by = None /\ req'[s].job = j
           /\ req'[s].fb = f /\ req'[s].item = item /\ req'[s].copy = None
           /\ born' \in [JobIds -> Births \union {None}]
           /\ born[j] = None /\ born'[j] # None /\ born'[j].msg = m
           /\ \A i \in JobIds : i # j => born'[i] = born[i]
<1> DEFINE r == Request(op, m, None, j, f, item)
           b == [msg |-> m, answered |-> op = "answer"]
<1>1. /\ Free(s) /\ req' = [req EXCEPT ![s] = r] /\ born' = [born EXCEPT ![j] = b]
      /\ UNCHANGED <<chat, jobs, feedback, polls, work, fails, asked, faults, raced, stale>>
      /\ (born[j] # None) <=> j < j
  BY DEF Creates, lists, bridge
<1>2. /\ r \in Requests /\ r # NoRequest /\ r.todo \in Todos[op]
      /\ At(r) = Head(Plan[op])
      /\ r.op = op /\ r.msg = m /\ r.by = None /\ r.job = j /\ r.fb = f
      /\ r.item = item /\ r.copy = None
  BY RequestFacts DEF Ops
<1>3. Head(Plan[op]) = IF op = "post" THEN "append" ELSE "lookup"
  BY PlanFacts DEF Ops
<1>4. b \in Births /\ b.msg = m
  BY DEF Births
<1>5. b # None
  BY <1>4, NoneAssumption
<1>6. ~(j < j)
  BY DEF JobIds
<1> HIDE DEF r, b
<1>7. /\ req' \in [Slots -> Requests] /\ req'[s] = r
      /\ \A t \in Slots : t # s => req'[t] = req[t]
  BY <1>1, <1>2 DEF TypeOK
<1>8. /\ born' \in [JobIds -> Births \union {None}] /\ born'[j] = b
      /\ \A i \in JobIds : i # j => born'[i] = born[i]
  BY <1>1, <1>4 DEF TypeOK
<1>9. QED
  BY <1>1, <1>2, <1>3, <1>4, <1>5, <1>6, <1>7, <1>8 DEF Free

LEMMA PostsState ==
    ASSUME ShapeInv, NEW s \in Slots, NEW j \in JobIds, NEW op \in {"reply", "escalate"},
           NEW f \in FeedbackIds \union {None}, NEW during \in {"posting", "excusing"},
           work[j] # "idle", Posts(s, j, op, f, during)
    PROVE  /\ UNCHANGED <<chat, jobs, feedback, polls, fails, born, faults, raced, stale>>
           /\ req' \in [Slots -> Requests] /\ \A t \in Slots : t # s => req'[t] = req[t]
           /\ born[j] # None /\ born[j].msg \in Messages
           /\ req[s] = NoRequest /\ req'[s] # NoRequest /\ req'[s].todo \in Todos[op]
           /\ At(req'[s]) = IF op = "reply" THEN "append" ELSE "find"
           /\ req'[s].op = op /\ req'[s].msg = born[j].msg /\ req'[s].by = j
           /\ req'[s].job = None /\ req'[s].fb = f /\ req'[s].copy = None
           /\ work' \in [JobIds -> Works] /\ work'[j] = during
           /\ \A i \in JobIds : i # j => work'[i] = work[i]
<1> DEFINE r == Request(op, born[j].msg, j, None, f, None)
<1>1. born[j] # None /\ born[j] \in Births \union {None}
  BY DEF ShapeInv, TypeOK
<1>2. born[j].msg \in Messages
  BY <1>1 DEF Births
<1>3. /\ Free(s) /\ req' = [req EXCEPT ![s] = r] /\ work' = [work EXCEPT ![j] = during]
      /\ UNCHANGED <<chat, jobs, feedback, polls, fails, born, faults, raced, stale>>
  BY DEF Posts, lists
<1>4. /\ r \in Requests /\ r # NoRequest /\ r.todo \in Todos[op]
      /\ At(r) = Head(Plan[op])
      /\ r.op = op /\ r.msg = born[j].msg /\ r.by = j /\ r.job = None /\ r.fb = f
      /\ r.copy = None
  <2>1. op \in Ops
    BY DEF Ops
  <2>2. Plan[op] \in Seq(Stages) /\ Plan[op] \in Todos[op]
    BY <2>1, PlanFacts, StageFacts
  <2>3. r # NoRequest
    BY DEF Request, NoRequest
  <2>4. r \in Requests
    BY <1>2, <2>1, <2>2 DEF Request, Requests, Copies, Items
  <2>5. QED
    BY <2>2, <2>3, <2>4 DEF Request, At
<1>5. Head(Plan[op]) = IF op = "reply" THEN "append" ELSE "find"
  BY PlanFacts DEF Ops
<1> HIDE DEF r
<1>6. /\ req' \in [Slots -> Requests] /\ req'[s] = r
      /\ \A t \in Slots : t # s => req'[t] = req[t]
  BY <1>3, <1>4 DEF ShapeInv, TypeOK
<1>7. /\ work' \in [JobIds -> Works] /\ work'[j] = during
      /\ \A i \in JobIds : i # j => work'[i] = work[i]
  BY <1>3 DEF ShapeInv, TypeOK, Works
<1>8. QED
  BY <1>1, <1>2, <1>3, <1>4, <1>5, <1>6, <1>7 DEF Free

LEMMA PollState ==
    ASSUME TypeOK, NEW p \in Polls, Poll(p)
    PROVE  /\ UNCHANGED <<chat, jobs, feedback, req, work, fails, born, asked, faults, raced, stale>>
           /\ polls' \in [Polls -> SUBSET JobIds]
           /\ \A q \in Polls : \A j \in polls'[q] : j \in polls[q] \/ jobs[j] # None
  BY DEF Poll, lists, TypeOK, Queued

LEMMA DeliverState ==
    ASSUME TypeOK, NEW p \in Polls, Deliver(p)
    PROVE  /\ UNCHANGED <<chat, jobs, feedback, req, fails, born, asked, faults, raced>>
           /\ polls' \in [Polls -> SUBSET JobIds]
           /\ \A q \in Polls : polls'[q] \subseteq polls[q]
           /\ work' \in [JobIds -> Works] /\ stale' \in BOOLEAN
           /\ \A j \in JobIds :
                \/ work'[j] = work[j]
                \/ /\ work[j] = "idle" /\ work'[j] = "thinking" /\ j \in polls[p]
                   /\ Queued(j) \/ stale'
           /\ stale => stale'
<1>1. stale' \in BOOLEAN
  BY DEF Deliver
<1>2. QED
  BY <1>1 DEF Deliver, lists, TypeOK, Startable, Works

LEMMA ThinkFailsState ==
    ASSUME TypeOK, NEW j \in JobIds, ThinkFails(j)
    PROVE  /\ UNCHANGED <<chat, jobs, feedback, req, polls, born, asked, faults, raced, stale>>
           /\ work' \in [JobIds -> Works] /\ fails' \in [JobIds -> Nat]
           /\ work[j] = "thinking" /\ work'[j] \in {"idle", "sorry"}
           /\ \A i \in JobIds : i # j => work'[i] = work[i]
  BY FailFacts DEF ThinkFails, lists

\* handleFeedbackAnswer() goes on with the question, or ends without it.
LEMMA LookupState ==
    ASSUME ShapeInv, NEW s \in Slots, Lookup(s)
    PROVE  /\ UNCHANGED <<chat, jobs, feedback, polls, work, born, asked, faults, raced, stale>>
           /\ fails' \in [JobIds -> Nat]
           /\ req' \in [Slots -> Requests] /\ \A t \in Slots : t # s => req'[t] = req[t]
           /\ req[s] # NoRequest /\ req[s].op = "answer" /\ At(req[s]) = "lookup"
           /\ \/ req'[s] = NoRequest /\ feedback[req[s].fb] = None
              \/ /\ Carries(req'[s], req[s]) /\ At(req'[s]) = "feedback"
                 /\ req'[s].job = req[s].job /\ req'[s].item = Question(req[s].msg, TRUE)
                 /\ feedback[req[s].fb] # None
<1> DEFINE r == req[s]
<1>1. /\ TypeOK /\ Formed(r) /\ r \in Requests
  BY DEF ShapeInv, TypeOK
<1>2. /\ r # NoRequest /\ Head(r.todo) = "lookup" /\ At(r) = "lookup"
      /\ UNCHANGED <<chat, jobs, feedback, polls, born, asked, faults, raced, stale>>
  BY DEF Lookup, lists, Stage, Free, At
<1>3. r.op \in Ops /\ r.todo \in Todos[r.op] /\ r.msg \in Messages
  BY <1>1, <1>2 DEF Formed
<1>4. r.op = "answer" /\ Len(r.todo) # 1 /\ Head(Tail(r.todo)) = "feedback"
  BY <1>2, <1>3, StageFacts DEF Ops
<1>5. r.by = None /\ r.job \in JobIds
  BY <1>1, <1>2, <1>4 DEF Formed
<1>6. Tells(s, {"idle", "sorry"}) => \A j \in JobIds : work'[j] = work[j]
  BY <1>5, NoneAssumption DEF Tells, JobIds
<1>7. CASE feedback[r.fb] = None
  <2>1. End(s, FALSE)
    BY <1>7 DEF Lookup
  <2>2. /\ req' \in [Slots -> Requests] /\ \A t \in Slots : t # s => req'[t] = req[t]
        /\ work' \in [JobIds -> Works] /\ fails' \in [JobIds -> Nat]
        /\ req'[s] = NoRequest /\ Tells(s, {"idle", "sorry"})
    BY <1>1, <2>1, EndFacts
  <2>3. work' = work
    BY <1>1, <1>6, <2>2 DEF TypeOK
  <2>4. QED
    BY <1>2, <1>4, <1>7, <2>2, <2>3
<1>8. CASE feedback[r.fb] # None
  <2>1. Advance(s, r.job, Question(r.msg, TRUE))
    BY <1>8 DEF Lookup
  <2>2. Question(r.msg, TRUE) \in Items /\ r.job \in JobIds \union {None}
    BY <1>3, <1>5, ItemFacts
  <2>3. /\ req' \in [Slots -> Requests] /\ \A t \in Slots : t # s => req'[t] = req[t]
        /\ fails' \in [JobIds -> Nat] /\ UNCHANGED work
        /\ Carries(req'[s], r) /\ At(req'[s]) = "feedback"
        /\ req'[s].job = r.job /\ req'[s].item = Question(r.msg, TRUE)
    BY <1>1, <1>2, <1>4, <2>1, <2>2, AdvanceFacts
  <2>4. QED
    BY <1>2, <1>4, <1>8, <2>3
<1>9. QED
  BY <1>7, <1>8

\* The search ends the request, or finds the job it goes on with.
LEMMA FindState ==
    ASSUME ShapeInv, NEW s \in Slots, Find(s)
    PROVE  /\ UNCHANGED <<chat, jobs, feedback, polls, born, asked, faults, raced, stale>>
           /\ work' \in [JobIds -> Works] /\ fails' \in [JobIds -> Nat]
           /\ req' \in [Slots -> Requests] /\ \A t \in Slots : t # s => req'[t] = req[t]
           /\ req[s] # NoRequest /\ req[s].op \in {"reply", "escalate", "answer"}
           /\ At(req[s]) = "find"
           /\ \/ /\ req'[s] = NoRequest /\ Tells(s, {"idle", "sorry"})
                 /\ req[s].op = "reply" => FirstOpen(req[s].msg) = {} /\ Tells(s, {"idle"})
                 /\ req[s].op # "reply" => First(OfMessage(req[s].msg)) = {}
              \/ /\ Carries(req'[s], req[s]) /\ At(req'[s]) = "job" /\ req'[s].job \in JobIds
                 /\ req'[s].item = Job(req[s].msg, Outcome[req[s].op])
                 /\ req[s].op = "reply" => req'[s].job \in FirstOpen(req[s].msg)
                 /\ req[s].op = "escalate" => req'[s].job \in First(OfMessage(req[s].msg))
                 /\ req[s].op = "answer" => req'[s].job = req[s].job
                 /\ UNCHANGED <<work, fails>>
<1> DEFINE r == req[s]
           found == IF r.op = "reply" THEN FirstOpen(r.msg) ELSE First(OfMessage(r.msg))
<1>1. /\ TypeOK /\ Formed(r) /\ r \in Requests
  BY DEF ShapeInv, TypeOK
<1>2. /\ r # NoRequest /\ Head(r.todo) = "find" /\ At(r) = "find"
      /\ UNCHANGED <<chat, jobs, feedback, polls, born, asked, faults, raced, stale>>
  BY DEF Find, lists, Stage, Free, At
<1>3. r.op \in Ops /\ r.todo \in Todos[r.op] /\ r.msg \in Messages
  BY <1>1, <1>2 DEF Formed
<1>4. r.op \in {"reply", "escalate", "answer"} /\ Len(r.todo) # 1 /\ Head(Tail(r.todo)) = "job"
  BY <1>2, <1>3, StageFacts DEF Ops
<1>5. CASE found = {} /\ End(s, r.op # "escalate")
  <2>1. /\ req' \in [Slots -> Requests] /\ \A t \in Slots : t # s => req'[t] = req[t]
        /\ work' \in [JobIds -> Works] /\ fails' \in [JobIds -> Nat]
        /\ req'[s] = NoRequest /\ Tells(s, {"idle", "sorry"})
        /\ r.op # "escalate" => Tells(s, {"idle"})
    BY <1>1, <1>5, EndFacts
  <2>2. QED
    BY <1>2, <1>4, <1>5, <2>1
<1>6. ASSUME NEW j \in found,
             CASE r.op = "reply"    -> Advance(s, j, Job(jobs[j].msg, "done"))
               [] r.op = "escalate" -> Advance(s, j, Job(jobs[j].msg, "escalated_to_computer"))
               [] r.op = "answer"   -> Advance(s, r.job, Job(r.msg, "queued"))
      PROVE  /\ req' \in [Slots -> Requests] /\ \A t \in Slots : t # s => req'[t] = req[t]
             /\ work' \in [JobIds -> Works] /\ fails' \in [JobIds -> Nat]
             /\ Carries(req'[s], r) /\ At(req'[s]) = "job" /\ req'[s].job \in JobIds
             /\ req'[s].item = Job(r.msg, Outcome[r.op])
             /\ r.op = "reply" => req'[s].job \in FirstOpen(r.msg)
             /\ r.op = "escalate" => req'[s].job \in First(OfMessage(r.msg))
             /\ r.op = "answer" => req'[s].job = r.job
             /\ UNCHANGED <<work, fails>>
  <2>1. j \in JobIds /\ jobs[j].msg = r.msg
    BY <1>6 DEF FirstOpen, First, OfMessage
  <2>2. /\ Outcome["reply"] = "done" /\ Outcome["escalate"] = "escalated_to_computer"
        /\ Outcome["answer"] = "queued"
    BY DEF Outcome
  <2>3. PICK k \in JobIds : /\ Advance(s, k, Job(r.msg, Outcome[r.op]))
                            /\ r.op = "reply" => k = j
                            /\ r.op = "escalate" => k = j
                            /\ r.op = "answer" => k = r.job
    <3>1. CASE r.op = "reply"
      BY <1>6, <2>1, <2>2, <3>1
    <3>2. CASE r.op = "escalate"
      BY <1>6, <2>1, <2>2, <3>2
    <3>3. CASE r.op = "answer"
      BY <1>1, <1>2, <1>6, <2>2, <3>3 DEF Formed
    <3>4. QED
      BY <1>4, <3>1, <3>2, <3>3
  <2>4. Job(r.msg, Outcome[r.op]) \in Items /\ k \in JobIds \union {None}
    BY <1>3, <1>4, <2>2, ItemFacts
  <2>5. /\ req' \in [Slots -> Requests] /\ \A t \in Slots : t # s => req'[t] = req[t]
        /\ work' \in [JobIds -> Works] /\ fails' \in [JobIds -> Nat]
        /\ Carries(req'[s], r) /\ At(req'[s]) = "job"
        /\ req'[s].job = k /\ req'[s].item = Job(r.msg, Outcome[r.op])
        /\ UNCHANGED <<work, fails>>
    BY <1>1, <1>2, <1>4, <2>3, <2>4, AdvanceFacts
  <2>6. QED
    BY <1>4, <1>6, <2>3, <2>5
<1>7. (found = {} /\ End(s, r.op # "escalate")) \/
      \E j \in found :
        CASE r.op = "reply"    -> Advance(s, j, Job(jobs[j].msg, "done"))
          [] r.op = "escalate" -> Advance(s, j, Job(jobs[j].msg, "escalated_to_computer"))
          [] r.op = "answer"   -> Advance(s, r.job, Job(r.msg, "queued"))
  BY DEF Find
<1> HIDE DEF found
<1>8. QED
  BY <1>2, <1>4, <1>5, <1>6, <1>7

\* The get of a list.
LEMMA ReadState ==
    ASSUME ShapeInv, NEW s \in Slots, Read(s)
    PROVE  /\ UNCHANGED <<chat, jobs, feedback, polls, work, fails, born, asked, faults,
                          raced, stale>>
           /\ req' \in [Slots -> Requests] /\ \A t \in Slots : t # s => req'[t] = req[t]
           /\ req[s] # NoRequest /\ req'[s] # NoRequest /\ req[s].copy = None
           /\ req'[s].op = req[s].op /\ req'[s].todo = req[s].todo
           /\ At(req'[s]) = At(req[s])
           /\ req'[s].msg = req[s].msg /\ req'[s].by = req[s].by /\ req'[s].job = req[s].job
           /\ req'[s].fb = req[s].fb /\ req'[s].item = req[s].item
           /\ \/ At(req[s]) = "append" /\ req'[s].copy = chat
              \/ At(req[s]) = "job" /\ req'[s].copy = jobs
              \/ At(req[s]) = "feedback" /\ req'[s].copy = feedback
<1> DEFINE r == req[s]
           q == [r EXCEPT !.copy = Current(s)]
<1>1. /\ TypeOK /\ Formed(r) /\ r \in Requests
  BY DEF ShapeInv, TypeOK
<1>2. /\ Stage(s) \in {"append", "job", "feedback"} /\ r.copy = None
      /\ req' = [req EXCEPT ![s] = q]
      /\ UNCHANGED <<chat, jobs, feedback, polls, work, fails, born, asked, faults, raced, stale>>
  BY DEF Read, lists, bridge
<1>3. r # NoRequest /\ Stage(s) = At(r) /\ At(r) = Head(r.todo)
  BY <1>2 DEF Stage, Free, At
<1>4. \/ At(r) = "append" /\ Current(s) = chat
      \/ At(r) = "job" /\ Current(s) = jobs
      \/ At(r) = "feedback" /\ Current(s) = feedback
  BY <1>2, <1>3 DEF Current
<1>5. Current(s) \in Copies
  BY <1>1, <1>4 DEF TypeOK, Copies
<1>6. /\ q \in Requests /\ q.op = r.op /\ q.todo = r.todo /\ q.msg = r.msg
      /\ q.by = r.by /\ q.job = r.job /\ q.fb = r.fb /\ q.item = r.item /\ q.copy = Current(s)
  BY <1>1, <1>5 DEF Requests
<1>7. r.op \in Ops
  BY <1>1, <1>3 DEF Formed
<1>8. q # NoRequest
  BY <1>6, <1>7, NoRequestFacts DEF Ops
<1>9. At(q) = At(r)
  BY <1>3, <1>6, <1>8 DEF At
<1> HIDE DEF q
<1>10. /\ req' \in [Slots -> Requests] /\ req'[s] = q
       /\ \A t \in Slots : t # s => req'[t] = req[t]
  BY <1>1, <1>2, <1>6 DEF TypeOK
<1>11. QED
  BY <1>2, <1>3, <1>4, <1>6, <1>8, <1>9, <1>10

\* The set of a list, and what the request goes on with.
LEMMA WriteState ==
    ASSUME ShapeInv, NEW s \in Slots, Write(s)
    PROVE  /\ UNCHANGED <<polls, born, asked, faults, stale>> /\ raced' \in BOOLEAN
           /\ work' \in [JobIds -> Works] /\ fails' \in [JobIds -> Nat]
           /\ req' \in [Slots -> Requests] /\ \A t \in Slots : t # s => req'[t] = req[t]
           /\ req[s] # NoRequest /\ req[s].op \in Ops /\ req[s].msg \in Messages
           /\ req[s].copy # None
           /\ \/ /\ At(req[s]) = "append" /\ req[s].op \in {"post", "reply"}
                 /\ req[s].copy \in Chats
                 /\ chat' = Appended(req[s]) /\ UNCHANGED <<jobs, feedback, work, fails>>
                 /\ ~raced' => ~raced /\ req[s].copy = chat
                 /\ Carries(req'[s], req[s])
                 /\ At(req'[s]) = IF req[s].op = "post" THEN "job" ELSE "find"
                 /\ req'[s].job = req[s].job /\ req'[s].item = req[s].item
              \/ /\ At(req[s]) = "job" /\ req[s].copy \in JobLists /\ BornIn(req[s].copy, born)
                 /\ req[s].job \in JobIds /\ req[s].item = Job(req[s].msg, Outcome[req[s].op])
                 /\ jobs' = [req[s].copy EXCEPT ![req[s].job] = req[s].item]
                 /\ UNCHANGED <<chat, feedback>>
                 /\ ~raced' => ~raced /\ req[s].copy = jobs
                 /\ req[s].op = "escalate" =>
                      /\ Carries(req'[s], req[s]) /\ At(req'[s]) = "feedback"
                      /\ req'[s].job = req[s].job /\ req'[s].item = Question(req[s].msg, FALSE)
                      /\ UNCHANGED <<work, fails>>
                 /\ req[s].op # "escalate" => req'[s] = NoRequest /\ Tells(s, {"idle"})
              \/ /\ At(req[s]) = "feedback" /\ req[s].op \in {"escalate", "answer"}
                 /\ req[s].copy \in Feedbacks /\ req[s].fb \in FeedbackIds
                 /\ feedback' = [req[s].copy EXCEPT ![req[s].fb] = req[s].item]
                 /\ UNCHANGED <<chat, jobs>>
                 /\ ~raced' => ~raced /\ req[s].copy = feedback
                 /\ req[s].op = "escalate" =>
                      /\ req[s].item = Question(req[s].msg, FALSE)
                      /\ req'[s] = NoRequest /\ Tells(s, {"idle"})
                 /\ req[s].op = "answer" =>
                      /\ req[s].item = Question(req[s].msg, TRUE)
                      /\ Carries(req'[s], req[s]) /\ At(req'[s]) = "find"
                      /\ req'[s].job = req[s].job /\ UNCHANGED <<work, fails>>
<1> DEFINE r == req[s]
           item == IF r.op = "escalate" THEN Question(r.msg, FALSE) ELSE r.item
<1>1. /\ TypeOK /\ Formed(r) /\ Wellborn(r, born) /\ r \in Requests
  BY DEF ShapeInv, TypeOK
<1>2. /\ r.copy # None /\ Advance(s, r.job, item)
      /\ chat'     = IF Stage(s) = "append" THEN Appended(r) ELSE chat
      /\ jobs'     = IF Stage(s) = "job" THEN [r.copy EXCEPT ![r.job] = r.item] ELSE jobs
      /\ feedback' = IF Stage(s) = "feedback" THEN [r.copy EXCEPT ![r.fb] = r.item] ELSE feedback
      /\ UNCHANGED <<polls, born, asked, faults, stale>>
  BY DEF Write
<1>3. raced' \in BOOLEAN /\ (~raced' => ~raced /\ Current(s) = r.copy)
  BY DEF Write
<1>4. r # NoRequest
  BY <1>2, NoRequestFacts
<1>5. /\ Stage(s) = At(r) /\ At(r) = Head(r.todo)
      /\ r.op \in Ops /\ r.todo \in Todos[r.op] /\ r.msg \in Messages
  BY <1>1, <1>4 DEF Stage, Free, At, Formed
<1>6. r.job \in JobIds \union {None} /\ item \in Items
  BY <1>1, <1>5, ItemFacts DEF Requests
<1> HIDE DEF item
<1>7. /\ req' \in [Slots -> Requests] /\ \A t \in Slots : t # s => req'[t] = req[t]
      /\ work' \in [JobIds -> Works] /\ fails' \in [JobIds -> Nat]
      /\ Len(r.todo) = 1 => req'[s] = NoRequest /\ Tells(s, {"idle"})
      /\ Len(r.todo) # 1 =>
           /\ Carries(req'[s], r) /\ At(req'[s]) = Head(Tail(r.todo))
           /\ req'[s].job = r.job /\ req'[s].item = item
           /\ UNCHANGED <<work, fails>>
  BY <1>1, <1>2, <1>4, <1>6, AdvanceFacts
<1>8. CASE At(r) = "append" /\ r.copy \in Chats
  <2>1. r.op \in {"post", "reply"} /\ Len(r.todo) # 1
        /\ Head(Tail(r.todo)) = IF r.op = "post" THEN "job" ELSE "find"
    BY <1>5, <1>8, StageFacts DEF Ops
  <2>2. item = r.item
    BY <2>1 DEF item
  <2>3. Current(s) = chat
    BY <1>5, <1>8 DEF Current
  <2>4. QED
    BY <1>2, <1>3, <1>4, <1>5, <1>7, <1>8, <2>1, <2>2, <2>3
<1>9. CASE At(r) = "job" /\ r.copy \in JobLists
  <2>1. /\ r.op = "escalate" => Len(r.todo) # 1 /\ Head(Tail(r.todo)) = "feedback"
        /\ r.op # "escalate" => Len(r.todo) = 1
    BY <1>5, <1>9, StageFacts DEF Ops
  <2>2. r.op = "escalate" => item = Question(r.msg, FALSE)
    BY DEF item
  <2>3. Current(s) = jobs
    BY <1>5, <1>9 DEF Current
  <2>4. r.job \in JobIds /\ r.item = Job(r.msg, Outcome[r.op]) /\ BornIn(r.copy, born)
    BY <1>1, <1>2, <1>4, <1>9 DEF Formed, Wellborn
  <2>5. QED
    BY <1>2, <1>3, <1>4, <1>5, <1>7, <1>9, <2>1, <2>2, <2>3, <2>4
<1>10. CASE At(r) = "feedback" /\ r.copy \in Feedbacks
  <2>1. /\ r.op \in {"escalate", "answer"}
        /\ r.op = "escalate" => Len(r.todo) = 1
        /\ r.op = "answer" => Len(r.todo) # 1 /\ Head(Tail(r.todo)) = "find"
    BY <1>5, <1>10, StageFacts DEF Ops
  <2>2. Current(s) = feedback
    BY <1>5, <1>10 DEF Current
  <2>3. /\ r.fb \in FeedbackIds
        /\ r.op = "escalate" => r.item = Question(r.msg, FALSE)
        /\ r.op = "answer" => r.item = Question(r.msg, TRUE)
    BY <1>1, <1>4, <1>10, <2>1 DEF Formed
  <2>4. QED
    BY <1>2, <1>3, <1>4, <1>5, <1>7, <1>10, <2>1, <2>2, <2>3
<1>11. QED
  BY <1>1, <1>2, <1>4, <1>8, <1>9, <1>10 DEF Formed

\* The dashboard's requests: a new message, or the answer to a question.
LEMMA DashboardState ==
    ASSUME TypeOK, NEW s \in Slots, NEW j \in JobIds,
           \/ \E m \in Messages : Post(s, j, m)
           \/ \E f \in FeedbackIds : Answer(s, j, f)
    PROVE  /\ UNCHANGED <<chat, jobs, feedback, polls, work, fails, asked, faults, raced, stale>>
           /\ req' \in [Slots -> Requests] /\ \A t \in Slots : t # s => req'[t] = req[t]
           /\ req[s] = NoRequest /\ req'[s] # NoRequest
           /\ req'[s].op \in {"post", "answer"} /\ req'[s].todo \in Todos[req'[s].op]
           /\ At(req'[s]) = IF req'[s].op = "post" THEN "append" ELSE "lookup"
           /\ req'[s].msg \in Messages /\ req'[s].by = None /\ req'[s].job = j
           /\ req'[s].copy = None
           /\ req'[s].op = "post" =>
                req'[s].item = Job(req'[s].msg, "queued") /\ req'[s].msg \notin Posted
           /\ req'[s].op = "answer" =>
                /\ req'[s].fb \in FeedbackIds
                /\ feedback[req'[s].fb] # None /\ feedback[req'[s].fb].msg = req'[s].msg
           /\ born' \in [JobIds -> Births \union {None}]
           /\ born[j] = None /\ born'[j] # None /\ born'[j].msg = req'[s].msg
           /\ \A i \in JobIds : i # j => born'[i] = born[i]
<1>1. CASE \E m \in Messages : Post(s, j, m)
  <2>1. PICK m \in Messages : Post(s, j, m)
    BY <1>1
  <2>2. m \notin Posted /\ Creates(s, j, "post", m, None, Job(m, "queued"))
    BY <2>1 DEF Post
  <2>3. /\ Job(m, "queued") \in Items /\ None \in FeedbackIds \union {None}
        /\ "post" \in {"post", "answer"}
    BY ItemFacts
  <2>4. QED
    BY <2>2, <2>3, CreatesState
<1>2. CASE \E f \in FeedbackIds : Answer(s, j, f)
  <2>1. PICK f \in FeedbackIds : Answer(s, j, f)
    BY <1>2
  <2>2. feedback[f] # None /\ Creates(s, j, "answer", feedback[f].msg, f, None)
    BY <2>1 DEF Answer
  <2>3. feedback[f].msg \in Messages
    BY <2>2 DEF TypeOK, Feedbacks, Questions
  <2>4. None \in Items /\ f \in FeedbackIds \union {None} /\ "answer" \in {"post", "answer"}
    BY DEF Items
  <2>5. QED
    BY <2>2, <2>3, <2>4, CreatesState
<1>3. QED
  BY <1>1, <1>2

\* The bridge's requests: a reply, an escalation or an excuse.
LEMMA BridgeState ==
    ASSUME ShapeInv, NEW s \in Slots, NEW j \in JobIds,
           Reply(s, j) \/ Escalate(s, j) \/ Excuse(s, j)
    PROVE  /\ UNCHANGED <<chat, jobs, feedback, polls, fails, born, faults, raced, stale>>
           /\ req' \in [Slots -> Requests] /\ \A t \in Slots : t # s => req'[t] = req[t]
           /\ born[j] # None /\ born[j].msg \in Messages
           /\ req[s] = NoRequest /\ req'[s] # NoRequest
           /\ req'[s].op \in {"reply", "escalate"} /\ req'[s].todo \in Todos[req'[s].op]
           /\ At(req'[s]) = IF req'[s].op = "reply" THEN "append" ELSE "find"
           /\ req'[s].msg = born[j].msg /\ req'[s].by = j
           /\ req'[s].job = None /\ req'[s].copy = None
           /\ req'[s].op = "reply" => asked' = asked
           /\ req'[s].op = "escalate" =>
                /\ req'[s].fb \in FeedbackIds
                /\ \/ req'[s].fb = asked + 1 /\ asked' = asked + 1
                   \/ /\ feedback[req'[s].fb] # None /\ feedback[req'[s].fb].msg = born[j].msg
                      /\ asked' = asked
           /\ work' \in [JobIds -> Works]
           /\ work[j] \in {"thinking", "sorry"} /\ work'[j] \in {"posting", "excusing"}
           /\ \A i \in JobIds : i # j => work'[i] = work[i]
<1>0. /\ "reply" \in {"reply", "escalate"} /\ "escalate" \in {"reply", "escalate"}
      /\ "posting" \in {"posting", "excusing"} /\ "excusing" \in {"posting", "excusing"}
      /\ None \in FeedbackIds \union {None}
  OBVIOUS
<1>1. CASE Reply(s, j)
  <2>1. work[j] = "thinking" /\ Posts(s, j, "reply", None, "posting") /\ asked' = asked
    BY <1>1 DEF Reply
  <2>2. QED
    BY <1>0, <2>1, PostsState
<1>2. CASE Excuse(s, j)
  <2>1. work[j] = "sorry" /\ Posts(s, j, "reply", None, "excusing") /\ asked' = asked
    BY <1>2 DEF Excuse
  <2>2. QED
    BY <1>0, <2>1, PostsState
<1>3. CASE Escalate(s, j)
  <2>1. PICK f \in FeedbackIds :
          /\ work[j] = "thinking" /\ Posts(s, j, "escalate", f, "posting")
          /\ \/ f = asked + 1 /\ asked' = asked + 1
             \/ feedback[f] # None /\ feedback[f].msg = born[j].msg /\ asked' = asked
    BY <1>3 DEF Escalate
  <2>2. f \in FeedbackIds \union {None}
    OBVIOUS
  <2>3. QED
    BY <1>0, <2>1, <2>2, PostsState
<1>4. QED
  BY <1>1, <1>2, <1>3

\* The bridge has forgotten that it awaits the request.
LEMMA ForgottenFacts ==
    ASSUME NEW r \in Requests, Formed(r)
    PROVE  LET q == [r EXCEPT !.by = None] IN
           /\ q \in Requests /\ (r = NoRequest <=> q = NoRequest) /\ At(q) = At(r)
           /\ q.op = r.op /\ q.todo = r.todo /\ q.msg = r.msg /\ q.by = None
           /\ q.job = r.job /\ q.fb = r.fb /\ q.item = r.item /\ q.copy = r.copy
<1> DEFINE q == [r EXCEPT !.by = None]
<1>1. /\ q \in Requests
      /\ q.op = r.op /\ q.todo = r.todo /\ q.msg = r.msg /\ q.by = None
      /\ q.job = r.job /\ q.fb = r.fb /\ q.item = r.item /\ q.copy = r.copy
  BY DEF Requests
<1>2. r = NoRequest => q = NoRequest
  BY DEF NoRequest
<1>3. r # NoRequest => q # NoRequest
  BY <1>1, NoRequestFacts DEF Formed, Ops
<1>4. QED
  BY <1>1, <1>2, <1>3 DEF At

AnyFault ==
    \/ \E s \in Slots : Die(s) \/ Disconnect(s)
    \/ \E p \in Polls : Skip(p)
    \/ \E j \in JobIds : Hold(j)
    \/ Restart

\* No fault changes a list; it ends a request, or the bridge forgets it.
LEMMA FaultState ==
    ASSUME ShapeInv, AnyFault
    PROVE  /\ UNCHANGED <<chat, jobs, feedback, born, asked, raced, stale>>
           /\ faults' = faults + 1
           /\ req' \in [Slots -> Requests]
           /\ \A t \in Slots : \/ req'[t] = req[t] \/ req'[t] = NoRequest
                               \/ req'[t] = [req[t] EXCEPT !.by = None]
           /\ polls' \in [Polls -> SUBSET JobIds]
           /\ \A q \in Polls : polls'[q] \subseteq polls[q]
           /\ work' \in [JobIds -> Works] /\ fails' \in [JobIds -> Nat]
           /\ \A j \in JobIds : work'[j] # "idle" => born[j] # None
<1>1. TypeOK /\ \A j \in JobIds : work[j] # "idle" => born[j] # None
  BY DEF ShapeInv
<1>2. ASSUME NEW s \in Slots
      PROVE  /\ Formed(req[s]) /\ Wellborn(req[s], born) /\ req[s] \in Requests
             /\ req[s].by \in JobIds \union {None}
             /\ [req[s] EXCEPT !.by = None] \in Requests
             /\ Tells(s, {"idle", "sorry"}) =>
                  \A j \in JobIds : work'[j] # "idle" => born[j] # None
  <2>1. /\ Formed(req[s]) /\ Wellborn(req[s], born) /\ req[s] \in Requests
        /\ req[s].by \in JobIds \union {None}
    BY DEF ShapeInv, TypeOK, Requests
  <2>2. [req[s] EXCEPT !.by = None] \in Requests
    BY <2>1, ForgottenFacts
  <2>3. ASSUME Tells(s, {"idle", "sorry"}), NEW j \in JobIds, work'[j] # "idle"
        PROVE  born[j] # None
    <3>1. CASE req[s].by = j
      BY <2>1, <3>1, NoneAssumption DEF Wellborn, BornAs, JobIds
    <3>2. CASE req[s].by # j
      BY <1>1, <2>3, <3>2 DEF Tells
    <3>3. QED
      BY <3>1, <3>2
  <2>4. QED
    BY <2>1, <2>2, <2>3
<1>3. ASSUME NEW s \in Slots, Die(s)
      PROVE  /\ UNCHANGED <<chat, jobs, feedback, born, asked, raced, stale, polls>>
             /\ faults' = faults + 1
             /\ req' \in [Slots -> Requests]
             /\ \A t \in Slots : req'[t] = req[t] \/ req'[t] = NoRequest
             /\ work' \in [JobIds -> Works] /\ fails' \in [JobIds -> Nat]
             /\ \A j \in JobIds : work'[j] # "idle" => born[j] # None
  <2>1. /\ UNCHANGED <<chat, jobs, feedback, born, asked, raced, stale, polls>>
        /\ faults' = faults + 1 /\ End(s, FALSE)
    BY <1>3 DEF Die, Fault, lists
  <2>2. /\ req' \in [Slots -> Requests] /\ \A t \in Slots : t # s => req'[t] = req[t]
        /\ work' \in [JobIds -> Works] /\ fails' \in [JobIds -> Nat]
        /\ req'[s] = NoRequest /\ Tells(s, {"idle", "sorry"})
    BY <1>1, <2>1, EndFacts
  <2>3. QED
    BY <1>2, <2>1, <2>2
<1>4. ASSUME NEW s \in Slots, Disconnect(s)
      PROVE  /\ UNCHANGED <<chat, jobs, feedback, born, asked, raced, stale, polls>>
             /\ faults' = faults + 1
             /\ req' \in [Slots -> Requests]
             /\ \A t \in Slots : req'[t] = req[t] \/ req'[t] = [req[t] EXCEPT !.by = None]
             /\ work' \in [JobIds -> Works] /\ fails' \in [JobIds -> Nat]
             /\ \A j \in JobIds : work'[j] # "idle" => born[j] # None
  <2>1. /\ UNCHANGED <<chat, jobs, feedback, born, asked, raced, stale, polls>>
        /\ faults' = faults + 1 /\ req[s].by # None /\ Fail(req[s].by)
        /\ req' = [req EXCEPT ![s] = [req[s] EXCEPT !.by = None]]
    BY <1>4 DEF Disconnect, Fault, lists
  <2>2. req[s].by \in JobIds
    BY <1>2, <2>1
  <2>3. /\ work' \in [JobIds -> Works] /\ fails' \in [JobIds -> Nat]
        /\ Tells(s, {"idle", "sorry"})
    BY <1>1, <2>1, <2>2, FailFacts DEF Tells
  <2>4. [req[s] EXCEPT !.by = None] \in Requests
    BY <1>2
  <2>5. QED
    BY <1>1, <1>2, <2>1, <2>3, <2>4 DEF TypeOK
<1>5. ASSUME NEW p \in Polls, Skip(p)
      PROVE  /\ UNCHANGED <<chat, jobs, feedback, born, asked, raced, stale, req, work, fails>>
             /\ faults' = faults + 1
             /\ polls' \in [Polls -> SUBSET JobIds]
             /\ \A q \in Polls : polls'[q] \subseteq polls[q]
  BY <1>1, <1>5 DEF Skip, Fault, lists, TypeOK
<1>6. ASSUME NEW j \in JobIds, Hold(j)
      PROVE  /\ UNCHANGED <<chat, jobs, feedback, born, asked, raced, stale, req, polls, fails>>
             /\ faults' = faults + 1
             /\ work' \in [JobIds -> Works]
             /\ \A i \in JobIds : work'[i] # "idle" => work[i] # "idle"
  BY <1>1, <1>6 DEF Hold, Fault, lists, TypeOK, Works
<1>7. ASSUME Restart
      PROVE  /\ UNCHANGED <<chat, jobs, feedback, born, asked, raced, stale>>
             /\ faults' = faults + 1
             /\ req' \in [Slots -> Requests]
             /\ \A t \in Slots : req'[t] = [req[t] EXCEPT !.by = None]
             /\ polls' \in [Polls -> SUBSET JobIds]
             /\ \A q \in Polls : polls'[q] \subseteq polls[q]
             /\ work' \in [JobIds -> Works] /\ fails' \in [JobIds -> Nat]
             /\ \A j \in JobIds : work'[j] = "idle"
  BY <1>2, <1>7 DEF Restart, Fault, lists, Works
<1>8. QED
  BY <1>1, <1>3, <1>4, <1>5, <1>6, <1>7 DEF AnyFault, TypeOK

-----------------------------------------------------------------------------
(* Every request is well formed *)

LEMMA YoungerFacts ==
    ASSUME NEW b, NEW c, \A i \in JobIds : b[i] # None => c[i] = b[i],
           NEW r \in Requests, Wellborn(r, b)
    PROVE  Wellborn(r, c)
  BY DEF Wellborn, BornIn, BornAs, Requests

\* What is left of a request that goes on is well formed.
LEMMA CarriedFacts ==
    ASSUME NEW r, NEW q, Formed(r), r # NoRequest, Carries(q, r), Wellborn(r, born),
           q.job = r.job \/ (q.job \in JobIds /\ BornAs(q.job, q.msg, born)),
           q.job = r.job \/ r.op \notin {"post", "answer"},
           r.op = "post" => q.item = r.item,
           At(q) \in {"job", "feedback"} => q.job \in JobIds,
           At(q) = "job" => q.item = Job(q.msg, Outcome[q.op]),
           At(q) = "feedback" /\ q.op = "answer" => q.item = Question(q.msg, TRUE),
           At(q) = "feedback" /\ q.op = "escalate" => q.item = Question(q.msg, FALSE)
    PROVE  Formed(q) /\ Wellborn(q, born)
  BY DEF Formed, Carries, Wellborn

LEMMA NoRequestFits ==
    Formed(NoRequest) /\ At(NoRequest) = "none" /\ \A b : Wellborn(NoRequest, b)
<1>1. Formed(NoRequest) /\ At(NoRequest) = "none"
  BY DEF Formed, At
<1>2. NoRequest.job = None /\ NoRequest.by = None
  BY NoRequestFacts
<1>3. QED
  BY <1>1, <1>2 DEF Wellborn, BornAs

LEMMA OutcomeFacts ==
    /\ Outcome["post"] = "queued" /\ Outcome["reply"] = "done"
    /\ Outcome["escalate"] = "escalated_to_computer" /\ Outcome["answer"] = "queued"
    /\ \A op \in Ops : Outcome[op] \in {"queued", "done", "escalated_to_computer"}
  BY DEF Outcome, Ops

THEOREM InitShape == Init => ShapeInv
<1> SUFFICES ASSUME Init PROVE ShapeInv
  OBVIOUS
<1>1. TypeOK
  <2>1. [posted |-> FALSE, replies |-> 0] \in [posted : BOOLEAN, replies : 0..2]
    OBVIOUS
  <2>2. chat \in Chats
    BY <2>1, Zenon DEF Init, Chats
  <2>3. raced \in BOOLEAN /\ stale \in BOOLEAN
    BY DEF Init
  <2>4. QED
    BY <2>2, <2>3, NoRequestFacts DEF Init, TypeOK, JobLists, Feedbacks, Works
<1>2. \A s \in Slots : Formed(req[s]) /\ Wellborn(req[s], born)
  BY NoRequestFacts DEF Init, Formed, Wellborn, BornAs
<1>3. QED
  BY <1>1, <1>2 DEF Init, ShapeInv, BornIn


THEOREM StepShape == ShapeInv /\ [Next]_vars => ShapeInv'
<1> SUFFICES ASSUME ShapeInv, [Next]_vars PROVE ShapeInv'
  OBVIOUS
<1>1. /\ TypeOK /\ BornIn(jobs, born)
      /\ \A s \in Slots : req[s] \in Requests /\ Formed(req[s]) /\ Wellborn(req[s], born)
      /\ \A p \in Polls : \A j \in polls[p] : born[j] # None
      /\ \A j \in JobIds : work[j] # "idle" => born[j] # None
      /\ \A s \in Slots : Tells(s, {"idle", "sorry"}) \/ Tells(s, {"idle"}) =>
           \A j \in JobIds : work'[j] # "idle" => born[j] # None
  <2>1. /\ TypeOK /\ BornIn(jobs, born)
        /\ \A s \in Slots : req[s] \in Requests /\ Formed(req[s]) /\ Wellborn(req[s], born)
        /\ \A p \in Polls : \A j \in polls[p] : born[j] # None
        /\ \A j \in JobIds : work[j] # "idle" => born[j] # None
    BY DEF ShapeInv, TypeOK
  <2>2. ASSUME NEW s \in Slots, Tells(s, {"idle", "sorry"}) \/ Tells(s, {"idle"}),
               NEW j \in JobIds, work'[j] # "idle"
        PROVE  born[j] # None
    <3>1. CASE req[s].by = j
      BY <2>1, <3>1, NoneAssumption DEF Wellborn, BornAs, JobIds
    <3>2. CASE req[s].by # j
      BY <2>1, <2>2, <3>2 DEF Tells
    <3>3. QED
      BY <3>1, <3>2
  <2>3. QED
    BY <2>1, <2>2
<1> DEFINE Fits(r) == Formed(r) /\ Wellborn(r, born)
<1>2. ASSUME NEW s \in Slots, NEW j \in JobIds,
             \/ \E m \in Messages : Post(s, j, m)
             \/ \E f \in FeedbackIds : Answer(s, j, f)
      PROVE  ShapeInv'
  <2>1. TypeOK'
    BY <1>1, <1>2, DashboardState DEF TypeOK
  <2>2. /\ \A i \in JobIds : born[i] # None => born'[i] = born[i]
        /\ req'[s] # NoRequest /\ req'[s].op \in {"post", "answer"}
        /\ req'[s].todo \in Todos[req'[s].op]
        /\ At(req'[s]) = IF req'[s].op = "post" THEN "append" ELSE "lookup"
        /\ req'[s].msg \in Messages /\ req'[s].by = None /\ req'[s].job = j
        /\ req'[s].copy = None
        /\ req'[s].op = "post" => req'[s].item = Job(req'[s].msg, "queued")
        /\ req'[s].op = "answer" => req'[s].fb \in FeedbackIds
        /\ born'[j] # None /\ born'[j].msg = req'[s].msg
        /\ \A t \in Slots : t # s => req'[t] = req[t]
        /\ UNCHANGED <<jobs, polls, work>>
    BY <1>1, <1>2, DashboardState
  <2>3. Formed(req'[s]) /\ Wellborn(req'[s], born')
    BY <2>2 DEF Formed, Wellborn, BornAs, Ops
  <2>4. \A t \in Slots : t # s => Formed(req'[t]) /\ Wellborn(req'[t], born')
    BY <1>1, <2>2, YoungerFacts
  <2>5. BornIn(jobs, born')
    BY <1>1, <2>2 DEF BornIn
  <2>6. QED
    BY <1>1, <2>1, <2>2, <2>3, <2>4, <2>5 DEF ShapeInv, TypeOK
<1>3. ASSUME NEW s \in Slots, NEW j \in JobIds, Reply(s, j) \/ Escalate(s, j) \/ Excuse(s, j)
      PROVE  ShapeInv'
  <2>1. /\ UNCHANGED <<chat, jobs, feedback, polls, fails, born, faults, raced, stale>>
        /\ req' \in [Slots -> Requests] /\ \A t \in Slots : t # s => req'[t] = req[t]
        /\ born[j] # None /\ born[j].msg \in Messages
        /\ req'[s] # NoRequest
        /\ req'[s].op \in {"reply", "escalate"} /\ req'[s].todo \in Todos[req'[s].op]
        /\ At(req'[s]) = IF req'[s].op = "reply" THEN "append" ELSE "find"
        /\ req'[s].msg = born[j].msg /\ req'[s].by = j
        /\ req'[s].job = None /\ req'[s].copy = None
        /\ req'[s].op = "escalate" => req'[s].fb \in FeedbackIds
        /\ work' \in [JobIds -> Works]
        /\ \A i \in JobIds : i # j => work'[i] = work[i]
    BY <1>3, BridgeState
  <2>2. asked' \in Nat
    BY <1>1, <1>3, BridgeState DEF TypeOK
  <2>3. TypeOK'
    BY <1>1, <2>1, <2>2 DEF TypeOK
  <2>4. Fits(req'[s])
    BY <2>1 DEF Formed, Wellborn, BornAs, Ops
  <2>5. QED
    BY <1>1, <2>1, <2>3, <2>4 DEF ShapeInv
<1>4. ASSUME NEW p \in Polls, Poll(p)
      PROVE  ShapeInv'
  BY <1>1, <1>4, PollState DEF ShapeInv, TypeOK, BornIn
<1>5. ASSUME NEW p \in Polls, Deliver(p)
      PROVE  ShapeInv'
  BY <1>1, <1>5, DeliverState DEF ShapeInv, TypeOK
<1>6. ASSUME NEW j \in JobIds, ThinkFails(j)
      PROVE  ShapeInv'
  BY <1>1, <1>6, ThinkFailsState DEF ShapeInv, TypeOK
<1>7. ASSUME NEW s \in Slots, Lookup(s)
      PROVE  ShapeInv'
  <2>1. TypeOK'
    BY <1>1, <1>7, LookupState DEF TypeOK
  <2>2. /\ UNCHANGED <<jobs, born, polls, work>> /\ \A t \in Slots : t # s => req'[t] = req[t]
        /\ req[s] # NoRequest /\ req[s].op = "answer"
    BY <1>7, LookupState
  <2>3. CASE req'[s] = NoRequest
    BY <1>1, <2>1, <2>2, <2>3, NoRequestFits DEF ShapeInv
  <2>4. CASE req'[s] # NoRequest
    <3>1. /\ Carries(req'[s], req[s]) /\ At(req'[s]) = "feedback"
          /\ req'[s].job = req[s].job /\ req'[s].item = Question(req'[s].msg, TRUE)
          /\ req'[s].op = "answer"
      BY <1>7, <2>4, LookupState DEF Carries
    <3>a. req[s].job \in JobIds
      BY <1>1, <2>2 DEF Formed
    <3>2. Fits(req'[s])
      BY <1>1, <2>2, <3>1, <3>a, CarriedFacts
    <3>3. QED
      BY <1>1, <2>1, <2>2, <3>2 DEF ShapeInv
  <2>5. QED
    BY <2>3, <2>4
<1>8. ASSUME NEW s \in Slots, Find(s)
      PROVE  ShapeInv'
  <2>1. TypeOK'
    BY <1>1, <1>8, FindState DEF TypeOK
  <2>2. /\ UNCHANGED <<jobs, born, polls>> /\ \A t \in Slots : t # s => req'[t] = req[t]
        /\ req[s] # NoRequest /\ req[s].op \in {"reply", "escalate", "answer"}
        /\ (Tells(s, {"idle", "sorry"}) \/ UNCHANGED work)
    BY <1>8, FindState
  <2>3. CASE req'[s] = NoRequest
    BY <1>1, <2>1, <2>2, <2>3, NoRequestFits DEF ShapeInv
  <2>4. CASE req'[s] # NoRequest
    <3>1. /\ Carries(req'[s], req[s]) /\ At(req'[s]) = "job" /\ req'[s].job \in JobIds
          /\ req'[s].item = Job(req[s].msg, Outcome[req[s].op])
          /\ req[s].op = "reply" => req'[s].job \in FirstOpen(req[s].msg)
          /\ req[s].op = "escalate" => req'[s].job \in First(OfMessage(req[s].msg))
          /\ req[s].op = "answer" => req'[s].job = req[s].job
      BY <1>8, <2>4, FindState
    <3>2. req'[s].op = req[s].op /\ req'[s].msg = req[s].msg
      BY <3>1 DEF Carries
    <3>3. req[s].op \in {"reply", "escalate"} => BornAs(req'[s].job, req'[s].msg, born)
      BY <1>1, <3>1, <3>2 DEF FirstOpen, First, OfMessage, BornIn, BornAs
    <3>4. Fits(req'[s])
      BY <1>1, <2>2, <3>1, <3>2, <3>3, CarriedFacts
    <3>5. QED
      BY <1>1, <2>1, <2>2, <3>4 DEF ShapeInv
  <2>5. QED
    BY <2>3, <2>4
<1>9. ASSUME NEW s \in Slots, Read(s)
      PROVE  ShapeInv'
  <2>1. TypeOK'
    BY <1>1, <1>9, ReadState DEF TypeOK
  <2>2. /\ UNCHANGED <<chat, jobs, feedback, born, polls, work>>
        /\ \A t \in Slots : t # s => req'[t] = req[t]
        /\ req[s] # NoRequest /\ req'[s] # NoRequest
        /\ req'[s].op = req[s].op /\ req'[s].todo = req[s].todo
        /\ At(req'[s]) = At(req[s])
        /\ req'[s].msg = req[s].msg /\ req'[s].by = req[s].by /\ req'[s].job = req[s].job
        /\ req'[s].fb = req[s].fb /\ req'[s].item = req[s].item
        /\ \/ At(req[s]) = "append" /\ req'[s].copy = chat
           \/ At(req[s]) = "job" /\ req'[s].copy = jobs
           \/ At(req[s]) = "feedback" /\ req'[s].copy = feedback
    BY <1>9, ReadState
  <2>3. Formed(req'[s])
    BY <1>1, <2>2 DEF Formed, TypeOK
  <2>4. Wellborn(req'[s], born)
    BY <1>1, <2>2 DEF Wellborn
  <2>5. QED
    BY <1>1, <2>1, <2>2, <2>3, <2>4 DEF ShapeInv
<1>10. ASSUME NEW s \in Slots, Write(s)
       PROVE  ShapeInv'
  <2> DEFINE r == req[s]
  <2>1. /\ UNCHANGED <<polls, born, asked, faults, stale>> /\ raced' \in BOOLEAN
        /\ work' \in [JobIds -> Works] /\ fails' \in [JobIds -> Nat]
        /\ req' \in [Slots -> Requests] /\ \A t \in Slots : t # s => req'[t] = req[t]
        /\ r # NoRequest /\ r.op \in Ops /\ r.msg \in Messages
    BY <1>10, WriteState
  <2>2. chat' \in Chats /\ jobs' \in JobLists /\ feedback' \in Feedbacks /\ BornIn(jobs', born)
    <3>1. CASE /\ r.copy \in Chats /\ chat' = Appended(r) /\ UNCHANGED <<jobs, feedback>>
      BY <1>1, <2>1, <3>1, AppendedFacts DEF TypeOK
    <3>2. CASE /\ r.copy \in JobLists /\ BornIn(r.copy, born) /\ r.job \in JobIds
               /\ r.item = Job(r.msg, Outcome[r.op])
               /\ jobs' = [r.copy EXCEPT ![r.job] = r.item] /\ UNCHANGED <<chat, feedback>>
      <4>1. r.item \in JobRecords /\ r.item.msg = r.msg
        <5>1. Outcome[r.op] \in {"queued", "done", "escalated_to_computer"}
          BY <2>1, OutcomeFacts
        <5>2. /\ Job(r.msg, Outcome[r.op]) \in JobRecords
              /\ Job(r.msg, Outcome[r.op]).msg = r.msg
          BY <2>1, <5>1, ItemFacts
        <5>3. QED
          BY <3>2, <5>2
      <4>2. BornAs(r.job, r.msg, born)
        BY <1>1 DEF Wellborn
      <4>3. born[r.job] # None /\ born[r.job].msg = r.msg
        BY <3>2, <4>2, NoneAssumption DEF BornAs, JobIds
      <4>4. QED
        BY <1>1, <3>2, <4>1, <4>3 DEF TypeOK, JobLists, BornIn
    <3>3. CASE /\ r.copy \in Feedbacks /\ r.fb \in FeedbackIds
               /\ (r.item = Question(r.msg, TRUE) \/ r.item = Question(r.msg, FALSE))
               /\ feedback' = [r.copy EXCEPT ![r.fb] = r.item] /\ UNCHANGED <<chat, jobs>>
      <4>1. r.item \in Questions
        BY <2>1, <3>3, ItemFacts, ZenonT(30)
      <4>2. QED
        BY <1>1, <3>3, <4>1 DEF TypeOK, Feedbacks
    <3>4. QED
      BY <1>10, <3>1, <3>2, <3>3, WriteState, ZenonT(30)
  <2>3. TypeOK'
    BY <1>1, <2>1, <2>2 DEF TypeOK
  <2>4. Tells(s, {"idle"}) \/ UNCHANGED work
    BY <1>10, WriteState DEF Ops
  <2>5. CASE req'[s] = NoRequest
    BY <1>1, <2>1, <2>2, <2>3, <2>4, <2>5, NoRequestFits DEF ShapeInv
  <2>6. CASE req'[s] # NoRequest
    <3>1. /\ Carries(req'[s], r) /\ req'[s].job = r.job
          /\ r.op = "post" => req'[s].item = r.item /\ At(req'[s]) = "job"
          /\ At(req'[s]) = "job" => r.op = "post"
          /\ At(req'[s]) = "feedback" => r.op = "escalate" /\ req'[s].item = Question(r.msg, FALSE)
      BY <1>10, <2>6, WriteState DEF Ops
    <3>2. req'[s].op = r.op /\ req'[s].msg = r.msg
      BY <3>1 DEF Carries
    <3>3. r.op = "post" => r.job \in JobIds /\ r.item = Job(r.msg, Outcome[r.op])
      BY <1>1, <2>1, OutcomeFacts DEF Formed
    <3>a. At(req'[s]) = "feedback" => r.job \in JobIds
      BY <1>10, <2>6, WriteState DEF Ops
    <3>4. Fits(req'[s])
      BY <1>1, <2>1, <3>1, <3>2, <3>3, <3>a, CarriedFacts
    <3>5. QED
      BY <1>1, <2>1, <2>2, <2>3, <2>4, <3>4 DEF ShapeInv
  <2>7. QED
    BY <2>5, <2>6
<1>11. CASE AnyFault
  <2>1. TypeOK'
    BY <1>1, <1>11, FaultState DEF TypeOK
  <2>2. /\ UNCHANGED <<jobs, born>>
        /\ \A t \in Slots : \/ req'[t] = req[t] \/ req'[t] = NoRequest
                            \/ req'[t] = [req[t] EXCEPT !.by = None]
        /\ \A q \in Polls : polls'[q] \subseteq polls[q]
        /\ \A j \in JobIds : work'[j] # "idle" => born[j] # None
    BY <1>11, FaultState
  <2>3. ASSUME NEW t \in Slots PROVE Fits(req'[t])
    <3>1. CASE req'[t] = req[t]
      BY <1>1, <3>1
    <3>2. CASE req'[t] = NoRequest
      BY <3>2, NoRequestFits
    <3>3. CASE req'[t] = [req[t] EXCEPT !.by = None]
      <4>1. LET q == req'[t] IN
            /\ (req[t] = NoRequest <=> q = NoRequest) /\ At(q) = At(req[t])
            /\ q.op = req[t].op /\ q.todo = req[t].todo /\ q.msg = req[t].msg
            /\ q.by = None /\ q.job = req[t].job /\ q.fb = req[t].fb
            /\ q.item = req[t].item /\ q.copy = req[t].copy
        BY <1>1, <3>3, ForgottenFacts
      <4>2. Formed(req[t]) /\ Wellborn(req[t], born)
        BY <1>1
      <4>3. Formed(req'[t])
        BY <4>1, <4>2 DEF Formed
      <4>4. Wellborn(req'[t], born)
        BY <4>1, <4>2 DEF Wellborn, BornAs
      <4>5. QED
        BY <4>3, <4>4
    <3>4. QED
      BY <2>2, <3>1, <3>2, <3>3
  <2>4. QED
    BY <1>1, <2>1, <2>2, <2>3 DEF ShapeInv
<1>12. CASE UNCHANGED vars
  BY <1>1, <1>12 DEF vars, lists, bridge, ShapeInv, TypeOK
<1>13. QED
  BY <1>2, <1>3, <1>4, <1>5, <1>6, <1>7, <1>8, <1>9, <1>10, <1>11, <1>12
  DEF Next, Serve, AnyFault

\* The types of the lists, of the requests and of what the bridge keeps.
THEOREM TypeCorrect == Spec => []TypeOK
<1>1. ShapeInv => TypeOK
  BY DEF ShapeInv
<1>2. QED
  BY <1>1, InitShape, StepShape, PTL DEF Spec

-----------------------------------------------------------------------------
(* A job is done after the reply to its message *)

\* With the chat c: a reply that has been stored counts.
Counted(r, c) == (r.op = "reply" /\ At(r) \in {"find", "job"}) => c[r.msg].replies > 0

DoneAre(list, c) ==
    \A j \in JobIds : (list[j] # None /\ list[j].status = "done") => c[list[j].msg].replies > 0

DoneInv == ~raced => DoneAre(jobs, chat) /\ \A s \in Slots : Counted(req[s], chat)

\* A step that sets no list starts, ends or moves a request.
LEMMA QuietSteps ==
    ASSUME ShapeInv, [Next]_vars, ~\E s \in Slots : Write(s)
    PROVE  /\ UNCHANGED <<chat, jobs, feedback, raced>>
           /\ \A t \in Slots :
                \/ req'[t] = req[t] \/ req'[t] = NoRequest
                \/ req[t] = NoRequest /\ (req'[t].op = "reply" => At(req'[t]) = "append")
                \/ /\ req'[t].op = req[t].op /\ req'[t].msg = req[t].msg
                   /\ \/ At(req'[t]) = At(req[t])
                      \/ At(req[t]) = "find" /\ At(req'[t]) = "job"
                      \/ At(req[t]) = "lookup" /\ At(req'[t]) = "feedback"
<1>0. TypeOK /\ \A s \in Slots : req[s] \in Requests /\ Formed(req[s])
  BY DEF ShapeInv, TypeOK
<1>1. ASSUME NEW s \in Slots, NEW j \in JobIds,
             \/ \E m \in Messages : Post(s, j, m)
             \/ \E f \in FeedbackIds : Answer(s, j, f)
      PROVE  /\ UNCHANGED <<chat, jobs, feedback, raced>>
             /\ \A t \in Slots : \/ req'[t] = req[t]
                                 \/ req[t] = NoRequest /\ req'[t].op # "reply"
  BY <1>0, <1>1, DashboardState
<1>2. ASSUME NEW s \in Slots, NEW j \in JobIds, Reply(s, j) \/ Escalate(s, j) \/ Excuse(s, j)
      PROVE  /\ UNCHANGED <<chat, jobs, feedback, raced>>
             /\ \A t \in Slots :
                  \/ req'[t] = req[t]
                  \/ req[t] = NoRequest /\ (req'[t].op = "reply" => At(req'[t]) = "append")
  BY <1>2, BridgeState
<1>3. ASSUME NEW p \in Polls, Poll(p) \/ Deliver(p)
      PROVE  UNCHANGED <<chat, jobs, feedback, raced, req>>
  BY <1>0, <1>3, PollState, DeliverState
<1>4. ASSUME NEW j \in JobIds, ThinkFails(j)
      PROVE  UNCHANGED <<chat, jobs, feedback, raced, req>>
  BY <1>0, <1>4, ThinkFailsState
<1>5. ASSUME NEW s \in Slots, Lookup(s)
      PROVE  /\ UNCHANGED <<chat, jobs, feedback, raced>>
             /\ \A t \in Slots :
                  \/ req'[t] = req[t] \/ req'[t] = NoRequest
                  \/ /\ req'[t].op = req[t].op /\ req'[t].msg = req[t].msg
                     /\ At(req[t]) = "lookup" /\ At(req'[t]) = "feedback"
  BY <1>5, LookupState DEF Carries
<1>6. ASSUME NEW s \in Slots, Find(s)
      PROVE  /\ UNCHANGED <<chat, jobs, feedback, raced>>
             /\ \A t \in Slots :
                  \/ req'[t] = req[t] \/ req'[t] = NoRequest
                  \/ /\ req'[t].op = req[t].op /\ req'[t].msg = req[t].msg
                     /\ At(req[t]) = "find" /\ At(req'[t]) = "job"
  BY <1>6, FindState DEF Carries
<1>7. ASSUME NEW s \in Slots, Read(s)
      PROVE  /\ UNCHANGED <<chat, jobs, feedback, raced>>
             /\ \A t \in Slots :
                  \/ req'[t] = req[t]
                  \/ /\ req'[t].op = req[t].op /\ req'[t].msg = req[t].msg
                     /\ At(req'[t]) = At(req[t])
  BY <1>7, ReadState
<1>8. CASE AnyFault
  <2>1. /\ UNCHANGED <<chat, jobs, feedback, raced>>
        /\ \A t \in Slots : \/ req'[t] = req[t] \/ req'[t] = NoRequest
                            \/ req'[t] = [req[t] EXCEPT !.by = None]
    BY <1>8, FaultState
  <2>2. ASSUME NEW t \in Slots, req'[t] = [req[t] EXCEPT !.by = None]
        PROVE  /\ req'[t].op = req[t].op /\ req'[t].msg = req[t].msg
               /\ At(req'[t]) = At(req[t])
    BY <1>0, <2>2, ForgottenFacts
  <2>3. QED
    BY <2>1, <2>2
<1>9. CASE UNCHANGED vars
  BY <1>9 DEF vars, lists
<1>10. QED
  BY <1>1, <1>2, <1>3, <1>4, <1>5, <1>6, <1>7, <1>8, <1>9 DEF Next, Serve, AnyFault

THEOREM InitDone == Init => DoneInv
  BY NoRequestFacts DEF Init, DoneInv, DoneAre, Counted

THEOREM StepDone == ShapeInv /\ DoneInv /\ [Next]_vars => DoneInv'
<1> SUFFICES ASSUME ShapeInv, DoneInv, [Next]_vars, ~raced' PROVE DoneInv'
  BY DEF DoneInv
<1>0. /\ chat \in Chats /\ jobs \in JobLists
      /\ \A s \in Slots : req[s] \in Requests /\ Formed(req[s])
  BY DEF ShapeInv, TypeOK
<1>1. CASE ~\E s \in Slots : Write(s)
  <2>1. UNCHANGED <<chat, jobs, feedback, raced>>
    BY <1>1, QuietSteps
  <2>2. DoneAre(jobs, chat) /\ \A s \in Slots : Counted(req[s], chat)
    BY <2>1 DEF DoneInv
  <2>3. ASSUME NEW t \in Slots PROVE Counted(req'[t], chat)
    <3>1. Counted(req[t], chat)
      BY <2>2
    <3>2. CASE \/ req'[t] = NoRequest
               \/ req[t] = NoRequest /\ (req'[t].op = "reply" => At(req'[t]) = "append")
      BY <3>2, NoRequestFacts DEF Counted
    <3>3. CASE /\ req'[t].op = req[t].op /\ req'[t].msg = req[t].msg
               /\ \/ At(req'[t]) = At(req[t])
                  \/ At(req[t]) = "find" /\ At(req'[t]) = "job"
                  \/ At(req[t]) = "lookup" /\ At(req'[t]) = "feedback"
      BY <3>1, <3>3 DEF Counted
    <3>4. QED
      BY <1>1, <3>1, <3>2, <3>3, QuietSteps
  <2>4. QED
    BY <2>1, <2>2, <2>3 DEF DoneInv
<1>2. ASSUME NEW s \in Slots, Write(s)
      PROVE  DoneInv'
  <2> DEFINE r == req[s]
  <2>1. /\ \A t \in Slots : t # s => req'[t] = req[t]
        /\ r # NoRequest /\ r.op \in Ops /\ r.msg \in Messages /\ ~raced
    BY <1>2, WriteState
  <2>2. DoneAre(jobs, chat) /\ \A t \in Slots : Counted(req[t], chat)
    BY <2>1 DEF DoneInv
  <2>3. CASE /\ At(r) = "append" /\ r.op \in {"post", "reply"} /\ r.copy = chat
             /\ chat' = Appended(r) /\ UNCHANGED <<jobs, feedback>>
             /\ Carries(req'[s], r)
    <3>1. /\ \A m \in Messages : chat[m].replies > 0 => chat'[m].replies > 0
          /\ r.op # "post" => chat'[r.msg].replies > 0
      BY <1>0, <2>1, <2>3, MoreReplies
    <3>2. DoneAre(jobs, chat')
      BY <1>0, <2>2, <3>1 DEF DoneAre, JobLists, JobRecords
    <3>3. ASSUME NEW t \in Slots, t # s
          PROVE  Counted(req'[t], chat')
      <4>1. req'[t] = req[t] /\ Formed(req[t]) /\ Counted(req[t], chat)
        BY <1>0, <2>1, <2>2, <3>3
      <4>2. (req[t].op = "reply" /\ At(req[t]) \in {"find", "job"}) => req[t].msg \in Messages
        BY <4>1, NoRequestFacts DEF Formed
      <4>3. QED
        BY <3>1, <4>1, <4>2 DEF Counted
    <3>4. r.op = "reply" => chat'[r.msg].replies > 0
      BY <3>1
    <3>5. Counted(req'[s], chat')
      BY <2>3, <3>4 DEF Counted, Carries
    <3>6. QED
      BY <2>3, <3>2, <3>3, <3>5 DEF DoneInv
  <2>4. CASE /\ At(r) = "job" /\ r.copy = jobs /\ r.job \in JobIds
             /\ r.item = Job(r.msg, Outcome[r.op])
             /\ jobs' = [r.copy EXCEPT ![r.job] = r.item] /\ UNCHANGED <<chat, feedback>>
             /\ req'[s] = NoRequest \/ At(req'[s]) = "feedback"
    <3>1. /\ r.item.msg = r.msg
          /\ r.item.status = "done" => r.op = "reply"
      <4>1. Outcome[r.op] \in {"queued", "done", "escalated_to_computer"}
        BY <2>1, OutcomeFacts
      <4>2. Job(r.msg, Outcome[r.op]).msg = r.msg /\ Job(r.msg, Outcome[r.op]).status = Outcome[r.op]
        BY <2>1, <4>1, ItemFacts
      <4>3. QED
        BY <2>1, <2>4, <4>2, OutcomeFacts DEF Ops
    <3>2. r.op = "reply" => chat[r.msg].replies > 0
      BY <2>2, <2>4 DEF Counted
    <3>3. DoneAre(jobs', chat)
      BY <1>0, <2>2, <2>4, <3>1, <3>2 DEF DoneAre, JobLists
    <3>4. ASSUME NEW t \in Slots
          PROVE  Counted(req'[t], chat)
      BY <2>1, <2>2, <2>4, NoRequestFacts DEF Counted
    <3>5. QED
      BY <2>4, <3>3, <3>4 DEF DoneInv
  <2>5. CASE /\ At(r) = "feedback" /\ UNCHANGED <<chat, jobs>>
             /\ req'[s] = NoRequest \/ (req'[s].op = "answer")
    <3>1. ASSUME NEW t \in Slots
          PROVE  Counted(req'[t], chat)
      BY <2>1, <2>2, <2>5, NoRequestFacts DEF Counted
    <3>2. QED
      BY <2>2, <2>5, <3>1 DEF DoneInv
  <2>6. QED
    BY <1>2, <2>3, <2>4, <2>5, WriteState DEF Carries
<1>3. QED
  BY <1>1, <1>2

\* A job that is done is one whose message has been replied to, as long as no set
\* has overwritten another's (handleReply() in router.ts appends before it marks).
THEOREM DoneAfterReply == Spec => []DoneIsReplied
<1>1. DoneInv => DoneIsReplied
  BY DEF DoneInv, DoneAre, DoneIsReplied
<1>2. QED
  BY <1>1, InitShape, StepShape, InitDone, StepDone, PTL DEF Spec

-----------------------------------------------------------------------------
(* Ids are given out once, and what a request has found stays there *)

Creating(r) == r.op \in {"post", "answer"}

\* With the jobs l, the questions f and n questions asked: the job a request
\* creates is not there yet, the one it has found is; the question it answers is
\* there, the one it asks is not, or is one of the same message's.
Due(r, l, f, n) ==
    /\ Creating(r) => l[r.job] = None
    /\ (r.op \in {"reply", "escalate"} /\ At(r) \in {"job", "feedback"}) => l[r.job] # None
    /\ r.op = "escalate" => r.fb <= n /\ (f[r.fb] = None \/ f[r.fb].msg = r.msg)
    /\ r.op = "answer" => f[r.fb] # None /\ f[r.fb].msg = r.msg

\* Two requests do not create the same job, nor ask the same question of two
\* messages.
Apart(r, q) ==
    /\ (Creating(r) /\ Creating(q)) => r.job # q.job
    /\ (r.op = "escalate" /\ q.op = "escalate" /\ r.fb = q.fb) => r.msg = q.msg

HasJob(m, l) == \E j \in JobIds : l[j] # None /\ l[j].msg = m

QuestionsOf(l, f, n) == \A i \in FeedbackIds : f[i] # None => i <= n /\ HasJob(f[i].msg, l)

OrderInv ==
    ~raced =>
        /\ \A s \in Slots : Due(req[s], jobs, feedback, asked)
        /\ \A s, t \in Slots : s # t => Apart(req[s], req[t])
        /\ QuestionsOf(jobs, feedback, asked)

\* q is what has become of the request r.
Alike(q, r) ==
    \/ q = NoRequest
    \/ /\ q.op = r.op /\ q.msg = r.msg /\ q.fb = r.fb
       /\ Creating(r) => q.job = r.job

LEMMA ApartFacts ==
    ASSUME NEW r, NEW q, NEW r1, NEW q1, Apart(r, q), Alike(r1, r), Alike(q1, q)
    PROVE  Apart(r1, q1)
  BY NoRequestFacts DEF Apart, Alike, Creating

LEMMA NothingDue ==
    ASSUME NEW l, NEW f, NEW n PROVE Due(NoRequest, l, f, n)
  BY NoRequestFacts DEF Due, Creating

THEOREM InitOrder == Init => OrderInv
  BY NoRequestFacts DEF Init, OrderInv, Due, Apart, QuestionsOf, Creating

\* The steps that start a request.
LEMMA StartOrder ==
    ASSUME ShapeInv, OrderInv, ~raced, NEW s \in Slots, NEW j \in JobIds,
           \/ \E m \in Messages : Post(s, j, m)
           \/ \E f \in FeedbackIds : Answer(s, j, f)
           \/ Reply(s, j) \/ Escalate(s, j) \/ Excuse(s, j)
    PROVE  OrderInv'
<1>0. /\ TypeOK /\ BornIn(jobs, born) /\ asked \in Nat
      /\ \A t \in Slots : req[t] \in Requests /\ Formed(req[t]) /\ Wellborn(req[t], born)
      /\ \A t \in Slots : Due(req[t], jobs, feedback, asked)
      /\ \A t, u \in Slots : t # u => Apart(req[t], req[u])
      /\ QuestionsOf(jobs, feedback, asked)
  BY DEF ShapeInv, TypeOK, OrderInv
<1>1. CASE \/ \E m \in Messages : Post(s, j, m)
           \/ \E f \in FeedbackIds : Answer(s, j, f)
  <2>1. /\ UNCHANGED <<jobs, feedback, asked, raced>>
        /\ \A t \in Slots : t # s => req'[t] = req[t]
        /\ Creating(req'[s]) /\ req'[s].op # "escalate"
        /\ req'[s].job = j /\ born[j] = None
        /\ req'[s].op = "answer" =>
             feedback[req'[s].fb] # None /\ feedback[req'[s].fb].msg = req'[s].msg
    BY <1>0, <1>1, DashboardState DEF Creating
  <2>2. jobs[j] = None
    BY <1>0, <2>1 DEF BornIn
  <2>3. Due(req'[s], jobs, feedback, asked)
    BY <2>1, <2>2 DEF Due, Creating
  <2>4. ASSUME NEW t \in Slots, t # s
        PROVE  Apart(req[t], req'[s]) /\ Apart(req'[s], req[t])
    <3>1. Creating(req[t]) => req[t].job # j
      <4>1. SUFFICES ASSUME Creating(req[t]) PROVE req[t].job # j
        OBVIOUS
      <4>2. req[t].job \in JobIds /\ BornAs(req[t].job, req[t].msg, born)
        BY <1>0, <4>1, NoRequestFacts DEF Creating, Formed, Wellborn
      <4>3. born[req[t].job] # None
        BY <4>2, NoneAssumption DEF BornAs, JobIds
      <4>4. QED
        BY <2>1, <4>3
    <3>2. QED
      BY <2>1, <3>1 DEF Apart
  <2>5. QED
    BY <1>0, <2>1, <2>3, <2>4 DEF OrderInv
<1>2. CASE Reply(s, j) \/ Escalate(s, j) \/ Excuse(s, j)
  <2>1. /\ UNCHANGED <<jobs, feedback, raced>>
        /\ \A t \in Slots : t # s => req'[t] = req[t]
        /\ req'[s].op \in {"reply", "escalate"}
        /\ At(req'[s]) \in {"append", "find"}
        /\ req'[s].op = "reply" => asked' = asked
        /\ req'[s].msg = born[j].msg
        /\ req'[s].op = "escalate" =>
             /\ req'[s].fb \in FeedbackIds
             /\ \/ req'[s].fb = asked + 1 /\ asked' = asked + 1
                \/ /\ feedback[req'[s].fb] # None /\ feedback[req'[s].fb].msg = born[j].msg
                   /\ asked' = asked
    BY <1>2, BridgeState
  <2>2. asked' \in Nat /\ asked <= asked' /\ \A i \in Nat : i <= asked => i <= asked'
    BY <1>0, <2>1
  <2>3. req'[s].op = "escalate" =>
          /\ req'[s].fb <= asked'
          /\ feedback[req'[s].fb] = None \/ feedback[req'[s].fb].msg = req'[s].msg
    <3>1. CASE req'[s].op = "escalate" /\ req'[s].fb = asked + 1 /\ asked' = asked + 1
      BY <1>0, <2>1, <3>1 DEF QuestionsOf
    <3>2. CASE req'[s].op = "escalate" /\ feedback[req'[s].fb] # None /\ asked' = asked
      BY <1>0, <2>1, <3>2 DEF QuestionsOf
    <3>3. QED
      BY <2>1, <3>1, <3>2
  <2>4. Due(req'[s], jobs, feedback, asked')
    BY <1>0, <2>1, <2>3 DEF Due, Creating
  <2>5. ASSUME NEW t \in Slots, t # s
        PROVE  /\ Due(req[t], jobs, feedback, asked')
               /\ Apart(req[t], req'[s]) /\ Apart(req'[s], req[t])
    <3>1. req[t].op = "escalate" => req[t].fb \in FeedbackIds /\ req[t].fb <= asked
      BY <1>0, NoRequestFacts DEF Formed, Due
    <3>2. \A i \in FeedbackIds : i \in Nat
      BY DEF FeedbackIds
    <3>3. req[t].op = "escalate" => req[t].fb <= asked' /\ req[t].fb # asked + 1
      BY <1>0, <2>2, <3>1, <3>2
    <3>4. Due(req[t], jobs, feedback, asked')
      BY <1>0, <3>3 DEF Due
    <3>5. (req[t].op = "escalate" /\ req'[s].op = "escalate" /\ req[t].fb = req'[s].fb)
            => req[t].msg = req'[s].msg
      BY <1>0, <2>1, <3>3 DEF Due
    <3>6. QED
      BY <2>1, <3>4, <3>5 DEF Apart, Creating
  <2>6. QuestionsOf(jobs, feedback, asked')
    BY <1>0, <2>2 DEF QuestionsOf, FeedbackIds
  <2>7. QED
    BY <1>0, <2>1, <2>4, <2>5, <2>6 DEF OrderInv
<1>3. QED
  BY <1>1, <1>2

\* The steps that read, search or fail.
LEMMA MoveOrder ==
    ASSUME ShapeInv, NEW s \in Slots, Lookup(s) \/ Find(s) \/ Read(s)
    PROVE  /\ UNCHANGED <<chat, jobs, feedback, asked, faults, raced>>
           /\ \A t \in Slots : Alike(req'[t], req[t])
           /\ \A t \in Slots : Due(req[t], jobs, feedback, asked)
                                   => Due(req'[t], jobs, feedback, asked)
<1>1. CASE Lookup(s)
  <2>1. /\ UNCHANGED <<chat, jobs, feedback, asked, faults, raced>>
        /\ \A t \in Slots : t # s => req'[t] = req[t]
        /\ req[s].op = "answer"
        /\ \/ req'[s] = NoRequest
           \/ Carries(req'[s], req[s]) /\ req'[s].job = req[s].job
    BY <1>1, LookupState
  <2>2. \A t \in Slots : Alike(req'[t], req[t])
    BY <2>1 DEF Alike, Carries
  <2>3. Due(req[s], jobs, feedback, asked) => Due(req'[s], jobs, feedback, asked)
    <3>1. CASE req'[s] = NoRequest
      BY <3>1, NothingDue
    <3>2. CASE Carries(req'[s], req[s]) /\ req'[s].job = req[s].job
      BY <2>1, <3>2 DEF Due, Carries, Creating
    <3>3. QED
      BY <2>1, <3>1, <3>2
  <2>4. QED
    BY <2>1, <2>2, <2>3
<1>2. CASE Find(s)
  <2>1. /\ UNCHANGED <<chat, jobs, feedback, asked, faults, raced>>
        /\ \A t \in Slots : t # s => req'[t] = req[t]
        /\ req[s].op \in {"reply", "escalate", "answer"}
        /\ \/ req'[s] = NoRequest
           \/ /\ Carries(req'[s], req[s])
              /\ req[s].op = "reply" => req'[s].job \in FirstOpen(req[s].msg)
              /\ req[s].op = "escalate" => req'[s].job \in First(OfMessage(req[s].msg))
              /\ req[s].op = "answer" => req'[s].job = req[s].job
    BY <1>2, FindState
  <2>2. \A t \in Slots : Alike(req'[t], req[t])
    BY <2>1 DEF Alike, Carries, Creating
  <2>3. Due(req[s], jobs, feedback, asked) => Due(req'[s], jobs, feedback, asked)
    <3>1. CASE req'[s] = NoRequest
      BY <3>1, NothingDue
    <3>2. CASE req'[s] # NoRequest
      <4>1. /\ req'[s].op = req[s].op /\ req'[s].msg = req[s].msg /\ req'[s].fb = req[s].fb
            /\ req[s].op \in {"reply", "escalate"} => jobs[req'[s].job] # None
            /\ req[s].op = "answer" => req'[s].job = req[s].job
        BY <2>1, <3>2 DEF Carries, FirstOpen, First, OfMessage
      <4>2. QED
        BY <2>1, <4>1 DEF Due, Creating
    <3>3. QED
      BY <3>1, <3>2
  <2>4. QED
    BY <2>1, <2>2, <2>3
<1>3. CASE Read(s)
  <2>1. /\ UNCHANGED <<chat, jobs, feedback, asked, faults, raced>>
        /\ \A t \in Slots : t # s => req'[t] = req[t]
        /\ req'[s].op = req[s].op /\ At(req'[s]) = At(req[s]) /\ req'[s].msg = req[s].msg
        /\ req'[s].job = req[s].job /\ req'[s].fb = req[s].fb
    BY <1>3, ReadState
  <2>2. \A t \in Slots : Alike(req'[t], req[t])
    BY <2>1 DEF Alike
  <2>3. Due(req[s], jobs, feedback, asked) => Due(req'[s], jobs, feedback, asked)
    BY <2>1 DEF Due, Creating
  <2>4. QED
    BY <2>1, <2>2, <2>3
<1>4. QED
  BY <1>1, <1>2, <1>3

LEMMA FaultOrder ==
    ASSUME ShapeInv, AnyFault
    PROVE  /\ UNCHANGED <<chat, jobs, feedback, asked, raced>>
           /\ \A t \in Slots : Alike(req'[t], req[t])
           /\ \A t \in Slots : Due(req[t], jobs, feedback, asked)
                                   => Due(req'[t], jobs, feedback, asked)
<1>1. /\ UNCHANGED <<chat, jobs, feedback, asked, raced>>
      /\ \A t \in Slots : \/ req'[t] = req[t] \/ req'[t] = NoRequest
                          \/ req'[t] = [req[t] EXCEPT !.by = None]
  BY FaultState
<1>2. ASSUME NEW t \in Slots
      PROVE  /\ Alike(req'[t], req[t])
             /\ Due(req[t], jobs, feedback, asked) => Due(req'[t], jobs, feedback, asked)
  <2>1. CASE req'[t] = req[t]
    BY <2>1 DEF Alike
  <2>2. CASE req'[t] = NoRequest
    BY <2>2, NothingDue DEF Alike
  <2>3. CASE req'[t] = [req[t] EXCEPT !.by = None]
    <3>1. req[t] \in Requests /\ Formed(req[t])
      BY DEF ShapeInv, TypeOK
    <3>2. /\ req'[t].op = req[t].op /\ At(req'[t]) = At(req[t]) /\ req'[t].msg = req[t].msg
          /\ req'[t].job = req[t].job /\ req'[t].fb = req[t].fb
      BY <2>3, <3>1, ForgottenFacts
    <3>3. QED
      BY <3>2 DEF Alike, Due, Creating
  <2>4. QED
    BY <1>1, <2>1, <2>2, <2>3
<1>3. QED
  BY <1>1, <1>2

\* A set that overwrites nothing changes one record.
LEMMA SetState ==
    ASSUME ShapeInv, NEW s \in Slots, Write(s), ~raced'
    PROVE  /\ UNCHANGED <<polls, born, asked, faults, stale>> /\ ~raced
           /\ \A t \in Slots : t # s => req'[t] = req[t]
           /\ req[s] # NoRequest /\ req[s].op \in Ops /\ req[s].msg \in Messages
           /\ Alike(req'[s], req[s])
           /\ \/ /\ At(req[s]) = "append" /\ req[s].op \in {"post", "reply"}
                 /\ UNCHANGED <<jobs, feedback, work>>
                 /\ \A m \in Messages : m # req[s].msg => chat'[m] = chat[m]
                 /\ \A m \in Messages : chat[m].replies > 0 => chat'[m].replies > 0
                 /\ req[s].op = "post" => chat'[req[s].msg].replies = chat[req[s].msg].replies
                 /\ req[s].op = "reply" =>
                      /\ chat'[req[s].msg].posted = chat[req[s].msg].posted
                      /\ chat'[req[s].msg].replies =
                           IF chat[req[s].msg].replies = 2 THEN 2 ELSE chat[req[s].msg].replies + 1
                 /\ Carries(req'[s], req[s])
                 /\ At(req'[s]) = IF req[s].op = "post" THEN "job" ELSE "find"
              \/ /\ At(req[s]) = "job" /\ UNCHANGED <<chat, feedback>>
                 /\ req[s].job \in JobIds /\ jobs'[req[s].job] # None
                 /\ jobs'[req[s].job].msg = req[s].msg
                 /\ jobs'[req[s].job].status = Outcome[req[s].op]
                 /\ born[req[s].job] # None /\ born[req[s].job].msg = req[s].msg
                 /\ \A j \in JobIds : j # req[s].job => jobs'[j] = jobs[j]
                 /\ req[s].op = "escalate" =>
                      /\ Carries(req'[s], req[s]) /\ At(req'[s]) = "feedback"
                      /\ req'[s].job = req[s].job /\ UNCHANGED work
                 /\ req[s].op # "escalate" => req'[s] = NoRequest /\ Tells(s, {"idle"})
              \/ /\ At(req[s]) = "feedback" /\ UNCHANGED <<chat, jobs>>
                 /\ req[s].op \in {"escalate", "answer"} /\ req[s].fb \in FeedbackIds
                 /\ feedback'[req[s].fb] # None /\ feedback'[req[s].fb].msg = req[s].msg
                 /\ \A f \in FeedbackIds : f # req[s].fb => feedback'[f] = feedback[f]
                 /\ req[s].op = "escalate" =>
                      /\ feedback'[req[s].fb] = Question(req[s].msg, FALSE)
                      /\ req'[s] = NoRequest /\ Tells(s, {"idle"})
                 /\ req[s].op = "answer" =>
                      /\ Carries(req'[s], req[s]) /\ At(req'[s]) = "find"
                      /\ req'[s].job = req[s].job /\ UNCHANGED work
<1> DEFINE r == req[s]
<1>0. /\ chat \in Chats /\ jobs \in JobLists /\ feedback \in Feedbacks
      /\ Wellborn(r, born)
  BY DEF ShapeInv, TypeOK
<1>1. /\ UNCHANGED <<polls, born, asked, faults, stale>> /\ ~raced
      /\ \A t \in Slots : t # s => req'[t] = req[t]
      /\ r # NoRequest /\ r.op \in Ops /\ r.msg \in Messages
  BY WriteState
<1>2. CASE /\ At(r) = "append" /\ r.op \in {"post", "reply"} /\ r.copy = chat
           /\ chat' = Appended(r) /\ UNCHANGED <<jobs, feedback, work>>
           /\ Carries(req'[s], r) /\ req'[s].job = r.job
           /\ At(req'[s]) = IF r.op = "post" THEN "job" ELSE "find"
  <2>1. /\ \A m \in Messages : m # r.msg => chat'[m] = chat[m]
        /\ \A m \in Messages : chat[m].replies > 0 => chat'[m].replies > 0
    BY <1>0, <1>1, <1>2, AppendedFacts, MoreReplies
  <2>2. /\ r.op = "post" => chat'[r.msg].replies = chat[r.msg].replies
        /\ r.op = "reply" =>
             /\ chat'[r.msg].posted = chat[r.msg].posted
             /\ chat'[r.msg].replies = IF chat[r.msg].replies = 2 THEN 2 ELSE chat[r.msg].replies + 1
    BY <1>0, <1>1, <1>2, AppendedFacts
  <2>3. Alike(req'[s], r)
    BY <1>2 DEF Alike, Carries
  <2>4. QED
    BY <1>1, <1>2, <2>1, <2>2, <2>3
<1>3. CASE /\ At(r) = "job" /\ r.copy = jobs /\ r.job \in JobIds
           /\ r.item = Job(r.msg, Outcome[r.op])
           /\ jobs' = [r.copy EXCEPT ![r.job] = r.item] /\ UNCHANGED <<chat, feedback>>
           /\ r.op = "escalate" =>
                /\ Carries(req'[s], r) /\ At(req'[s]) = "feedback"
                /\ req'[s].job = r.job /\ UNCHANGED work
           /\ r.op # "escalate" => req'[s] = NoRequest /\ Tells(s, {"idle"})
  <2>1. Outcome[r.op] \in {"queued", "done", "escalated_to_computer"}
    BY <1>1, OutcomeFacts
  <2>2. r.item # None /\ r.item.msg = r.msg /\ r.item.status = Outcome[r.op]
    <3>1. LET i == Job(r.msg, Outcome[r.op]) IN
          i # None /\ i.msg = r.msg /\ i.status = Outcome[r.op]
      BY <1>1, <2>1, ItemFacts
    <3>2. QED
      BY <1>3, <3>1
  <2>3. /\ jobs'[r.job] = r.item /\ \A j \in JobIds : j # r.job => jobs'[j] = jobs[j]
    BY <1>0, <1>3 DEF JobLists
  <2>4. born[r.job] # None /\ born[r.job].msg = r.msg
    BY <1>0, <1>3, NoneAssumption DEF Wellborn, BornAs, JobIds
  <2>5. Alike(req'[s], r)
    BY <1>3 DEF Alike, Carries
  <2>6. QED
    BY <1>1, <1>3, <2>2, <2>3, <2>4, <2>5
<1>4. CASE /\ At(r) = "feedback" /\ r.copy = feedback /\ r.fb \in FeedbackIds
           /\ r.op \in {"escalate", "answer"}
           /\ feedback' = [r.copy EXCEPT ![r.fb] = r.item] /\ UNCHANGED <<chat, jobs>>
           /\ r.op = "escalate" =>
                /\ r.item = Question(r.msg, FALSE)
                /\ req'[s] = NoRequest /\ Tells(s, {"idle"})
           /\ r.op = "answer" =>
                /\ r.item = Question(r.msg, TRUE)
                /\ Carries(req'[s], r) /\ At(req'[s]) = "find"
                /\ req'[s].job = r.job /\ UNCHANGED work
  <2>1. r.item # None /\ r.item.msg = r.msg
    BY <1>1, <1>4, ItemFacts, ZenonT(30)
  <2>2. /\ feedback'[r.fb] = r.item /\ \A f \in FeedbackIds : f # r.fb => feedback'[f] = feedback[f]
    BY <1>0, <1>4 DEF Feedbacks
  <2>3. Alike(req'[s], r)
    BY <1>4 DEF Alike, Carries
  <2>4. QED
    BY <1>1, <1>4, <2>1, <2>2, <2>3
<1>5. QED
  BY <1>2, <1>3, <1>4, WriteState, ZenonT(30)

LEMMA SetOrder ==
    ASSUME ShapeInv, OrderInv, NEW s \in Slots, Write(s), ~raced'
    PROVE  OrderInv'
<1> DEFINE r == req[s]
<1>0. /\ TypeOK /\ BornIn(jobs, born) /\ ~raced /\ asked' = asked
      /\ \A t \in Slots : Formed(req[t])
      /\ \A t \in Slots : Due(req[t], jobs, feedback, asked)
      /\ \A t, u \in Slots : t # u => Apart(req[t], req[u])
      /\ QuestionsOf(jobs, feedback, asked)
      /\ \A t \in Slots : t # s => req'[t] = req[t]
      /\ r # NoRequest /\ r.op \in Ops /\ r.msg \in Messages /\ Alike(req'[s], r)
  BY SetState DEF ShapeInv, OrderInv
<1>1. \A t \in Slots : Alike(req'[t], req[t])
  BY <1>0 DEF Alike
<1>2. ASSUME NEW t \in Slots, NEW u \in Slots, t # u
      PROVE  Apart(req'[t], req'[u])
  BY <1>0, <1>1, <1>2, ApartFacts
<1>3. CASE /\ At(r) = "append" /\ r.op \in {"post", "reply"} /\ UNCHANGED <<jobs, feedback>>
           /\ Alike(req'[s], r)
           /\ At(req'[s]) = IF r.op = "post" THEN "job" ELSE "find"
  <2>1. Due(req'[s], jobs, feedback, asked)
    BY <1>0, <1>3, NothingDue DEF Due, Alike, Creating
  <2>2. QED
    BY <1>0, <1>2, <1>3, <2>1 DEF OrderInv
<1>4. CASE /\ At(r) = "job" /\ UNCHANGED feedback
           /\ r.job \in JobIds /\ jobs'[r.job] # None /\ jobs'[r.job].msg = r.msg
           /\ born[r.job] # None /\ born[r.job].msg = r.msg
           /\ \A j \in JobIds : j # r.job => jobs'[j] = jobs[j]
           /\ r.op = "escalate" => /\ Carries(req'[s], r) /\ At(req'[s]) = "feedback"
                                   /\ req'[s].job = r.job
           /\ r.op # "escalate" => req'[s] = NoRequest
  <2>1. ASSUME NEW t \in Slots, t # s
        PROVE  Due(req[t], jobs', feedback, asked)
    <3>1. Due(req[t], jobs, feedback, asked) /\ Apart(req[t], r) /\ Formed(req[t])
      BY <1>0, <2>1
    <3>2. Creating(req[t]) => req[t].job # r.job /\ req[t].job \in JobIds
      <4>1. SUFFICES ASSUME Creating(req[t])
                     PROVE  req[t].job # r.job /\ req[t].job \in JobIds
        OBVIOUS
      <4>2. req[t].job \in JobIds /\ jobs[req[t].job] = None
        BY <3>1, <4>1, NoRequestFacts DEF Formed, Due, Creating
      <4>3. CASE Creating(r)
        BY <3>1, <4>1, <4>2, <4>3 DEF Apart
      <4>4. CASE ~Creating(r)
        BY <1>0, <1>4, <4>2, <4>4 DEF Due, Creating, Ops
      <4>5. QED
        BY <4>3, <4>4
    <3>3. \A j \in JobIds : jobs[j] # None => jobs'[j] # None
      BY <1>4
    <3>4. Creating(req[t]) => jobs'[req[t].job] = None
      BY <1>4, <3>1, <3>2 DEF Due
    <3>5. (req[t].op \in {"reply", "escalate"} /\ At(req[t]) \in {"job", "feedback"})
            => jobs'[req[t].job] # None
      BY <3>1, <3>3, NoRequestFits DEF Due, Formed
    <3>6. QED
      BY <3>1, <3>4, <3>5 DEF Due
  <2>2. Due(req'[s], jobs', feedback, asked)
    <3>1. CASE req'[s] = NoRequest
      BY <3>1, NothingDue
    <3>2. CASE r.op = "escalate"
      BY <1>0, <1>4, <3>2 DEF Due, Carries, Creating
    <3>3. QED
      BY <1>4, <3>1, <3>2
  <2>3. QuestionsOf(jobs', feedback, asked)
    <3>1. ASSUME NEW m, HasJob(m, jobs) PROVE HasJob(m, jobs')
      <4>1. PICK j \in JobIds : jobs[j] # None /\ jobs[j].msg = m
        BY <3>1 DEF HasJob
      <4>2. jobs'[j] # None /\ jobs'[j].msg = m
        BY <1>0, <1>4, <4>1 DEF BornIn
      <4>3. QED
        BY <4>2 DEF HasJob
    <3>2. QED
      BY <1>0, <3>1 DEF QuestionsOf
  <2>4. QED
    BY <1>0, <1>2, <1>4, <2>1, <2>2, <2>3 DEF OrderInv
<1>5. CASE /\ At(r) = "feedback" /\ UNCHANGED jobs
           /\ r.op \in {"escalate", "answer"} /\ r.fb \in FeedbackIds
           /\ feedback'[r.fb] # None /\ feedback'[r.fb].msg = r.msg
           /\ \A f \in FeedbackIds : f # r.fb => feedback'[f] = feedback[f]
           /\ r.op = "escalate" => req'[s] = NoRequest
           /\ r.op = "answer" => Carries(req'[s], r) /\ req'[s].job = r.job
  <2>1. ASSUME NEW t \in Slots, t # s
        PROVE  Due(req[t], jobs, feedback', asked)
    <3>1. Due(req[t], jobs, feedback, asked) /\ Apart(req[t], r) /\ Formed(req[t])
      BY <1>0, <2>1
    <3>2. Due(r, jobs, feedback, asked)
      BY <1>0
    <3>3. CASE req[t].op = "escalate"
      <4>1. req[t].fb \in FeedbackIds
        BY <3>1, <3>3, NoRequestFacts DEF Formed
      <4>2. req[t].fb = r.fb => req[t].msg = r.msg
        BY <1>5, <3>1, <3>2, <3>3 DEF Due, Apart
      <4>3. QED
        BY <1>5, <3>1, <3>3, <4>1, <4>2 DEF Due, Creating
    <3>4. CASE req[t].op = "answer"
      <4>1. req[t].fb \in FeedbackIds
        BY <3>1, <3>4, NoRequestFacts DEF Formed
      <4>2. req[t].fb = r.fb => req[t].msg = r.msg
        BY <1>5, <3>1, <3>2, <3>4 DEF Due
      <4>3. QED
        BY <1>5, <3>1, <3>4, <4>1, <4>2 DEF Due, Creating
    <3>5. CASE req[t].op \notin {"escalate", "answer"}
      BY <3>1, <3>5 DEF Due
    <3>6. QED
      BY <3>3, <3>4, <3>5
  <2>2. Due(req'[s], jobs, feedback', asked)
    <3>1. CASE req'[s] = NoRequest
      BY <3>1, NothingDue
    <3>2. CASE r.op = "answer"
      BY <1>0, <1>5, <3>2 DEF Due, Carries, Creating
    <3>3. QED
      BY <1>5, <3>1, <3>2
  <2>3. QuestionsOf(jobs, feedback', asked)
    <3>1. r.fb <= asked /\ HasJob(r.msg, jobs)
      <4>1. CASE r.op = "escalate"
        <5>1. r.fb <= asked /\ jobs[r.job] # None
          BY <1>0, <1>5, <4>1 DEF Due
        <5>2. r.job \in JobIds /\ jobs[r.job].msg = r.msg
          <6>1. r.job \in JobIds /\ Wellborn(r, born)
            BY <1>0, <1>5 DEF Formed, ShapeInv
          <6>2. QED
            BY <1>0, <5>1, <6>1, NoneAssumption DEF Wellborn, BornAs, BornIn, JobIds
        <5>3. QED
          BY <5>1, <5>2 DEF HasJob
      <4>2. CASE r.op = "answer"
        BY <1>0, <1>5, <4>2 DEF Due, QuestionsOf
      <4>3. QED
        BY <1>5, <4>1, <4>2
    <3>2. QED
      BY <1>0, <1>5, <3>1 DEF QuestionsOf
  <2>4. QED
    BY <1>0, <1>2, <1>5, <2>1, <2>2, <2>3 DEF OrderInv
<1>6. QED
  BY <1>3, <1>4, <1>5, SetState

THEOREM StepOrder == ShapeInv /\ OrderInv /\ [Next]_vars => OrderInv'
<1> SUFFICES ASSUME ShapeInv, OrderInv, [Next]_vars, ~raced' PROVE OrderInv'
  BY DEF OrderInv
<1>1. ASSUME UNCHANGED <<jobs, feedback, asked, raced>>,
             \A t \in Slots : Alike(req'[t], req[t]),
             \A t \in Slots : Due(req[t], jobs, feedback, asked)
                                  => Due(req'[t], jobs, feedback, asked)
      PROVE  OrderInv'
  <2>1. \A t, u \in Slots : t # u => Apart(req'[t], req'[u])
    BY <1>1, ApartFacts DEF OrderInv
  <2>2. QED
    BY <1>1, <2>1 DEF OrderInv
<1>2. ASSUME UNCHANGED <<jobs, feedback, asked, raced, req>>
      PROVE  OrderInv'
  BY <1>2 DEF OrderInv
<1>3. TypeOK
  BY DEF ShapeInv
<1>4. ASSUME NEW s \in Slots, NEW j \in JobIds,
             \/ \E m \in Messages : Post(s, j, m)
             \/ \E f \in FeedbackIds : Answer(s, j, f)
             \/ Reply(s, j) \/ Escalate(s, j) \/ Excuse(s, j)
      PROVE  OrderInv'
  <2>1. raced' = raced
    BY <1>3, <1>4, DashboardState, BridgeState
  <2>2. QED
    BY <1>4, <2>1, StartOrder
<1>5. ASSUME NEW p \in Polls, Poll(p) \/ Deliver(p)
      PROVE  OrderInv'
  BY <1>2, <1>3, <1>5, PollState, DeliverState
<1>6. ASSUME NEW j \in JobIds, ThinkFails(j)
      PROVE  OrderInv'
  BY <1>2, <1>3, <1>6, ThinkFailsState
<1>7. ASSUME NEW s \in Slots, Lookup(s) \/ Find(s) \/ Read(s)
      PROVE  OrderInv'
  BY <1>1, <1>7, MoveOrder
<1>8. ASSUME NEW s \in Slots, Write(s)
      PROVE  OrderInv'
  BY <1>8, SetOrder
<1>9. CASE AnyFault
  BY <1>1, <1>9, FaultOrder
<1>10. CASE UNCHANGED vars
  BY <1>2, <1>10 DEF vars, lists
<1>11. QED
  BY <1>4, <1>5, <1>6, <1>7, <1>8, <1>9, <1>10 DEF Next, Serve, AnyFault

-----------------------------------------------------------------------------
(* A message that was posted is not forgotten *)

LEMMA FirstFacts ==
    ASSUME NEW S, S \subseteq JobIds, S # {}
    PROVE  First(S) # {}
<1>1. S \subseteq Nat
  BY DEF JobIds
<1>2. IsWellFoundedOn(OpToRel(<, Nat), Nat)
  BY NatLessThanWellFounded
<1>3. PICK i \in S : \A j \in S : ~ (<<j, i>> \in OpToRel(<, Nat))
  BY <1>1, <1>2, WFMin
<1>4. ASSUME NEW j \in S PROVE i <= j
  <2>1. i \in Nat /\ j \in Nat
    BY <1>1
  <2>2. ~(j < i)
    BY <1>3, <2>1 DEF OpToRel
  <2>3. QED
    BY <2>1, <2>2
<1>5. QED
  BY <1>4 DEF First

\* The request will leave the message queued, or with a question to the user.
Holding(r, m) ==
    /\ r.msg = m
    /\ \/ r.op = "post"
       \/ r.op = "escalate" /\ At(r) = "feedback"
       \/ r.op = "answer" /\ At(r) \in {"find", "job"}

QueuedFor(m, l) == \E j \in JobIds : l[j] # None /\ l[j].msg = m /\ l[j].status = "queued"

\* With the chat c, the jobs l, the questions f and the requests q.
Kept(m, c, l, f, q) ==
    \/ c[m].replies > 0
    \/ QueuedFor(m, l)
    \/ \E i \in FeedbackIds : f[i] = Question(m, FALSE)
    \/ \E s \in Slots : Holding(q[s], m)

KeptInv ==
    (~raced /\ faults = 0) =>
        \A m \in Messages : chat[m].posted => Kept(m, chat, jobs, feedback, req)

THEOREM InitKept == Init => KeptInv
  BY DEF Init, KeptInv

LEMMA SetKept ==
    ASSUME ShapeInv, DoneInv, OrderInv, KeptInv, NEW s \in Slots, Write(s),
           ~raced', faults' = 0
    PROVE  KeptInv'
<1> DEFINE r == req[s]
<1>0. /\ BornIn(jobs, born) /\ ~raced /\ faults = 0
      /\ \A t \in Slots : t # s => req'[t] = req[t]
      /\ r # NoRequest /\ r.op \in Ops /\ r.msg \in Messages
      /\ Due(r, jobs, feedback, asked) /\ Counted(r, chat)
  BY SetState DEF ShapeInv, OrderInv, DoneInv
<1>1. \A m \in Messages : chat[m].posted => Kept(m, chat, jobs, feedback, req)
  BY <1>0 DEF KeptInv
<1> SUFFICES ASSUME NEW m \in Messages, chat'[m].posted
             PROVE  Kept(m, chat', jobs', feedback', req')
  BY DEF KeptInv
<1>2. m # r.msg => \A t \in Slots : Holding(req[t], m) => Holding(req'[t], m)
  BY <1>0 DEF Holding
<1>3. CASE /\ At(r) = "append" /\ r.op \in {"post", "reply"} /\ UNCHANGED <<jobs, feedback>>
           /\ \A n \in Messages : n # r.msg => chat'[n] = chat[n]
           /\ r.op = "reply" =>
                /\ chat'[r.msg].posted = chat[r.msg].posted
                /\ chat'[r.msg].replies =
                     IF chat[r.msg].replies = 2 THEN 2 ELSE chat[r.msg].replies + 1
           /\ Carries(req'[s], r)
  <2>1. CASE m = r.msg /\ r.op = "post"
    BY <1>3, <2>1 DEF Kept, Holding, Carries
  <2>2. CASE m = r.msg /\ r.op = "reply"
    <3>1. chat[r.msg].replies \in 0..2
      BY <1>0 DEF ShapeInv, TypeOK, Chats
    <3>2. chat'[m].replies > 0
      BY <1>3, <2>2, <3>1
    <3>3. QED
      BY <3>2 DEF Kept
  <2>3. CASE m # r.msg
    BY <1>1, <1>2, <1>3, <2>3 DEF Kept
  <2>4. QED
    BY <1>3, <2>1, <2>2, <2>3
<1>4. CASE /\ At(r) = "job" /\ UNCHANGED <<chat, feedback>>
           /\ r.job \in JobIds /\ jobs'[r.job] # None /\ jobs'[r.job].msg = r.msg
           /\ jobs'[r.job].status = Outcome[r.op]
           /\ born[r.job] # None /\ born[r.job].msg = r.msg
           /\ \A j \in JobIds : j # r.job => jobs'[j] = jobs[j]
           /\ r.op = "escalate" => Carries(req'[s], r) /\ At(req'[s]) = "feedback"
  <2>1. CASE m = r.msg /\ r.op \in {"post", "answer"}
    BY <1>4, <2>1, OutcomeFacts, ZenonT(30) DEF Kept, QueuedFor
  <2>2. CASE m = r.msg /\ r.op = "reply"
    BY <1>0, <1>4, <2>2 DEF Kept, Counted
  <2>3. CASE m = r.msg /\ r.op = "escalate"
    BY <1>4, <2>3 DEF Kept, Holding, Carries
  <2>4. CASE m # r.msg
    <3>1. QueuedFor(m, jobs) => QueuedFor(m, jobs')
      BY <1>0, <1>4, <2>4 DEF QueuedFor, BornIn
    <3>2. QED
      BY <1>1, <1>2, <1>4, <2>4, <3>1 DEF Kept
  <2>5. QED
    BY <1>0, <2>1, <2>2, <2>3, <2>4 DEF Ops
<1>5. CASE /\ At(r) = "feedback" /\ UNCHANGED <<chat, jobs>>
           /\ r.op \in {"escalate", "answer"} /\ r.fb \in FeedbackIds
           /\ \A f \in FeedbackIds : f # r.fb => feedback'[f] = feedback[f]
           /\ r.op = "escalate" => feedback'[r.fb] = Question(r.msg, FALSE)
           /\ r.op = "answer" => Carries(req'[s], r) /\ At(req'[s]) = "find"
  <2>1. CASE m = r.msg /\ r.op = "escalate"
    BY <1>5, <2>1 DEF Kept
  <2>2. CASE m = r.msg /\ r.op = "answer"
    BY <1>5, <2>2 DEF Kept, Holding, Carries
  <2>3. CASE m # r.msg
    <3>1. Question(m, FALSE) # None /\ Question(m, FALSE).msg = m
      BY ItemFacts
    <3>2. feedback[r.fb] # Question(m, FALSE)
      BY <1>0, <1>5, <2>3, <3>1 DEF Due
    <3>3. \A i \in FeedbackIds : feedback[i] = Question(m, FALSE) => feedback'[i] = Question(m, FALSE)
      BY <1>5, <3>2
    <3>4. QED
      BY <1>1, <1>2, <1>5, <2>3, <3>3 DEF Kept
  <2>4. QED
    BY <1>5, <2>1, <2>2, <2>3
<1>6. QED
  BY <1>3, <1>4, <1>5, SetState

THEOREM StepKept ==
    ShapeInv /\ DoneInv /\ OrderInv /\ KeptInv /\ [Next]_vars => KeptInv'
<1> SUFFICES ASSUME ShapeInv, DoneInv, OrderInv, KeptInv, [Next]_vars, ~raced', faults' = 0
             PROVE  KeptInv'
  BY DEF KeptInv
<1>0. TypeOK /\ faults \in Nat
  BY DEF ShapeInv, TypeOK
<1>1. ASSUME UNCHANGED <<chat, jobs, feedback, raced, faults>>,
             \A t \in Slots, m \in Messages : Holding(req[t], m) => Holding(req'[t], m)
      PROVE  KeptInv'
  <2>1. \A m \in Messages :
          Kept(m, chat, jobs, feedback, req) => Kept(m, chat, jobs, feedback, req')
    BY <1>1 DEF Kept
  <2>2. QED
    BY <1>1, <2>1 DEF KeptInv
<1>2. \A m \in Messages : ~Holding(NoRequest, m)
  BY NoRequestFacts DEF Holding
<1>3. ASSUME NEW s \in Slots, NEW j \in JobIds,
             \/ \E m \in Messages : Post(s, j, m)
             \/ \E f \in FeedbackIds : Answer(s, j, f)
             \/ Reply(s, j) \/ Escalate(s, j) \/ Excuse(s, j)
      PROVE  KeptInv'
  <2>1. /\ UNCHANGED <<chat, jobs, feedback, raced, faults>>
        /\ req[s] = NoRequest /\ \A t \in Slots : t # s => req'[t] = req[t]
    BY <1>0, <1>3, DashboardState, BridgeState
  <2>2. QED
    BY <1>1, <1>2, <2>1
<1>4. ASSUME NEW p \in Polls, Poll(p) \/ Deliver(p)
      PROVE  KeptInv'
  BY <1>0, <1>1, <1>4, PollState, DeliverState
<1>5. ASSUME NEW j \in JobIds, ThinkFails(j)
      PROVE  KeptInv'
  BY <1>0, <1>1, <1>5, ThinkFailsState
<1>6. ASSUME NEW s \in Slots, Lookup(s)
      PROVE  KeptInv'
  <2>1. /\ UNCHANGED <<chat, jobs, feedback, raced, faults>>
        /\ \A t \in Slots : t # s => req'[t] = req[t]
        /\ req[s].op = "answer" /\ At(req[s]) = "lookup"
    BY <1>6, LookupState
  <2>2. \A m \in Messages : ~Holding(req[s], m)
    BY <2>1 DEF Holding
  <2>3. QED
    BY <1>1, <2>1, <2>2
<1>7. ASSUME NEW s \in Slots, Find(s)
      PROVE  KeptInv'
  <2>1. /\ UNCHANGED <<chat, jobs, feedback, raced, faults>>
        /\ \A t \in Slots : t # s => req'[t] = req[t]
        /\ req[s] # NoRequest /\ req[s].op \in {"reply", "escalate", "answer"}
        /\ At(req[s]) = "find"
        /\ \/ req'[s] = NoRequest /\ (req[s].op # "reply" => First(OfMessage(req[s].msg)) = {})
           \/ Carries(req'[s], req[s]) /\ At(req'[s]) = "job"
    BY <1>7, FindState
  <2>2. ASSUME NEW m \in Messages, Holding(req[s], m)
        PROVE  Holding(req'[s], m)
    <3>1. req[s].op = "answer" /\ req[s].msg = m
      BY <2>1, <2>2 DEF Holding
    <3>2. First(OfMessage(m)) # {}
      <4>1. req[s].fb \in FeedbackIds
        BY <2>1, <3>1 DEF ShapeInv, Formed
      <4>2. Due(req[s], jobs, feedback, asked) /\ QuestionsOf(jobs, feedback, asked)
        BY <2>1 DEF OrderInv
      <4>3. HasJob(m, jobs)
        BY <3>1, <4>1, <4>2 DEF Due, QuestionsOf
      <4>4. OfMessage(m) # {} /\ OfMessage(m) \subseteq JobIds
        BY <4>3 DEF HasJob, OfMessage
      <4>5. QED
        BY <4>4, FirstFacts
    <3>3. Carries(req'[s], req[s]) /\ At(req'[s]) = "job"
      BY <2>1, <3>1, <3>2
    <3>4. QED
      BY <3>1, <3>3 DEF Holding, Carries
  <2>3. QED
    BY <1>1, <2>1, <2>2
<1>8. ASSUME NEW s \in Slots, Read(s)
      PROVE  KeptInv'
  <2>1. /\ UNCHANGED <<chat, jobs, feedback, raced, faults>>
        /\ \A t \in Slots : t # s => req'[t] = req[t]
        /\ req'[s].op = req[s].op /\ At(req'[s]) = At(req[s]) /\ req'[s].msg = req[s].msg
    BY <1>8, ReadState
  <2>2. \A m \in Messages : Holding(req[s], m) => Holding(req'[s], m)
    BY <2>1 DEF Holding
  <2>3. QED
    BY <1>1, <2>1, <2>2
<1>9. ASSUME NEW s \in Slots, Write(s)
      PROVE  KeptInv'
  BY <1>9, SetKept
<1>10. CASE AnyFault
  BY <1>0, <1>10, FaultState
<1>11. CASE UNCHANGED vars
  BY <1>1, <1>11 DEF vars, lists
<1>12. QED
  BY <1>3, <1>4, <1>5, <1>6, <1>7, <1>8, <1>9, <1>10, <1>11 DEF Next, Serve, AnyFault

\* If nothing dies and no set overwrites another's, a message that was posted is
\* replied to, queued, waiting for the user or in the hands of a request: what the
\* handlers of router.ts, each a chain of gets and sets, promise between them.
THEOREM NotForgotten == Spec => []NothingForgotten
<1>1. KeptInv => NothingForgotten
  <2> SUFFICES ASSUME KeptInv, ~raced, faults = 0, NEW m \in Messages, chat[m].posted
               PROVE  \/ chat[m].replies > 0
                      \/ \E j \in OfMessage(m) : Queued(j)
                      \/ \E f \in FeedbackIds : feedback[f] = Question(m, FALSE)
                      \/ \E s \in Slots : req[s].msg = m
    BY DEF NothingForgotten
  <2>1. Kept(m, chat, jobs, feedback, req)
    BY DEF KeptInv
  <2>2. QED
    BY <2>1 DEF Kept, QueuedFor, OfMessage, Queued, Holding
<1>2. QED
  BY <1>1, InitShape, StepShape, InitDone, StepDone, InitOrder, StepOrder,
     InitKept, StepKept, PTL DEF Spec

-----------------------------------------------------------------------------
(* A message is replied to once *)

\* What RepliedOnce asks of the run and of the message.
Calm(m) ==
    /\ ~raced /\ ~stale /\ faults = 0
    /\ \A f \in FeedbackIds : feedback[f] = None \/ feedback[f].msg # m

Served(r)    == r.op \in {"reply", "escalate"}
IsFor(j, m, b) == b[j] # None /\ b[j].msg = m

\* With the jobs l, the bridge's work w and n replies: how far the job has come.
Stands(j, l, w, n) ==
    \/ l[j] = None /\ w[j] = "idle" /\ n = 0
    \/ l[j] # None /\ l[j].status = "queued" /\ w[j] \in {"idle", "thinking", "sorry"} /\ n = 0
    \/ l[j] # None /\ l[j].status # "done" /\ w[j] \in {"posting", "excusing"} /\ n <= 1
    \/ l[j] # None /\ l[j].status = "done" /\ w[j] = "idle" /\ n = 1

\* A request of the bridge's: its job waits for it, and has what it has stored.
Serves(r, l, w, n) ==
    /\ r.by \in JobIds /\ w[r.by] \in {"posting", "excusing"} /\ l[r.by] # None
    /\ l[r.by].status = IF At(r) = "feedback" THEN "escalated_to_computer" ELSE "queued"
    /\ n = IF r.op = "reply" /\ At(r) # "append" THEN 1 ELSE 0

\* The message has one job, and that job at most one request.
Once(m, c, l, w, b, q) ==
    /\ \A i, j \in JobIds : (IsFor(i, m, b) /\ IsFor(j, m, b)) => i = j
    /\ (\A j \in JobIds : ~IsFor(j, m, b)) => c[m].replies = 0
    /\ \A j \in JobIds : IsFor(j, m, b) => Stands(j, l, w, c[m].replies)
    /\ \A s \in Slots : (Served(q[s]) /\ q[s].msg = m) => Serves(q[s], l, w, c[m].replies)
    /\ \A s, t \in Slots :
         (Served(q[s]) /\ q[s].msg = m /\ Served(q[t]) /\ q[t].msg = m) => s = t

ReplyInv == \A m \in Messages : Calm(m) => Once(m, chat, jobs, work, born, req)

\* A step that touches neither the message's job nor its replies.
LEMMA OnceFrame ==
    ASSUME NEW m, NEW c, NEW l, NEW w, NEW b, NEW q, Once(m, c, l, w, b, q),
           NEW c1, NEW l1, NEW w1, NEW b1, NEW q1, c1[m].replies = c[m].replies,
           \A j \in JobIds : IsFor(j, m, b1) <=> IsFor(j, m, b),
           \A j \in JobIds : IsFor(j, m, b) => l1[j] = l[j] /\ w1[j] = w[j],
           \A t \in Slots : (q[t].by \in JobIds /\ q[t].msg = m) => IsFor(q[t].by, m, b),
           \A t \in Slots : (Served(q1[t]) /\ q1[t].msg = m) =>
               /\ q[t].msg = m /\ q1[t].by = q[t].by /\ q1[t].op = q[t].op
               /\ \/ At(q1[t]) = At(q[t])
                  \/ At(q[t]) = "find" /\ At(q1[t]) = "job"
    PROVE  Once(m, c1, l1, w1, b1, q1)
<1>1. \A j \in JobIds : IsFor(j, m, b1) => Stands(j, l1, w1, c1[m].replies)
  BY DEF Once, Stands
<1>2. ASSUME NEW t \in Slots, Served(q1[t]), q1[t].msg = m
      PROVE  Serves(q1[t], l1, w1, c1[m].replies)
  <2>1. Serves(q[t], l, w, c[m].replies) /\ q[t].msg = m
    BY <1>2 DEF Once, Served
  <2>2. l1[q[t].by] = l[q[t].by] /\ w1[q[t].by] = w[q[t].by]
    BY <2>1 DEF Serves
  <2>3. QED
    BY <1>2, <2>1, <2>2 DEF Serves
<1>3. \A s, t \in Slots :
        (Served(q1[s]) /\ q1[s].msg = m /\ Served(q1[t]) /\ q1[t].msg = m) => s = t
  BY DEF Once, Served
<1>4. QED
  BY <1>1, <1>2, <1>3 DEF Once

THEOREM InitReply == Init => ReplyInv
  BY NoRequestFacts DEF Init, ReplyInv, Once, IsFor, Served

\* What the well-formedness of the requests says of a message's jobs.
LEMMA ForFacts ==
    ASSUME ShapeInv, NEW m \in Messages
    PROVE  /\ \A t \in Slots : (req[t].by \in JobIds /\ req[t].msg = m) => IsFor(req[t].by, m, born)
           /\ \A t \in Slots : (req[t].job \in JobIds /\ req[t].msg = m) => IsFor(req[t].job, m, born)
           /\ \A t \in Slots, j \in JobIds :
                (req[t].by = j /\ req[t].msg # m) => ~IsFor(j, m, born)
           /\ \A t \in Slots, j \in JobIds :
                (req[t].job = j /\ req[t].msg # m) => ~IsFor(j, m, born)
           /\ \A j \in JobIds : (jobs[j] # None /\ jobs[j].msg = m) => IsFor(j, m, born)
           /\ \A j \in JobIds : jobs[j] # None => (IsFor(j, m, born) <=> jobs[j].msg = m)
<1>1. \A j \in JobIds : j # None
  BY NoneAssumption DEF JobIds
<1>2. QED
  BY <1>1 DEF ShapeInv, Wellborn, BornAs, BornIn, IsFor

\* A message that is calm after a step was calm before it.
LEMMA CalmBefore ==
    ASSUME ShapeInv, OrderInv, [Next]_vars, NEW m \in Messages, Calm(m)'
    PROVE  Calm(m) /\ ~AnyFault
<1>0. TypeOK /\ faults \in Nat
  BY DEF ShapeInv, TypeOK
<1>1. /\ ~raced' /\ ~stale' /\ faults' = 0
      /\ \A f \in FeedbackIds : feedback'[f] = None \/ feedback'[f].msg # m
  BY DEF Calm
<1>2. ASSUME UNCHANGED <<feedback, raced, faults>>, stale => stale'
      PROVE  Calm(m) /\ faults' # faults + 1
  BY <1>0, <1>1, <1>2 DEF Calm
<1>3. AnyFault => faults' = faults + 1
  BY FaultState
<1>4. faults' # faults + 1
  BY <1>0, <1>1
<1>5. ASSUME NEW s \in Slots, NEW j \in JobIds,
             \/ \E n \in Messages : Post(s, j, n)
             \/ \E f \in FeedbackIds : Answer(s, j, f)
             \/ Reply(s, j) \/ Escalate(s, j) \/ Excuse(s, j)
      PROVE  Calm(m)
  BY <1>0, <1>2, <1>5, DashboardState, BridgeState
<1>6. ASSUME NEW p \in Polls, Poll(p) \/ Deliver(p)
      PROVE  Calm(m)
  BY <1>0, <1>2, <1>6, PollState, DeliverState
<1>7. ASSUME NEW j \in JobIds, ThinkFails(j)
      PROVE  Calm(m)
  BY <1>0, <1>2, <1>7, ThinkFailsState
<1>8. ASSUME NEW s \in Slots, Lookup(s) \/ Find(s) \/ Read(s)
      PROVE  Calm(m)
  BY <1>2, <1>8, LookupState, FindState, ReadState
<1>9. ASSUME NEW s \in Slots, Write(s)
      PROVE  Calm(m)
  <2>1. UNCHANGED <<stale, faults>> /\ ~raced
    BY <1>1, <1>9, SetState
  <2>2. CASE UNCHANGED feedback
    BY <1>1, <2>1, <2>2 DEF Calm
  <2>3. CASE /\ req[s].op \in {"escalate", "answer"} /\ req[s].fb \in FeedbackIds
             /\ feedback'[req[s].fb] # None /\ feedback'[req[s].fb].msg = req[s].msg
             /\ \A f \in FeedbackIds : f # req[s].fb => feedback'[f] = feedback[f]
    <3>1. Due(req[s], jobs, feedback, asked)
      BY <2>1 DEF OrderInv
    <3>2. feedback[req[s].fb] = None \/ feedback[req[s].fb].msg = req[s].msg
      BY <2>3, <3>1 DEF Due
    <3>3. req[s].msg # m
      BY <1>1, <2>3
    <3>4. QED
      BY <1>1, <2>1, <2>3, <3>2, <3>3 DEF Calm
  <2>4. QED
    BY <1>1, <1>9, <2>2, <2>3, SetState
<1>10. ASSUME UNCHANGED vars
       PROVE  Calm(m)
  BY <1>2, <1>10 DEF vars, lists
<1>11. QED
  BY <1>3, <1>4, <1>5, <1>6, <1>7, <1>8, <1>9, <1>10 DEF Next, Serve, AnyFault

\* A new message, or the answer to a question.
LEMMA DashboardOnce ==
    ASSUME ShapeInv, NEW m \in Messages, Calm(m), Once(m, chat, jobs, work, born, req),
           NEW s \in Slots, NEW j \in JobIds,
           \/ \E n \in Messages : Post(s, j, n)
           \/ \E f \in FeedbackIds : Answer(s, j, f)
    PROVE  Once(m, chat, jobs, work, born, req)'
<1>0. TypeOK /\ BornIn(jobs, born) /\ \A i \in JobIds : work[i] # "idle" => born[i] # None
  BY DEF ShapeInv
<1>1. /\ UNCHANGED <<chat, jobs, work>> /\ \A t \in Slots : t # s => req'[t] = req[t]
      /\ req'[s].op \in {"post", "answer"}
      /\ req'[s].op = "post" => req'[s].msg \notin Posted
      /\ req'[s].op = "answer" =>
           /\ req'[s].fb \in FeedbackIds
           /\ feedback[req'[s].fb] # None /\ feedback[req'[s].fb].msg = req'[s].msg
      /\ born[j] = None /\ born'[j] # None /\ born'[j].msg = req'[s].msg
      /\ \A i \in JobIds : i # j => born'[i] = born[i]
  BY <1>0, DashboardState
<1>2. CASE req'[s].msg # m
  <2>1. \A i \in JobIds : IsFor(i, m, born') <=> IsFor(i, m, born)
    BY <1>1, <1>2 DEF IsFor
  <2>2. \A t \in Slots : (Served(req'[t]) /\ req'[t].msg = m) => req'[t] = req[t]
    BY <1>1 DEF Served
  <2>3. QED
    BY <1>1, <2>1, <2>2, ForFacts, OnceFrame
<1>3. CASE req'[s].msg = m
  <2>1. req'[s].op = "post"
    BY <1>1, <1>3 DEF Calm
  <2>2. \A i \in JobIds : ~IsFor(i, m, born)
    BY <1>1, <1>3, <2>1 DEF Posted, IsFor
  <2>3. \A i \in JobIds : IsFor(i, m, born') => i = j
    BY <1>1, <2>2 DEF IsFor
  <2>4. IsFor(j, m, born')
    BY <1>1, <1>3 DEF IsFor
  <2>5. chat[m].replies = 0
    BY <2>2 DEF Once
  <2>6. jobs[j] = None /\ work[j] = "idle"
    BY <1>0, <1>1 DEF BornIn
  <2>7. Stands(j, jobs, work, chat[m].replies)
    BY <2>5, <2>6 DEF Stands
  <2>8. \A t \in Slots : (Served(req'[t]) /\ req'[t].msg = m) => req'[t] = req[t]
    BY <1>1 DEF Served
  <2>9. QED
    BY <1>1, <2>3, <2>4, <2>7, <2>8 DEF Once
<1>4. QED
  BY <1>2, <1>3

\* The bridge posts for a job that is queued and has no request yet.
LEMMA BridgeOnce ==
    ASSUME ShapeInv, NEW m \in Messages, Once(m, chat, jobs, work, born, req),
           NEW s \in Slots, NEW j \in JobIds, Reply(s, j) \/ Escalate(s, j) \/ Excuse(s, j)
    PROVE  Once(m, chat, jobs, work, born, req)'
<1>1. /\ UNCHANGED <<chat, jobs, born>> /\ \A t \in Slots : t # s => req'[t] = req[t]
      /\ born[j] # None /\ req'[s].op \in {"reply", "escalate"}
      /\ At(req'[s]) = IF req'[s].op = "reply" THEN "append" ELSE "find"
      /\ req'[s].msg = born[j].msg /\ req'[s].by = j
      /\ work[j] \in {"thinking", "sorry"} /\ work'[j] \in {"posting", "excusing"}
      /\ \A i \in JobIds : i # j => work'[i] = work[i]
  BY BridgeState
<1>2. CASE born[j].msg # m
  <2>1. ~IsFor(j, m, born)
    BY <1>2 DEF IsFor
  <2>2. \A i \in JobIds : IsFor(i, m, born) => work'[i] = work[i]
    BY <1>1, <2>1
  <2>3. \A t \in Slots : req'[t].msg = m => req'[t] = req[t]
    BY <1>1, <1>2
  <2>4. QED
    BY <1>1, <2>2, <2>3, ForFacts, OnceFrame
<1>3. CASE born[j].msg = m
  <2>1. IsFor(j, m, born) /\ \A i \in JobIds : IsFor(i, m, born) => i = j
    BY <1>1, <1>3 DEF IsFor, Once
  <2>2. jobs[j] # None /\ jobs[j].status = "queued" /\ chat[m].replies = 0
    BY <1>1, <2>1 DEF Once, Stands
  <2>3. \A t \in Slots : ~(Served(req[t]) /\ req[t].msg = m)
    <3>1. SUFFICES ASSUME NEW t \in Slots, Served(req[t]), req[t].msg = m PROVE FALSE
      OBVIOUS
    <3>2. req[t].by \in JobIds /\ work[req[t].by] \in {"posting", "excusing"}
      BY <3>1 DEF Once, Serves
    <3>3. IsFor(req[t].by, m, born)
      BY <3>1, <3>2, ForFacts
    <3>4. QED
      BY <1>1, <2>1, <3>2, <3>3
  <2>4. \A t \in Slots : (Served(req'[t]) /\ req'[t].msg = m) => t = s
    BY <1>1, <2>3
  <2>5. Stands(j, jobs, work', chat[m].replies)
    BY <1>1, <2>2 DEF Stands
  <2>6. Serves(req'[s], jobs, work', chat[m].replies)
    BY <1>1, <2>2 DEF Serves
  <2>7. QED
    BY <1>1, <2>1, <2>4, <2>5, <2>6 DEF Once
<1>4. QED
  BY <1>2, <1>3

\* Jobs are started, or the model fails on one.
LEMMA WorkOnce ==
    ASSUME ShapeInv, NEW m \in Messages, Calm(m)', Once(m, chat, jobs, work, born, req),
           \/ \E p \in Polls : Deliver(p)
           \/ \E j \in JobIds : ThinkFails(j)
    PROVE  Once(m, chat, jobs, work, born, req)'
<1>0. TypeOK
  BY DEF ShapeInv
<1>1. UNCHANGED <<chat, jobs, born, req>>
  BY <1>0, DeliverState, ThinkFailsState
<1>2. ASSUME NEW j \in JobIds
      PROVE  \/ work'[j] = work[j]
             \/ /\ work[j] = "idle" /\ work'[j] = "thinking"
                /\ jobs[j] # None /\ jobs[j].status = "queued"
             \/ work[j] = "thinking" /\ work'[j] \in {"idle", "sorry"}
  <2>1. ~stale'
    BY DEF Calm
  <2>2. QED
    BY <1>0, <2>1, DeliverState, ThinkFailsState DEF Queued
<1>3. \A j \in JobIds : IsFor(j, m, born) => Stands(j, jobs, work', chat[m].replies)
  BY <1>2 DEF Once, Stands
<1>4. ASSUME NEW t \in Slots, Served(req[t]), req[t].msg = m
      PROVE  Serves(req[t], jobs, work', chat[m].replies)
  BY <1>2, <1>4 DEF Once, Serves
<1>5. QED
  BY <1>1, <1>3, <1>4 DEF Once

\* The search of a request of the bridge's finds the job that waits for it.
LEMMA MoveOnce ==
    ASSUME ShapeInv, NEW m \in Messages, Once(m, chat, jobs, work, born, req),
           NEW s \in Slots, Lookup(s) \/ Find(s) \/ Read(s)
    PROVE  Once(m, chat, jobs, work, born, req)'
<1>1. CASE Lookup(s)
  <2>1. /\ UNCHANGED <<chat, jobs, work, born>> /\ \A t \in Slots : t # s => req'[t] = req[t]
        /\ req[s].op = "answer"
        /\ req'[s] = NoRequest \/ Carries(req'[s], req[s])
    BY <1>1, LookupState
  <2>2. ~Served(req'[s])
    BY <2>1, NoRequestFacts DEF Served, Carries
  <2>3. \A t \in Slots : Served(req'[t]) => req'[t] = req[t]
    BY <2>1, <2>2
  <2>4. QED
    BY <2>1, <2>3, ForFacts, OnceFrame
<1>2. CASE Read(s)
  <2>1. /\ UNCHANGED <<chat, jobs, work, born>> /\ \A t \in Slots : t # s => req'[t] = req[t]
        /\ req'[s].op = req[s].op /\ At(req'[s]) = At(req[s])
        /\ req'[s].msg = req[s].msg /\ req'[s].by = req[s].by
    BY <1>2, ReadState
  <2>2. QED
    BY <2>1, ForFacts, OnceFrame
<1>3. CASE Find(s)
  <2>1. /\ UNCHANGED <<chat, jobs, born>> /\ \A t \in Slots : t # s => req'[t] = req[t]
        /\ req[s] # NoRequest /\ req[s].op \in {"reply", "escalate", "answer"}
        /\ At(req[s]) = "find"
        /\ \/ /\ req'[s] = NoRequest /\ Tells(s, {"idle", "sorry"})
              /\ req[s].op = "reply" => FirstOpen(req[s].msg) = {}
              /\ req[s].op # "reply" => First(OfMessage(req[s].msg)) = {}
           \/ Carries(req'[s], req[s]) /\ At(req'[s]) = "job" /\ UNCHANGED work
    BY <1>3, FindState
  <2>2. CASE Carries(req'[s], req[s]) /\ At(req'[s]) = "job" /\ UNCHANGED work
    <3>1. \A t \in Slots :
            /\ req'[t].msg = req[t].msg /\ req'[t].by = req[t].by /\ req'[t].op = req[t].op
            /\ At(req'[t]) = At(req[t]) \/ (At(req[t]) = "find" /\ At(req'[t]) = "job")
      BY <2>1, <2>2 DEF Carries
    <3>2. QED
      BY <2>1, <2>2, <3>1, ForFacts, OnceFrame
  <2>3. CASE /\ req'[s] = NoRequest /\ Tells(s, {"idle", "sorry"})
             /\ req[s].op = "reply" => FirstOpen(req[s].msg) = {}
             /\ req[s].op # "reply" => First(OfMessage(req[s].msg)) = {}
    <3>1. ~(Served(req[s]) /\ req[s].msg = m)
      <4>1. SUFFICES ASSUME Served(req[s]), req[s].msg = m PROVE FALSE
        OBVIOUS
      <4>2. Serves(req[s], jobs, work, chat[m].replies)
        BY <4>1 DEF Once
      <4>3. /\ req[s].by \in JobIds /\ jobs[req[s].by] # None
            /\ jobs[req[s].by].status = "queued" /\ IsFor(req[s].by, m, born)
        BY <2>1, <4>1, <4>2, ForFacts DEF Serves
      <4>4. jobs[req[s].by].msg = m
        BY <4>3, ForFacts
      <4>5. req[s].by \in {j \in OfMessage(m) : jobs[j].status # "done"}
        BY <4>3, <4>4 DEF OfMessage
      <4>6. FirstOpen(m) # {} /\ First(OfMessage(m)) # {}
        BY <4>5, FirstFacts DEF FirstOpen, OfMessage
      <4>7. QED
        BY <2>3, <4>1, <4>6
    <3>2. \A j \in JobIds : IsFor(j, m, born) => work'[j] = work[j]
      <4>1. SUFFICES ASSUME NEW j \in JobIds, IsFor(j, m, born) PROVE req[s].by # j
        BY <2>3 DEF Tells
      <4>2. CASE req[s].msg = m
        <5>1. req[s].op = "answer"
          BY <2>1, <3>1, <4>2 DEF Served
        <5>2. req[s].by = None
          BY <2>1, <5>1 DEF ShapeInv, Formed
        <5>3. QED
          BY <5>2, NoneAssumption DEF JobIds
      <4>3. CASE req[s].msg # m
        BY <4>1, <4>3, ForFacts
      <4>4. QED
        BY <4>2, <4>3
    <3>3. \A t \in Slots : Served(req'[t]) => req'[t] = req[t]
      BY <2>1, <2>3, NoRequestFacts DEF Served
    <3>4. QED
      BY <2>1, <3>2, <3>3, ForFacts, OnceFrame
  <2>4. QED
    BY <2>1, <2>2, <2>3
<1>4. QED
  BY <1>1, <1>2, <1>3

\* A set: the reply is counted once, and the job closed after it.
LEMMA SetOnce ==
    ASSUME ShapeInv, OrderInv, NEW m \in Messages, Calm(m)', Once(m, chat, jobs, work, born, req),
           NEW s \in Slots, Write(s)
    PROVE  Once(m, chat, jobs, work, born, req)'
<1> DEFINE r == req[s]
           n == chat[m].replies
<1>0. /\ ~raced' /\ UNCHANGED born /\ ~raced
      /\ \A t \in Slots : t # s => req'[t] = req[t]
      /\ r # NoRequest /\ r.op \in Ops /\ r.msg \in Messages
      /\ Due(r, jobs, feedback, asked)
      /\ r.op \in {"post", "answer"} => r.by = None
      /\ \A j \in JobIds : j # None
  <2>1. ~raced'
    BY DEF Calm
  <2>2. /\ UNCHANGED born /\ ~raced
        /\ \A t \in Slots : t # s => req'[t] = req[t]
        /\ r # NoRequest /\ r.op \in Ops /\ r.msg \in Messages
    BY <2>1, SetState
  <2>3. Due(r, jobs, feedback, asked)
    BY <2>2 DEF OrderInv
  <2>4. r.op \in {"post", "answer"} => r.by = None
    BY <2>2 DEF ShapeInv, Formed
  <2>5. \A j \in JobIds : j # None
    BY NoneAssumption DEF JobIds
  <2>6. QED
    BY <2>1, <2>2, <2>3, <2>4, <2>5
<1>1. CASE r.msg # m
  <2>1. chat'[m].replies = chat[m].replies
    BY <1>1, <1>0, SetState
  <2>2. ASSUME NEW j \in JobIds, IsFor(j, m, born)
        PROVE  jobs'[j] = jobs[j] /\ work'[j] = work[j]
    <3>1. r.by # j /\ r.job # j
      BY <1>1, <2>2, ForFacts
    <3>2. jobs'[j] = jobs[j]
      BY <1>0, <2>2, <3>1, SetState
    <3>3. Tells(s, {"idle"}) \/ UNCHANGED work
      BY <1>0, SetState DEF Ops
    <3>4. QED
      BY <3>1, <3>2, <3>3 DEF Tells
  <2>3. req'[s] = NoRequest \/ req'[s].msg = r.msg
    BY <1>0, SetState DEF Alike
  <2>4. \A t \in Slots : (Served(req'[t]) /\ req'[t].msg = m) => req'[t] = req[t]
    BY <1>0, <1>1, <2>3, NoRequestFacts DEF Served
  <2>5. QED
    BY <1>0, <2>1, <2>2, <2>4, ForFacts, OnceFrame
<1>2. CASE r.msg = m
  <2>0. /\ \A i, j \in JobIds : (IsFor(i, m, born) /\ IsFor(j, m, born)) => i = j
        /\ \A j \in JobIds : IsFor(j, m, born) => Stands(j, jobs, work, n)
        /\ \A t \in Slots : (Served(req[t]) /\ req[t].msg = m) => Serves(req[t], jobs, work, n)
        /\ \A t, u \in Slots :
             (Served(req[t]) /\ req[t].msg = m /\ Served(req[u]) /\ req[u].msg = m) => t = u
        /\ (\A j \in JobIds : ~IsFor(j, m, born)) => n = 0
        /\ \A t \in Slots : (Served(req[t]) /\ req[t].msg = m) =>
              req[t].by \in JobIds /\ IsFor(req[t].by, m, born)
    <3>1. Once(m, chat, jobs, work, born, req)
      OBVIOUS
    <3>2. \A t \in Slots : (Served(req[t]) /\ req[t].msg = m) => Serves(req[t], jobs, work, n)
      BY <3>1 DEF Once
    <3>3. QED
      BY <3>1, <3>2, ForFacts DEF Once, Serves
  <2>1. CASE /\ At(r) = "append" /\ r.op \in {"post", "reply"}
             /\ UNCHANGED <<jobs, feedback, work>>
             /\ r.op = "post" => chat'[m].replies = n
             /\ r.op = "reply" => chat'[m].replies = IF n = 2 THEN 2 ELSE n + 1
             /\ Carries(req'[s], r)
             /\ At(req'[s]) = IF r.op = "post" THEN "job" ELSE "find"
    <3>1. CASE r.op = "post"
      <4>1. \A t \in Slots : Served(req'[t]) => req'[t] = req[t]
        BY <1>0, <2>1, <3>1 DEF Served, Carries
      <4>2. QED
        BY <1>0, <2>1, <3>1, <4>1, ForFacts, OnceFrame
    <3>2. CASE r.op = "reply"
      <4>1. /\ Served(r) /\ Serves(r, jobs, work, n) /\ r.by \in JobIds /\ IsFor(r.by, m, born)
        BY <1>2, <2>0, <3>2 DEF Served
      <4>2. /\ work[r.by] \in {"posting", "excusing"} /\ jobs[r.by] # None
            /\ jobs[r.by].status = "queued" /\ n = 0 /\ chat'[m].replies = 1
        BY <2>1, <3>2, <4>1 DEF Serves
      <4>3. \A j \in JobIds : IsFor(j, m, born) => Stands(j, jobs, work, chat'[m].replies)
        BY <2>0, <4>1, <4>2 DEF Stands
      <4>4. /\ req'[s].by = r.by /\ req'[s].op = "reply" /\ At(req'[s]) = "find"
        BY <2>1, <3>2 DEF Carries
      <4>5. Serves(req'[s], jobs, work, chat'[m].replies)
        BY <4>1, <4>2, <4>4 DEF Serves
      <4>6. \A t \in Slots : (Served(req'[t]) /\ req'[t].msg = m) => t = s
        BY <1>0, <1>2, <2>0, <4>1
      <4>7. QED
        BY <1>0, <2>0, <2>1, <4>1, <4>3, <4>5, <4>6 DEF Once
    <3>3. QED
      BY <2>1, <3>1, <3>2
  <2>2. CASE /\ At(r) = "job" /\ UNCHANGED <<chat, feedback>>
             /\ r.job \in JobIds /\ jobs'[r.job] # None
             /\ jobs'[r.job].status = Outcome[r.op] /\ IsFor(r.job, m, born)
             /\ \A j \in JobIds : j # r.job => jobs'[j] = jobs[j]
             /\ r.op = "escalate" =>
                  /\ Carries(req'[s], r) /\ At(req'[s]) = "feedback" /\ UNCHANGED work
             /\ r.op # "escalate" => req'[s] = NoRequest /\ Tells(s, {"idle"})
    <3>1. CASE r.op \in {"post", "answer"}
      <4>1. jobs[r.job] = None /\ jobs'[r.job].status = "queued" /\ req'[s] = NoRequest
        BY <1>0, <2>2, <3>1, OutcomeFacts DEF Due, Creating
      <4>2. work[r.job] = "idle" /\ n = 0
        BY <2>0, <2>2, <4>1 DEF Stands
      <4>3. \A j \in JobIds : work'[j] = work[j]
        BY <1>0, <2>2, <3>1 DEF Tells
      <4>4. Stands(r.job, jobs', work', n)
        BY <2>2, <4>1, <4>2, <4>3 DEF Stands
      <4>5. \A t \in Slots : ~(Served(req[t]) /\ req[t].msg = m)
        <5>1. SUFFICES ASSUME NEW t \in Slots, Served(req[t]), req[t].msg = m PROVE FALSE
          OBVIOUS
        <5>2. req[t].by = r.job /\ jobs[req[t].by] # None
          BY <2>0, <2>2, <5>1 DEF Serves
        <5>3. QED
          BY <4>1, <5>2
      <4>6. \A t \in Slots : ~(Served(req'[t]) /\ req'[t].msg = m)
        BY <1>0, <4>1, <4>5, NoRequestFacts DEF Served
      <4>7. QED
        BY <1>0, <2>0, <2>2, <4>4, <4>6 DEF Once
    <3>2. CASE r.op \in {"reply", "escalate"}
      <4>1. /\ Served(r) /\ Serves(r, jobs, work, n) /\ r.by \in JobIds /\ r.by = r.job
        BY <1>2, <2>0, <2>2, <3>2 DEF Served
      <4>2. \A t \in Slots : (Served(req'[t]) /\ req'[t].msg = m) => t = s
        BY <1>0, <1>2, <2>0, <4>1
      <4>3. CASE r.op = "reply"
        <5>1. /\ work'[r.job] = "idle" /\ jobs'[r.job].status = "done" /\ n = 1
              /\ req'[s] = NoRequest
          BY <2>2, <4>1, <4>3, OutcomeFacts DEF Serves, Tells
        <5>2. Stands(r.job, jobs', work', n)
          BY <2>2, <5>1 DEF Stands
        <5>3. \A t \in Slots : ~(Served(req'[t]) /\ req'[t].msg = m)
          BY <4>2, <5>1, NoRequestFacts DEF Served
        <5>4. QED
          BY <1>0, <2>0, <2>2, <5>2, <5>3 DEF Once
      <4>4. CASE r.op = "escalate"
        <5>1. /\ work'[r.job] \in {"posting", "excusing"} /\ n = 0
              /\ jobs'[r.job].status = "escalated_to_computer"
              /\ req'[s].by = r.job /\ req'[s].op = "escalate" /\ At(req'[s]) = "feedback"
          BY <2>2, <4>1, <4>4, OutcomeFacts DEF Serves, Carries
        <5>2. Stands(r.job, jobs', work', n)
          BY <2>2, <5>1 DEF Stands
        <5>3. Serves(req'[s], jobs', work', n)
          BY <2>2, <5>1 DEF Serves
        <5>4. QED
          BY <1>0, <2>0, <2>2, <4>2, <5>2, <5>3 DEF Once
      <4>5. QED
        BY <3>2, <4>3, <4>4
    <3>3. QED
      BY <1>0, <3>1, <3>2 DEF Ops
  <2>3. CASE /\ r.fb \in FeedbackIds /\ feedback'[r.fb] # None
             /\ feedback'[r.fb].msg = r.msg
    BY <1>2, <2>3 DEF Calm
  <2>4. QED
    BY <1>0, <1>2, <2>1, <2>2, <2>3, SetState DEF IsFor
<1>3. QED
  BY <1>1, <1>2

THEOREM StepReply == ShapeInv /\ OrderInv /\ ReplyInv /\ [Next]_vars => ReplyInv'
<1> SUFFICES ASSUME ShapeInv, OrderInv, ReplyInv, [Next]_vars,
                    NEW m \in Messages, Calm(m)'
             PROVE  Once(m, chat, jobs, work, born, req)'
  BY DEF ReplyInv
<1>1. Calm(m) /\ ~AnyFault
  BY CalmBefore
<1>2. Once(m, chat, jobs, work, born, req) /\ TypeOK
  BY <1>1 DEF ReplyInv, ShapeInv
<1>3. ASSUME NEW s \in Slots, NEW j \in JobIds,
             \/ \E n \in Messages : Post(s, j, n)
             \/ \E f \in FeedbackIds : Answer(s, j, f)
      PROVE  Once(m, chat, jobs, work, born, req)'
  BY <1>1, <1>2, <1>3, DashboardOnce
<1>4. ASSUME NEW s \in Slots, NEW j \in JobIds, Reply(s, j) \/ Escalate(s, j) \/ Excuse(s, j)
      PROVE  Once(m, chat, jobs, work, born, req)'
  BY <1>2, <1>4, BridgeOnce
<1>5. ASSUME NEW p \in Polls, Poll(p)
      PROVE  Once(m, chat, jobs, work, born, req)'
  <2>1. UNCHANGED <<chat, jobs, work, born, req>>
    BY <1>2, <1>5, PollState
  <2>2. QED
    BY <1>2, <2>1
<1>6. CASE \/ \E p \in Polls : Deliver(p)
           \/ \E j \in JobIds : ThinkFails(j)
  BY <1>2, <1>6, WorkOnce
<1>7. ASSUME NEW s \in Slots, Lookup(s) \/ Find(s) \/ Read(s)
      PROVE  Once(m, chat, jobs, work, born, req)'
  BY <1>2, <1>7, MoveOnce
<1>8. ASSUME NEW s \in Slots, Write(s)
      PROVE  Once(m, chat, jobs, work, born, req)'
  BY <1>2, <1>8, SetOnce
<1>9. CASE UNCHANGED vars
  BY <1>2, <1>9 DEF vars, lists, bridge
<1>10. QED
  BY <1>1, <1>3, <1>4, <1>5, <1>6, <1>7, <1>8, <1>9 DEF Next, Serve, AnyFault

\* A message gets at most one reply of the bridge's, unless sets overwrite each
\* other, something dies, an old poll starts a job again or the message was
\* escalated: _inFlight (openclaw-bridge.js) and the job's status are enough.
THEOREM OneReply == Spec => []RepliedOnce
<1>1. ReplyInv => RepliedOnce
  <2> SUFFICES ASSUME ReplyInv, NEW m \in Messages, Calm(m)
               PROVE  chat[m].replies <= 1
    BY DEF RepliedOnce, Calm
  <2>1. Once(m, chat, jobs, work, born, req)
    BY DEF ReplyInv
  <2>2. CASE \A j \in JobIds : ~IsFor(j, m, born)
    BY <2>1, <2>2 DEF Once
  <2>3. ASSUME NEW j \in JobIds, IsFor(j, m, born)
        PROVE  chat[m].replies <= 1
    BY <2>1, <2>3 DEF Once, Stands
  <2>4. QED
    BY <2>2, <2>3
<1>2. QED
  BY <1>1, InitShape, StepShape, InitOrder, StepOrder, InitReply, StepReply, PTL DEF Spec
=============================================================================
