---------------------------- MODULE InboundProofs ----------------------------
(***************************************************************************)
(* Theorems about Inbound, for every set of events and users and every     *)
(* number of deliveries and of changes of the registry.                    *)
(***************************************************************************)
EXTENDS Inbound, FiniteSetTheorems, TLAPS

Places == {"new", "lookup", "resolve", "submit", "record", "answered", "dead"}

DeliveryStates ==
    [at : Places, event : Events \union {None}, uid : Users \union {System, None},
     expected : Users \union {Unsure, Nobody}, ok : BOOLEAN, job : Deliveries \union {None}]

ChangeStates ==
    [op : {"new", "bind", "revoke", "done"}, uid : Users \union {None},
     copy : Identities \union {None}, alone : BOOLEAN]

JobDocuments == [event : Events, uid : Users \union {System}]

\* Every variable keeps its shape; a delivery that has come in is of an event, one that
\* is about to submit has a uid and a bind names its user.
TypeOK ==
    /\ content \in [Events -> Contents]
    /\ records \in [Events -> Deliveries \union {None}]
    /\ jobs \in [Deliveries -> JobDocuments \union {None}]
    /\ delivery \in [Deliveries -> DeliveryStates]
    /\ identity \in Identities \union {None}
    /\ change \in [Changes -> ChangeStates]
    /\ told \in Users \union {Unsure, Nobody}
    /\ blind \subseteq Deliveries

TypeInv ==
    /\ TypeOK
    /\ \A d \in Deliveries : /\ delivery[d].at # "new" => Event(d) \in Events
                             /\ delivery[d].at = "submit" => delivery[d].uid # None
    /\ \A c \in Changes : change[c].op = "bind" => change[c].uid \in Users

\* What Stops makes of a delivery.
LEMMA StopsState ==
    ASSUME TypeOK, NEW d \in Deliveries, NEW at \in Places, NEW ok \in BOOLEAN,
           NEW job \in Deliveries \union {None}, Stops(d, at, ok, job)
    PROVE  /\ delivery' \in [Deliveries -> DeliveryStates]
           /\ delivery'[d].at = at /\ delivery'[d].ok = ok /\ delivery'[d].job = job
           /\ delivery'[d].event = delivery[d].event
           /\ delivery'[d].expected = delivery[d].expected
           /\ \A b \in Deliveries \ {d} : delivery'[b] = delivery[b]
  BY DEF TypeOK, Stops, DeliveryStates

\* The uid of a job that is to be submitted is known.
LEMMA JobUidType ==
    ASSUME NEW c \in Contents, NEW owner \in Users \union {None}, ToJob(c) # None
    PROVE  JobUid(c, owner) \in Users \union {System} /\ JobUid(c, owner) # None
  BY NoneAssumption DEF Contents, ToJob, JobUid, System

\* A delivery that is not answered from a record is answered, its mapping dropping the
\* event, or goes on to submit a job.
LEMMA ProceedsState ==
    ASSUME TypeInv, NEW d \in Deliveries, delivery[d].at # "new", NEW owner \in Users \union {None},
           Proceeds(d, owner)
    PROVE  /\ delivery' \in [Deliveries -> DeliveryStates]
           /\ \/ /\ ToJob(Content(d)) = None
                 /\ delivery'[d].at = "answered" /\ delivery'[d].ok /\ delivery'[d].job = None
              \/ /\ ToJob(Content(d)) # None
                 /\ delivery'[d].at = "submit"
                 /\ delivery'[d].uid = JobUid(Content(d), owner) /\ delivery'[d].uid # None
                 /\ delivery'[d].ok = delivery[d].ok /\ delivery'[d].job = delivery[d].job
           /\ delivery'[d].event = delivery[d].event
           /\ delivery'[d].expected = delivery[d].expected
           /\ \A b \in Deliveries \ {d} : delivery'[b] = delivery[b]
<1>1. Content(d) \in Contents /\ delivery[d] \in DeliveryStates
  BY DEF TypeInv, TypeOK, Content, Event
<1>2. CASE ToJob(Content(d)) = None
  <2>1. Stops(d, "answered", TRUE, None)
    BY <1>2 DEF Proceeds, Answers
  <2>2. QED
    BY <1>2, <2>1, StopsState DEF TypeInv, Places
<1>3. CASE ToJob(Content(d)) # None
  <2>1. JobUid(Content(d), owner) \in Users \union {System} /\ JobUid(Content(d), owner) # None
    BY <1>1, <1>3, JobUidType
  <2>2. delivery' = [delivery EXCEPT ![d] = [@ EXCEPT !.at = "submit", !.uid = JobUid(Content(d), owner)]]
    BY <1>3 DEF Proceeds
  <2>3. QED
    BY <1>3, <2>1, <2>2 DEF TypeInv, TypeOK, DeliveryStates, Places
<1>4. QED
  BY <1>2, <1>3

\* What the lookup of an event makes of its delivery.
LEMMA LookupState ==
    ASSUME TypeInv, NEW d \in Deliveries, Lookup(d)
    PROVE  /\ delivery[d].at = "lookup" /\ Event(d) \in Events
           /\ UNCHANGED <<content, records, jobs, identity, change, told>>
           /\ delivery' \in [Deliveries -> DeliveryStates]
           /\ delivery'[d].event = delivery[d].event
           /\ delivery'[d].expected = delivery[d].expected
           /\ \A b \in Deliveries \ {d} : delivery'[b] = delivery[b]
           /\ \/ /\ Replayed(d)
                 /\ delivery'[d].at = "answered" /\ delivery'[d].ok
                 /\ delivery'[d].job = records[Event(d)]
              \/ ~Replayed(d) /\ delivery'[d].at = "answered" /\ ~delivery'[d].ok /\ delivery'[d].job = None
              \/ /\ ~Replayed(d) /\ delivery'[d].at = "answered" /\ delivery'[d].job = None
                 /\ ToJob(Content(d)) = None
              \/ /\ ~Replayed(d) /\ delivery'[d].at = "resolve"
                 /\ delivery'[d].ok = delivery[d].ok /\ delivery'[d].job = delivery[d].job
              \/ /\ ~Replayed(d) /\ ~Content(d).handled /\ delivery'[d].at = "submit"
                 /\ delivery'[d].uid # None
                 /\ delivery'[d].ok = delivery[d].ok /\ delivery'[d].job = delivery[d].job
<1>1. delivery[d].at = "lookup" /\ UNCHANGED <<content, records, jobs, identity, change, told>>
  BY DEF Lookup
<1>2. Event(d) \in Events /\ Content(d) \in Contents
  BY <1>1 DEF TypeInv, TypeOK, Content
<1>3. CASE Replayed(d)
  <2>1. Stops(d, "answered", TRUE, records[Event(d)])
    BY <1>3 DEF Lookup, Answers
  <2>2. records[Event(d)] \in Deliveries \union {None}
    BY <1>2 DEF TypeInv, TypeOK
  <2>3. QED
    BY <1>1, <1>2, <1>3, <2>1, <2>2, StopsState, ZenonT(30) DEF TypeInv, Places
<1>4. CASE ~Replayed(d) /\ Content(d).mapping = "unknown"
  <2>1. Stops(d, "answered", FALSE, None)
    BY <1>4 DEF Lookup, Answers
  <2>2. QED
    BY <1>1, <1>2, <1>4, <2>1, StopsState DEF TypeInv, Places
<1>5. CASE ~Replayed(d) /\ Content(d).mapping # "unknown" /\ Content(d).handled
  <2>1. delivery' = [delivery EXCEPT ![d].at = "resolve"]
    BY <1>5 DEF Lookup
  <2>2. QED
    BY <1>1, <1>2, <1>5, <2>1 DEF TypeInv, TypeOK, DeliveryStates, Places
<1>6. CASE ~Replayed(d) /\ Content(d).mapping # "unknown" /\ ~Content(d).handled
  <2>1. Proceeds(d, None)
    BY <1>6 DEF Lookup
  <2>2. QED
    BY <1>1, <1>2, <1>6, <2>1, ProceedsState
<1>7. QED
  BY <1>3, <1>4, <1>5, <1>6

\* What resolveIdentity()'s answer makes of a delivery.
LEMMA ResolveState ==
    ASSUME TypeInv, NEW d \in Deliveries, Resolve(d)
    PROVE  /\ delivery[d].at = "resolve" /\ Event(d) \in Events
           /\ UNCHANGED <<content, records, jobs, identity, change, told, blind>>
           /\ delivery' \in [Deliveries -> DeliveryStates]
           /\ delivery'[d].event = delivery[d].event
           /\ delivery'[d].expected = delivery[d].expected
           /\ \A b \in Deliveries \ {d} : delivery'[b] = delivery[b]
           /\ \/ delivery'[d].at = "answered" /\ ~delivery'[d].ok /\ delivery'[d].job = None
              \/ /\ delivery'[d].at = "answered" /\ delivery'[d].job = None
                 /\ ToJob(Content(d)) = None
              \/ /\ Owner(identity) # None /\ delivery'[d].at = "submit"
                 /\ delivery'[d].uid = Owner(identity) /\ delivery'[d].uid # None
                 /\ delivery'[d].ok = delivery[d].ok /\ delivery'[d].job = delivery[d].job
<1>1. /\ delivery[d].at = "resolve"
      /\ UNCHANGED <<content, records, jobs, identity, change, told, blind>>
  BY DEF Resolve
<1>2. Event(d) \in Events
  BY <1>1 DEF TypeInv
<1>3. CASE Owner(identity) = None
  <2>1. Stops(d, "answered", FALSE, None)
    BY <1>3 DEF Resolve, Answers
  <2>2. QED
    BY <1>1, <1>2, <2>1, StopsState DEF TypeInv, Places
<1>4. CASE Owner(identity) # None
  <2>1. Proceeds(d, Owner(identity))
    BY <1>4 DEF Resolve
  <2>2. Owner(identity) \in Users
    BY <1>4 DEF TypeInv, TypeOK, Identities, Owner
  <2>3. JobUid(Content(d), Owner(identity)) = Owner(identity)
    BY <1>4 DEF JobUid
  <2>4. QED
    BY <1>1, <1>2, <1>4, <2>1, <2>2, <2>3, ProceedsState
<1>5. QED
  BY <1>3, <1>4

\* A delivery submits its job, and then records it.
LEMMA SubmitState ==
    ASSUME TypeInv, NEW d \in Deliveries, Submit(d)
    PROVE  /\ delivery[d].at = "submit" /\ Event(d) \in Events
           /\ UNCHANGED <<content, records, identity, change, told, blind>>
           /\ jobs' \in [Deliveries -> JobDocuments \union {None}]
           /\ jobs'[d] # None /\ jobs'[d].event = Event(d) /\ jobs'[d].uid = delivery[d].uid
           /\ \A b \in Deliveries \ {d} : jobs'[b] = jobs[b] /\ delivery'[b] = delivery[b]
           /\ delivery' \in [Deliveries -> DeliveryStates]
           /\ delivery'[d].at = "record" /\ delivery'[d].event = delivery[d].event
           /\ delivery'[d].expected = delivery[d].expected
           /\ delivery'[d].ok = delivery[d].ok /\ delivery'[d].job = delivery[d].job
<1>1. delivery[d].at = "submit" /\ UNCHANGED <<content, records, identity, change, told, blind>>
  BY DEF Submit
<1>2. Event(d) \in Events /\ delivery[d].uid \in Users \union {System}
  BY <1>1 DEF TypeInv, TypeOK, DeliveryStates
<1>3. [event |-> Event(d), uid |-> delivery[d].uid] \in JobDocuments
  BY <1>2 DEF JobDocuments
<1>4. [event |-> Event(d), uid |-> delivery[d].uid] # None
  BY <1>3, NoneAssumption DEF JobDocuments, System
<1>5. QED
  BY <1>1, <1>2, <1>3, <1>4 DEF Submit, TypeInv, TypeOK, DeliveryStates, Places

LEMMA RecordState ==
    ASSUME TypeInv, NEW d \in Deliveries, Record(d)
    PROVE  /\ delivery[d].at = "record" /\ Event(d) \in Events
           /\ UNCHANGED <<content, jobs, identity, change, told, blind>>
           /\ records' = IF Content(d).keyed THEN [records EXCEPT ![Event(d)] = d] ELSE records
           /\ records' \in [Events -> Deliveries \union {None}]
           /\ delivery' \in [Deliveries -> DeliveryStates]
           /\ delivery'[d].at = "answered" /\ delivery'[d].job = d
           /\ delivery'[d].event = delivery[d].event
           /\ delivery'[d].expected = delivery[d].expected
           /\ \A b \in Deliveries \ {d} : delivery'[b] = delivery[b]
<1>1. /\ delivery[d].at = "record" /\ Stops(d, "answered", TRUE, d)
      /\ UNCHANGED <<content, jobs, identity, change, told, blind>>
      /\ records' = IF Content(d).keyed THEN [records EXCEPT ![Event(d)] = d] ELSE records
  BY DEF Record, Answers
<1>2. Event(d) \in Events
  BY <1>1 DEF TypeInv
<1>3. records' \in [Events -> Deliveries \union {None}]
  BY <1>1, <1>2 DEF TypeInv, TypeOK
<1>4. QED
  BY <1>1, <1>2, <1>3, StopsState DEF TypeInv, Places

LEMMA DieState ==
    ASSUME TypeInv, NEW d \in Deliveries, Die(d)
    PROVE  /\ delivery[d].at \in {"lookup", "resolve", "submit", "record"} /\ Event(d) \in Events
           /\ UNCHANGED <<content, records, jobs, identity, change, told, blind>>
           /\ delivery' \in [Deliveries -> DeliveryStates]
           /\ delivery'[d].at = "dead" /\ ~delivery'[d].ok /\ delivery'[d].job = None
           /\ delivery'[d].event = delivery[d].event
           /\ delivery'[d].expected = delivery[d].expected
           /\ \A b \in Deliveries \ {d} : delivery'[b] = delivery[b]
<1>1. /\ delivery[d].at \in {"lookup", "resolve", "submit", "record"}
      /\ Stops(d, "dead", FALSE, None)
      /\ UNCHANGED <<content, records, jobs, identity, change, told, blind>>
  BY DEF Die, TypeInv, TypeOK, DeliveryStates, Places
<1>2. Event(d) \in Events
  BY <1>1 DEF TypeInv
<1>3. QED
  BY <1>1, <1>2, StopsState DEF TypeInv, Places

LEMMA DeliverState ==
    ASSUME TypeInv, NEW d \in Deliveries, NEW e \in Events, Deliver(d, e)
    PROVE  /\ delivery[d].at = "new"
           /\ UNCHANGED <<content, records, jobs, identity, change, told, blind>>
           /\ delivery' \in [Deliveries -> DeliveryStates]
           /\ delivery'[d].at = "lookup" /\ delivery'[d].event = e
           /\ delivery'[d].expected = told
           /\ delivery'[d].ok = delivery[d].ok /\ delivery'[d].job = delivery[d].job
           /\ \A b \in Deliveries \ {d} : delivery'[b] = delivery[b]
<1> DEFINE s == [delivery[d] EXCEPT !.at = "lookup", !.event = e, !.expected = told]
<1>1. delivery' = [delivery EXCEPT ![d] = s] /\ delivery \in [Deliveries -> DeliveryStates]
  BY DEF Deliver, TypeInv, TypeOK
<1>2. delivery[d] \in DeliveryStates /\ told \in Users \union {Unsure, Nobody}
  BY DEF TypeInv, TypeOK
<1>3. /\ s \in DeliveryStates
      /\ s.at = "lookup" /\ s.event = e /\ s.expected = told
      /\ s.ok = delivery[d].ok /\ s.job = delivery[d].job
  BY <1>2 DEF DeliveryStates, Places
<1> HIDE DEF s
<1>4. QED
  BY <1>1, <1>3 DEF Deliver

\* A change of the registry begins: it touches nothing of a delivery but what is
\* expected of it.
LEMMA ChangeState ==
    ASSUME TypeInv, NEW c \in Changes, NEW op \in {"bind", "revoke"}, NEW u \in Users \union {None},
           Change(c, op, u)
    PROVE  /\ UNCHANGED <<content, records, jobs, identity, blind>>
           /\ told' = Unsure
           /\ delivery' \in [Deliveries -> DeliveryStates]
           /\ \A d \in Deliveries :
                /\ delivery'[d].expected = Unsure
                /\ delivery'[d].at = delivery[d].at /\ delivery'[d].event = delivery[d].event
                /\ delivery'[d].uid = delivery[d].uid
                /\ delivery'[d].ok = delivery[d].ok /\ delivery'[d].job = delivery[d].job
           /\ change[c].op = "new"
           /\ change' \in [Changes -> ChangeStates]
           /\ change'[c].op = op /\ change'[c].uid = u /\ change'[c].copy = identity
           /\ change'[c].alone => \A a \in Changes : ~Changing(a)
           /\ \A b \in Changes \ {c} :
                /\ change'[b].op = change[b].op /\ change'[b].uid = change[b].uid
                /\ Changing(b) => ~change'[b].alone
<1>1. /\ change' = [b \in Changes |->
                    IF b = c THEN [op |-> op, uid |-> u, copy |-> identity,
                                   alone |-> \A a \in Changes : ~Changing(a)]
                    ELSE IF Changing(b) THEN [change[b] EXCEPT !.alone = FALSE]
                    ELSE change[b]]
      /\ change[c].op = "new" /\ told' = Unsure
      /\ delivery' = [d \in Deliveries |-> [delivery[d] EXCEPT !.expected = Unsure]]
      /\ UNCHANGED <<content, records, jobs, identity, blind>>
  BY DEF Change
<1>t. /\ \A d \in Deliveries : delivery[d] \in DeliveryStates
      /\ \A b \in Changes : change[b] \in ChangeStates
      /\ identity \in Identities \union {None}
  BY DEF TypeInv, TypeOK
<1>2. /\ delivery' \in [Deliveries -> DeliveryStates]
      /\ \A d \in Deliveries :
           /\ delivery'[d].expected = Unsure
           /\ delivery'[d].at = delivery[d].at /\ delivery'[d].event = delivery[d].event
           /\ delivery'[d].uid = delivery[d].uid
           /\ delivery'[d].ok = delivery[d].ok /\ delivery'[d].job = delivery[d].job
  BY <1>1, <1>t DEF DeliveryStates
<1>3. /\ change'[c].op = op /\ change'[c].uid = u /\ change'[c].copy = identity
      /\ change'[c].alone <=> \A a \in Changes : ~Changing(a)
      /\ change'[c] \in ChangeStates
  BY <1>1, <1>t DEF ChangeStates
<1>4. ASSUME NEW b \in Changes \ {c}
      PROVE  /\ change'[b].op = change[b].op /\ change'[b].uid = change[b].uid
             /\ Changing(b) => ~change'[b].alone
             /\ change'[b] \in ChangeStates
  <2>1. CASE Changing(b)
    BY <1>1, <1>t, <2>1 DEF ChangeStates
  <2>2. CASE ~Changing(b)
    BY <1>1, <1>t, <2>2
  <2>3. QED
    BY <2>1, <2>2
<1>5. change' \in [Changes -> ChangeStates]
  <2>1. \A b \in Changes : change'[b] \in ChangeStates
    BY <1>3, <1>4
  <2>2. change' = [b \in Changes |-> change'[b]]
    BY <1>1, Zenon
  <2>3. QED
    BY <2>1, <2>2
<1>6. QED
  BY <1>1, <1>2, <1>3, <1>4, <1>5

\* A change of the registry ends: it touches no delivery.
LEMMA FinishState ==
    ASSUME TypeInv, NEW c \in Changes, Finish(c)
    PROVE  /\ UNCHANGED <<content, records, jobs, delivery, blind>>
           /\ Changing(c)
           /\ identity' \in Identities \union {None}
           /\ change' \in [Changes -> ChangeStates]
           /\ change'[c].op = "done"
           /\ \A b \in Changes \ {c} : change'[b] = change[b]
           /\ told' \in Users \union {Unsure, Nobody}
           /\ told' # Unsure => /\ change[c].alone
                                /\ \/ change[c].op = "bind" /\ told' = change[c].uid
                                                            /\ Owner(identity') = told'
                                   \/ change[c].op = "revoke" /\ told' = Nobody
                                                              /\ identity' = Marked(change[c])
<1>t. /\ change[c] \in ChangeStates /\ change \in [Changes -> ChangeStates]
      /\ identity \in Identities \union {None}
      /\ change[c].op = "bind" => change[c].uid \in Users
      /\ change[c].op \in {"bind", "revoke"}
  BY DEF TypeInv, TypeOK, Finish, Changing
<1>1. /\ identity' = IF change[c].op = "bind" THEN Bound(change[c]) ELSE Marked(change[c])
      /\ told' = IF ~change[c].alone THEN Unsure
                 ELSE IF change[c].op = "bind" THEN change[c].uid ELSE Nobody
      /\ change' = [change EXCEPT ![c] = [NewChange EXCEPT !.op = "done"]]
      /\ Changing(c) /\ UNCHANGED <<content, records, jobs, delivery, blind>>
  BY DEF Finish
<1>2. [NewChange EXCEPT !.op = "done"] \in ChangeStates /\ [NewChange EXCEPT !.op = "done"].op = "done"
  BY DEF NewChange, ChangeStates
<1>3. /\ change' \in [Changes -> ChangeStates] /\ change'[c].op = "done"
      /\ \A b \in Changes \ {c} : change'[b] = change[b]
  BY <1>t, <1>1, <1>2
<1>4. CASE change[c].op = "bind"
  <2>1. Bound(change[c]) \in Identities /\ Owner(Bound(change[c])) = change[c].uid
    <3>1. Bound(change[c]) \in Identities
      BY <1>t, <1>4 DEF Bound, Identities
    <3>2. Bound(change[c]) # None
      BY <3>1, NoneAssumption DEF Identities
    <3>3. Bound(change[c]).revoked = FALSE /\ Bound(change[c]).uid = change[c].uid
      BY DEF Bound
    <3>4. QED
      BY <3>1, <3>2, <3>3 DEF Owner
  <2>2. QED
    BY <1>t, <1>1, <1>3, <1>4, <2>1
<1>5. CASE change[c].op = "revoke"
  <2>1. Marked(change[c]) \in Identities \union {None}
    <3>1. CASE change[c].copy = None \/ change[c].copy.revoked
      BY <1>t, <3>1 DEF Marked
    <3>2. CASE ~(change[c].copy = None \/ change[c].copy.revoked)
      BY <1>t, <3>2 DEF Marked, ChangeStates, Identities
    <3>3. QED
      BY <3>1, <3>2
  <2>2. QED
    BY <1>t, <1>1, <1>3, <1>5, <2>1
<1>6. QED
  BY <1>t, <1>4, <1>5

\* The steps, by kind.
LEMMA Steps ==
    ASSUME [Next]_vars
    PROVE  \/ UNCHANGED vars
           \/ \E d \in Deliveries, e \in Events : Deliver(d, e)
           \/ \E d \in Deliveries : Lookup(d) \/ Resolve(d) \/ Submit(d) \/ Record(d) \/ Die(d)
           \/ \E c \in Changes, op \in {"bind", "revoke"}, u \in Users \union {None} :
                Change(c, op, u) /\ (op = "bind" => u \in Users)
           \/ \E c \in Changes : Finish(c)
  BY DEF Next, Handle, Bind, Revoke

\* Every step keeps the types.
LEMMA TypeStep == TypeInv /\ [Next]_vars => TypeInv'
<1> SUFFICES ASSUME TypeInv, [Next]_vars PROVE TypeInv'
  OBVIOUS
<1> USE DEF Event
<1>1. CASE UNCHANGED vars
  BY <1>1 DEF TypeInv, TypeOK, vars
<1>2. ASSUME NEW d \in Deliveries, NEW e \in Events, Deliver(d, e)
      PROVE  TypeInv'
  BY <1>2, DeliverState DEF TypeInv, TypeOK
<1>3. ASSUME NEW d \in Deliveries, Lookup(d)
      PROVE  TypeInv'
  <2>1. blind' \subseteq Deliveries
    BY <1>3 DEF Lookup, TypeInv, TypeOK
  <2>2. QED
    BY <1>3, <2>1, LookupState DEF TypeInv, TypeOK
<1>4. ASSUME NEW d \in Deliveries, Resolve(d)
      PROVE  TypeInv'
  BY <1>4, ResolveState DEF TypeInv, TypeOK
<1>5. ASSUME NEW d \in Deliveries, Submit(d)
      PROVE  TypeInv'
  BY <1>5, SubmitState DEF TypeInv, TypeOK
<1>6. ASSUME NEW d \in Deliveries, Record(d)
      PROVE  TypeInv'
  BY <1>6, RecordState DEF TypeInv, TypeOK
<1>7. ASSUME NEW d \in Deliveries, Die(d)
      PROVE  TypeInv'
  BY <1>7, DieState DEF TypeInv, TypeOK
<1>8. ASSUME NEW c \in Changes, NEW op \in {"bind", "revoke"}, NEW u \in Users \union {None},
             Change(c, op, u), op = "bind" => u \in Users
      PROVE  TypeInv'
  BY <1>8, ChangeState DEF TypeInv, TypeOK
<1>9. ASSUME NEW c \in Changes, Finish(c)
      PROVE  TypeInv'
  BY <1>9, FinishState DEF TypeInv, TypeOK
<1>10. QED
  BY <1>1, <1>2, <1>3, <1>4, <1>5, <1>6, <1>7, <1>8, <1>9, Steps

\* The type invariant, with what it needs about deliveries and binds.
LEMMA TypeInvariant == Spec => []TypeInv
<1>1. Init => TypeInv
  BY DEF Init, TypeInv, TypeOK, NewDelivery, NewChange, DeliveryStates, ChangeStates, Places
<1>2. QED
  BY <1>1, TypeStep, PTL DEF Spec

-----------------------------------------------------------------------------
(* Jobs of events: a job is submitted before it is recorded, and recorded   *)
(* or answered with only once it is there.                                  *)

JobInv ==
    /\ \A d \in Deliveries :
         /\ delivery[d].at \in {"new", "lookup", "resolve", "submit"} => jobs[d] = None
         /\ delivery[d].at = "record" => jobs[d] # None
         /\ jobs[d] # None => jobs[d].event = Event(d)
         /\ delivery[d].at # "answered" => ~delivery[d].ok /\ delivery[d].job = None
         /\ delivery[d].job # None => delivery[d].job \in JobsOf(Event(d))
         /\ delivery[d].ok => ToJob(Content(d)) = None \/ delivery[d].job # None
         /\ /\ delivery[d].at = "answered" /\ jobs[d] # None /\ Content(d).keyed
            => records[Event(d)] # None
    /\ \A e \in Events : records[e] # None => records[e] \in JobsOf(e)

\* A delivery that has passed the lookup and may have a job, or has one.
Committed(d) == delivery[d].at \in {"resolve", "submit", "record"} \/ jobs[d] # None

\* Of two deliveries of an event with a key that may have a job, one came while the
\* other was unrecorded.
OnceInv ==
    \A d, b \in Deliveries :
        Committed(d) /\ Committed(b) /\ d # b /\ Event(d) = Event(b) /\ Content(d).keyed
            => d \in blind \/ b \in blind

\* Every step keeps jobs, records and answers in order.
LEMMA JobStep == TypeInv /\ JobInv /\ [Next]_vars => JobInv'
<1> SUFFICES ASSUME TypeInv, JobInv, [Next]_vars PROVE JobInv'
  OBVIOUS
<1>n. \A d \in Deliveries : d # None
  BY NoneAssumption DEF Deliveries
<1>t. /\ \A d \in Deliveries : delivery[d].at \in Places
      /\ \A d \in Deliveries : delivery[d].at # "new" => Event(d) \in Events
      /\ content \in [Events -> Contents]
      /\ records \in [Events -> Deliveries \union {None}]
  BY DEF TypeInv, TypeOK, DeliveryStates
<1>1. CASE UNCHANGED <<content, records, jobs>> /\ \A d \in Deliveries :
             /\ delivery'[d].at = delivery[d].at /\ delivery'[d].event = delivery[d].event
             /\ delivery'[d].ok = delivery[d].ok /\ delivery'[d].job = delivery[d].job
  BY <1>1 DEF JobInv, JobsOf, Content, Event
<1>2. ASSUME NEW d \in Deliveries, NEW e \in Events, Deliver(d, e)
      PROVE  JobInv'
  BY <1>2, DeliverState DEF JobInv, JobsOf, Content, Event
<1>3. ASSUME NEW d \in Deliveries, Lookup(d)
      PROVE  JobInv'
  BY <1>3, <1>n, LookupState DEF JobInv, JobsOf, Content, Event, Replayed
<1>4. ASSUME NEW d \in Deliveries, Resolve(d)
      PROVE  JobInv'
  BY <1>4, ResolveState DEF JobInv, JobsOf, Content, Event
<1>5. ASSUME NEW d \in Deliveries, Submit(d)
      PROVE  JobInv'
  BY <1>5, SubmitState DEF JobInv, JobsOf, Content, Event
<1>6. ASSUME NEW d \in Deliveries, Record(d)
      PROVE  JobInv'
  BY <1>6, <1>n, <1>t, RecordState DEF JobInv, JobsOf, Content, Event
<1>7. ASSUME NEW d \in Deliveries, Die(d)
      PROVE  JobInv'
  BY <1>7, DieState DEF JobInv, JobsOf, Content, Event
<1>8. QED
  BY <1>1, <1>2, <1>3, <1>4, <1>5, <1>6, <1>7, Steps, ChangeState, FinishState DEF vars

\* A delivery is committed by the lookup of its event, and by nothing else.
LEMMA CommittedBefore ==
    ASSUME TypeInv, JobInv, [Next]_vars, NEW d \in Deliveries, Committed(d)'
    PROVE  /\ delivery'[d].event = delivery[d].event
           /\ Committed(d) \/ (Lookup(d) /\ ~Replayed(d) /\ UNCHANGED <<records, jobs>>)
<1>1. CASE UNCHANGED vars
  BY <1>1 DEF Committed, vars
<1>2. ASSUME NEW b \in Deliveries, NEW e \in Events, Deliver(b, e)
      PROVE  Committed(d) /\ delivery'[d].event = delivery[d].event
  BY <1>2, DeliverState DEF Committed, JobInv
<1>3. ASSUME NEW b \in Deliveries, Lookup(b)
      PROVE  /\ delivery'[d].event = delivery[d].event
             /\ Committed(d) \/ (Lookup(d) /\ ~Replayed(d) /\ UNCHANGED <<records, jobs>>)
  <2>1. CASE b = d
    BY <1>3, <2>1, LookupState DEF Committed, JobInv
  <2>2. CASE b # d
    BY <1>3, <2>2, LookupState DEF Committed
  <2>3. QED
    BY <2>1, <2>2
<1>4. ASSUME NEW b \in Deliveries, Resolve(b)
      PROVE  Committed(d) /\ delivery'[d].event = delivery[d].event
  BY <1>4, ResolveState DEF Committed
<1>5. ASSUME NEW b \in Deliveries, Submit(b)
      PROVE  Committed(d) /\ delivery'[d].event = delivery[d].event
  BY <1>5, SubmitState DEF Committed
<1>6. ASSUME NEW b \in Deliveries, Record(b)
      PROVE  Committed(d) /\ delivery'[d].event = delivery[d].event
  BY <1>6, RecordState DEF Committed
<1>7. ASSUME NEW b \in Deliveries, Die(b)
      PROVE  Committed(d) /\ delivery'[d].event = delivery[d].event
  BY <1>7, DieState DEF Committed
<1>8. ASSUME NEW c \in Changes, NEW op \in {"bind", "revoke"}, NEW u \in Users \union {None},
             Change(c, op, u)
      PROVE  Committed(d) /\ delivery'[d].event = delivery[d].event
  BY <1>8, ChangeState DEF Committed
<1>9. ASSUME NEW c \in Changes, Finish(c)
      PROVE  Committed(d) /\ delivery'[d].event = delivery[d].event
  BY <1>9, FinishState DEF Committed
<1>10. QED
  BY <1>1, <1>2, <1>3, <1>4, <1>5, <1>6, <1>7, <1>8, <1>9, Steps

\* Who looks an event up and goes on while another is committed to it is blind.
LEMMA SecondIsBlind ==
    ASSUME TypeInv, JobInv, NEW d \in Deliveries, Lookup(d), ~Replayed(d), Content(d).keyed,
           NEW b \in Deliveries, b # d, Event(b) = Event(d), Committed(b)
    PROVE  d \in blind'
<1>1. delivery[b].at \in Places
  BY DEF TypeInv, TypeOK, DeliveryStates
<1>2. ~(delivery[b].at = "answered" /\ jobs[b] # None)
  BY DEF JobInv, Replayed, Content
<1>3. Unrecorded(b)
  BY <1>1, <1>2 DEF Unrecorded, Committed, JobInv, Places
<1>4. QED
  BY <1>3 DEF Lookup

\* Every step keeps the second of two deliveries of an event blind.
LEMMA OnceStep == TypeInv /\ JobInv /\ OnceInv /\ [Next]_vars => OnceInv'
<1> SUFFICES ASSUME TypeInv, JobInv, OnceInv, [Next]_vars,
                    NEW d \in Deliveries, NEW b \in Deliveries, d # b,
                    Committed(d)', Committed(b)', Event(d)' = Event(b)', Content(d)'.keyed
             PROVE  d \in blind' \/ b \in blind'
  BY DEF OnceInv
<1>1. /\ Committed(d) \/ (Lookup(d) /\ ~Replayed(d))
      /\ Committed(b) \/ (Lookup(b) /\ ~Replayed(b))
      /\ Event(d) = Event(b)
  BY CommittedBefore DEF Event
<1>2. blind \subseteq blind' /\ UNCHANGED content
  BY DEF Next, vars, Deliver, Handle, Lookup, Resolve, Submit, Record, Die, Bind, Revoke,
         Change, Finish
<1>3. Content(d).keyed /\ Content(b).keyed
  BY <1>1, <1>2, CommittedBefore DEF Content, Event
<1>4. CASE Committed(d) /\ Committed(b)
  BY <1>1, <1>2, <1>3, <1>4 DEF OnceInv
<1>5. CASE Committed(d) /\ ~Committed(b)
  BY <1>1, <1>3, <1>5, SecondIsBlind
<1>6. CASE ~Committed(d) /\ Committed(b)
  BY <1>1, <1>3, <1>6, SecondIsBlind
<1>7. CASE ~Committed(d) /\ ~Committed(b)
  <2>1. Lookup(d) /\ Lookup(b)
    BY <1>1, <1>7
  <2>2. QED
    BY <2>1, LookupState
<1>8. QED
  BY <1>4, <1>5, <1>6, <1>7

\* Deliveries with a job of one event, none of them blind, are one.
LEMMA OneJob ==
    ASSUME JobInv, OnceInv, NEW e \in Events, content[e].keyed,
           NEW d \in JobsOf(e) \ blind, NEW b \in JobsOf(e) \ blind
    PROVE  d = b
  BY DEF JobInv, OnceInv, JobsOf, Committed, Content, Event

LEMMA JobInvariant == Spec => [](JobInv /\ OnceInv)
<1>1. Init => JobInv /\ OnceInv
  BY NoneAssumption DEF Init, JobInv, OnceInv, Committed, JobsOf, NewDelivery
<1>2. QED
  BY <1>1, JobStep, OnceStep, TypeInvariant, PTL DEF Spec

\* However many deliveries of an event race and die: with a key it gets one job, unless
\* a delivery looked it up while another had done so and not yet recorded it.
THEOREM EventHasOneJob == Spec => []OneJobPerEvent
<1>1. ASSUME JobInv, OnceInv PROVE OneJobPerEvent
  <2> SUFFICES ASSUME NEW e \in Events, content[e].keyed
               PROVE  /\ Cardinality(JobsOf(e) \ blind) <= 1
                      /\ blind = {} => \A d \in Deliveries :
                           delivery[d].job # None /\ Event(d) = e => JobsOf(e) = {delivery[d].job}
    BY DEF OneJobPerEvent
  <2>1. Cardinality(JobsOf(e) \ blind) <= 1
    <3>1. CASE JobsOf(e) \ blind = {}
      BY <3>1, FS_EmptySet
    <3>2. ASSUME NEW d \in JobsOf(e) \ blind
          PROVE  Cardinality(JobsOf(e) \ blind) = 1
      <4>1. JobsOf(e) \ blind = {d}
        BY <1>1, <3>2, OneJob
      <4>2. QED
        BY <4>1, FS_Singleton
    <3>3. QED
      BY <3>1, <3>2
  <2>2. ASSUME blind = {}, NEW d \in Deliveries, delivery[d].job # None, Event(d) = e
        PROVE  JobsOf(e) = {delivery[d].job}
    <3>1. delivery[d].job \in JobsOf(e)
      BY <1>1, <2>2 DEF JobInv
    <3>2. QED
      BY <1>1, <2>2, <3>1, OneJob
  <2>3. QED
    BY <2>1, <2>2
<1>2. QED
  BY <1>1, JobInvariant, PTL

\* Whoever dies on the way, an event that was accepted has a job, unless its mapping
\* drops it.
THEOREM AcceptedHasAJob == Spec => []AcceptedHasJob
<1>1. JobInv => AcceptedHasJob
  BY DEF JobInv, AcceptedHasJob
<1>2. QED
  BY <1>1, JobInvariant, PTL

-----------------------------------------------------------------------------
(* The registry decides: what a change that had the registry to itself said *)
(* holds until the next begins.                                             *)

RegistryInv ==
    /\ told # Unsure => \/ told = Nobody /\ Owner(identity) = None
                        \/ told # None /\ Owner(identity) = told
    /\ \A c \in Changes : Changing(c) =>
         /\ told = Unsure
         /\ change[c].alone => /\ change[c].copy = identity
                               /\ \A b \in Changes : Changing(b) => b = c
    /\ \A d \in Deliveries : delivery[d].expected \in {Unsure, told}
    /\ \A d \in Deliveries :
         delivery[d].expected # Unsure /\ Content(d).handled =>
           /\ delivery[d].at = "submit" => delivery[d].uid = delivery[d].expected
           /\ jobs[d] # None => jobs[d].uid = delivery[d].expected

\* Every step keeps what is expected of the deliveries true.
LEMMA RegistryStep == TypeInv /\ JobInv /\ RegistryInv /\ [Next]_vars => RegistryInv'
<1> SUFFICES ASSUME TypeInv, JobInv, RegistryInv, [Next]_vars PROVE RegistryInv'
  OBVIOUS
<1>1. CASE UNCHANGED vars
  BY <1>1 DEF RegistryInv, Changing, Content, Event, vars
<1>2. ASSUME NEW d \in Deliveries, NEW e \in Events, Deliver(d, e)
      PROVE  RegistryInv'
  BY <1>2, DeliverState DEF RegistryInv, Changing, Content, Event, JobInv
<1>3. ASSUME NEW d \in Deliveries, Lookup(d)
      PROVE  RegistryInv'
  BY <1>3, LookupState DEF RegistryInv, Changing, Content, Event, JobInv
<1>4. ASSUME NEW d \in Deliveries, Resolve(d)
      PROVE  RegistryInv'
  BY <1>4, ResolveState DEF RegistryInv, Changing, Content, Event, JobInv
<1>5. ASSUME NEW d \in Deliveries, Submit(d)
      PROVE  RegistryInv'
  BY <1>5, SubmitState DEF RegistryInv, Changing, Content, Event
<1>6. ASSUME NEW d \in Deliveries, Record(d)
      PROVE  RegistryInv'
  BY <1>6, RecordState DEF RegistryInv, Changing, Content, Event
<1>7. ASSUME NEW d \in Deliveries, Die(d)
      PROVE  RegistryInv'
  BY <1>7, DieState DEF RegistryInv, Changing, Content, Event
<1>8. ASSUME NEW c \in Changes, NEW op \in {"bind", "revoke"}, NEW u \in Users \union {None},
             Change(c, op, u)
      PROVE  RegistryInv'
  BY <1>8, ChangeState DEF RegistryInv, Changing, Content, Event
<1>9. ASSUME NEW c \in Changes, Finish(c)
      PROVE  RegistryInv'
  <2>1. /\ UNCHANGED <<content, records, jobs, delivery, blind>>
        /\ told = Unsure /\ ~(change'[c].op \in {"bind", "revoke"})
        /\ \A b \in Changes \ {c} : change'[b] = change[b]
    BY <1>9, FinishState DEF RegistryInv
  <2>2. ASSUME told' # Unsure
        PROVE  /\ \A b \in Changes : ~(change'[b].op \in {"bind", "revoke"})
               /\ \/ told' = Nobody /\ Owner(identity') = None
                  \/ told' # None /\ Owner(identity') = told'
    <3>1. Changing(c) /\ change[c].alone
      BY <1>9, <2>2, FinishState
    <3>2. change[c].copy = identity /\ \A b \in Changes : Changing(b) => b = c
      BY <3>1 DEF RegistryInv
    <3>3. CASE change[c].op = "bind"
      <4>1. told' = change[c].uid /\ Owner(identity') = told' /\ told' \in Users
        BY <1>9, <2>2, <3>3, FinishState DEF TypeInv
      <4>2. QED
        BY <2>1, <3>2, <4>1, NoneAssumption DEF Changing
    <3>4. CASE change[c].op = "revoke"
      <4>1. told' = Nobody /\ identity' = Marked(change[c])
        BY <1>9, <2>2, <3>4, FinishState
      <4>2. Owner(Marked(change[c])) = None
        <5>1. CASE identity = None \/ identity.revoked
          BY <3>2, <5>1 DEF Marked, Owner
        <5>2. CASE ~(identity = None \/ identity.revoked)
          <6>1. identity \in Identities
            BY <5>2 DEF TypeInv, TypeOK
          <6>2. Marked(change[c]).revoked = TRUE
            BY <3>2, <5>2, <6>1 DEF Marked, Identities
          <6>3. QED
            BY <6>2 DEF Owner
        <5>3. QED
          BY <5>1, <5>2
      <4>3. QED
        BY <2>1, <3>2, <4>1, <4>2 DEF Changing
    <3>5. QED
      BY <3>1, <3>3, <3>4 DEF Changing
  <2>3. ASSUME NEW b \in Changes, Changing(b)'
        PROVE  /\ told' = Unsure /\ Changing(b) /\ change'[b] = change[b]
               /\ ~change[b].alone
    <3>1. b # c /\ change'[b] = change[b] /\ Changing(b)
      BY <2>1, <2>3 DEF Changing
    <3>2. ~change[b].alone
      BY <1>9, <3>1, FinishState DEF RegistryInv
    <3>3. QED
      BY <2>2, <2>3, <3>1, <3>2 DEF Changing
  <2>4. QED
    BY <2>1, <2>2, <2>3 DEF RegistryInv, Content, Event
<1>10. QED
  BY <1>1, <1>2, <1>3, <1>4, <1>5, <1>6, <1>7, <1>8, <1>9, Steps

\* Whatever the gateway claims: after a bind or revoke that had the registry to itself
\* was answered, a delivery gives a job to the user bound and to nobody else.
THEOREM RegistryIsAuthority == Spec => []RegistryDecides
<1>1. Init => RegistryInv
  BY DEF Init, RegistryInv, NewDelivery, NewChange, Changing
<1>2. RegistryInv => RegistryDecides
  BY DEF RegistryInv, RegistryDecides
<1>3. QED
  BY <1>1, <1>2, RegistryStep, JobInvariant, TypeInvariant, PTL DEF Spec
=============================================================================
