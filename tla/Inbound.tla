------------------------------- MODULE Inbound -------------------------------
(***************************************************************************)
(* Inbound webhooks and the identity registry.  The gateway delivers an    *)
(* event, perhaps several times and at once; handleInboundEvent() looks    *)
(* the event up, asks the registry who owns the sender's handle, submits a *)
(* job and only then records the event.  An administrator binds the handle *)
(* to a user and revokes it meanwhile.  All events come from one handle.   *)
(*                                                                         *)
(* A definition named Op_Something is Op with a plausible slip in it; the  *)
(* specification never uses it.                                            *)
(***************************************************************************)
EXTENDS Integers, FiniteSets

CONSTANTS
    Events,         \* events of the gateway
    Users,          \* uids
    None,           \* nothing
    MaxDeliveries,  \* bound: deliveries of events
    MaxChanges      \* bound: binds and revokes

ASSUME NoneAssumption ==
    /\ None \notin Users \union {"system"}
    /\ None \notin 1..MaxDeliveries
    /\ None \notin [uid : Users, revoked : BOOLEAN]
    /\ None \notin [event : Events, uid : Users \union {"system"}]
ASSUME BoundAssumption == {MaxDeliveries, MaxChanges} \subseteq Nat

VARIABLES
    content,   \* what each event says
    records,   \* webhook_events: the job recorded for an event, or None
    jobs,      \* the job each delivery has submitted, or None
    delivery,  \* where each delivery stands
    identity,  \* the document of the handle in channelIdentities, or None
    change,    \* where each bind or revoke stands
    told,      \* what the last bind or revoke that had the registry to itself said
    blind      \* deliveries that found no record while another was past that point

vars == <<content, records, jobs, delivery, identity, change, told, blind>>

-----------------------------------------------------------------------------
(* Data *)

Deliveries == 1..MaxDeliveries
Changes    == 1..MaxChanges

\* The uid of a chat message whose sender the gateway does not name.
System == "system"

\* InboundEventSchema: the mapping, the uid the gateway claims, whether channel and
\* handle are given, whether the body has the field the mapping needs, and eventId.
Contents ==
    [mapping : {"chat", "notice", "unknown"}, uid : Users \union {None},
     handled : BOOLEAN, full : BOOLEAN, keyed : BOOLEAN]

\* What is known of the registry: nothing (a change is due, or two overlapped), that
\* the handle belongs to nobody, or to a user.
Unsure == "unsure"
Nobody == "nobody"

Identities == [uid : Users, revoked : BOOLEAN]

NewDelivery ==
    [at |-> "new", event |-> None, uid |-> None, expected |-> Unsure, ok |-> FALSE, job |-> None]

NewChange == [op |-> "new", uid |-> None, copy |-> None, alone |-> TRUE]

Changing(c) == change[c].op \in {"bind", "revoke"}

\* Past the lookup with a record still to come, or stopped with none.
Unrecorded(d) ==
    \/ delivery[d].at \in {"resolve", "submit", "record"}
    \/ delivery[d].at = "dead" /\ jobs[d] # None

Init ==
    /\ content \in [Events -> Contents]
    /\ records = [e \in Events |-> None]
    /\ jobs = [d \in Deliveries |-> None]
    /\ delivery = [d \in Deliveries |-> NewDelivery]
    /\ identity \in Identities \union {None}
    /\ change = [c \in Changes |-> NewChange]
    /\ told = Unsure
    /\ blind = {}

-----------------------------------------------------------------------------
(* Deliveries *)

Event(d)   == delivery[d].event
Content(d) == content[Event(d)]

\* toJob() of the six seed mappings: the uid of the job, or None for an event that is
\* dropped.  A chat message needs a text; a task that is due, a permission and an
\* intent need their field and a uid.
ToJob(c) ==
    IF ~c.full THEN None
    ELSE IF c.uid # None THEN c.uid
    ELSE IF c.mapping = "chat" THEN System ELSE None

Stops(d, at, ok, job) ==
    delivery' = [delivery EXCEPT ![d] = [@ EXCEPT !.at = at, !.ok = ok, !.job = job, !.uid = None]]

Answers(d, ok, job) == Stops(d, "answered", ok, job)

\* handleInboundHook(): a delivery with the right token and a well-formed body.
Deliver(d, e) ==
    /\ delivery[d].at = "new" /\ \A b \in Deliveries : b < d => delivery[b].at # "new"
    /\ delivery' = [delivery EXCEPT ![d] = [@ EXCEPT !.at = "lookup", !.event = e, !.expected = told]]
    /\ UNCHANGED <<content, records, jobs, identity, change, told, blind>>

\* The uid the registry gave wins over the one the mapping took from the event.
JobUid(c, owner) == IF owner # None THEN owner ELSE ToJob(c)

\* An event its mapping drops is answered and not recorded.
Proceeds(d, owner) ==
    IF ToJob(Content(d)) = None THEN Answers(d, TRUE, None)
    ELSE delivery' = [delivery EXCEPT ![d] =
                         [@ EXCEPT !.at = "submit", !.uid = JobUid(Content(d), owner)]]

Replayed_Never(d) == FALSE

\* Whether the event has a record, and is answered from it.
Replayed(d) == Content(d).keyed /\ records[Event(d)] # None

Lookup_Reserves(d) ==
    /\ delivery[d].at = "lookup"
    /\ IF Replayed(d) THEN Answers(d, TRUE, records[Event(d)]) ELSE Proceeds(d, None)
    /\ records' = IF ~Replayed(d) /\ Content(d).keyed
                  THEN [records EXCEPT ![Event(d)] = d] ELSE records
    /\ UNCHANGED <<content, jobs, identity, change, told, blind>>

\* The lookup of the event, and then of the mapping.
Lookup(d) ==
    /\ delivery[d].at = "lookup"
    /\ IF Replayed(d) THEN Answers(d, TRUE, records[Event(d)])
       ELSE IF Content(d).mapping = "unknown" THEN Answers(d, FALSE, None)
       ELSE IF Content(d).handled
            THEN delivery' = [delivery EXCEPT ![d].at = "resolve"]
            ELSE Proceeds(d, None)
    /\ blind' = IF \E b \in Deliveries : Event(b) = Event(d) /\ b # d /\ Unrecorded(b)
                THEN blind \union {d} ELSE blind
    /\ UNCHANGED <<content, records, jobs, identity, change, told>>

Owner_Revoked(doc) == IF doc = None THEN None ELSE doc.uid

\* resolveIdentity(): the owner of the handle, or None if it is unknown or revoked.
Owner(doc) == IF doc = None \/ doc.revoked THEN None ELSE doc.uid

Resolve(d) ==
    /\ delivery[d].at = "resolve"
    /\ IF Owner(identity) = None THEN Answers(d, FALSE, None) ELSE Proceeds(d, Owner(identity))
    /\ UNCHANGED <<content, records, jobs, identity, change, told, blind>>

\* submit() with drive: false queues a job and does nothing else.
Submit(d) ==
    /\ delivery[d].at = "submit"
    /\ jobs' = [jobs EXCEPT ![d] = [event |-> Event(d), uid |-> delivery[d].uid]]
    /\ delivery' = [delivery EXCEPT ![d].at = "record"]
    /\ UNCHANGED <<content, records, identity, change, told, blind>>

\* The event is recorded with its job, over whatever is there, and answered.
Record(d) ==
    /\ delivery[d].at = "record"
    /\ records' = IF Content(d).keyed THEN [records EXCEPT ![Event(d)] = d] ELSE records
    /\ Answers(d, TRUE, d)
    /\ UNCHANGED <<content, jobs, identity, change, told, blind>>

\* The instance dies, or its document store fails: the gateway gets no answer.
Die(d) ==
    /\ delivery[d].at \notin {"new", "answered", "dead"}
    /\ Stops(d, "dead", FALSE, None)
    /\ UNCHANGED <<content, records, jobs, identity, change, told, blind>>

-----------------------------------------------------------------------------
(* The registry *)

\* A change begins with its get.  From here on nothing is certain, and what was
\* expected of the deliveries under way no longer is.
Change(c, op, u) ==
    /\ change[c].op = "new" /\ \A b \in Changes : b < c => change[b].op # "new"
    /\ change' = [b \in Changes |->
                    IF b = c THEN [op |-> op, uid |-> u, copy |-> identity,
                                   alone |-> \A a \in Changes : ~Changing(a)]
                    ELSE IF Changing(b) THEN [change[b] EXCEPT !.alone = FALSE]
                    ELSE change[b]]
    /\ told' = Unsure
    /\ delivery' = [d \in Deliveries |-> [delivery[d] EXCEPT !.expected = Unsure]]
    /\ UNCHANGED <<content, records, jobs, identity, blind>>

Bind(c, u) == Change(c, "bind", u)
Revoke(c)  == Change(c, "revoke", None)

\* What bindIdentity() and revokeIdentity() set: a new document, or the one they got
\* with a mark; a document that is missing or marked is left as it is.
Bound(r) == [uid |-> r.uid, revoked |-> FALSE]

Marked(r) == IF r.copy = None \/ r.copy.revoked THEN identity ELSE [r.copy EXCEPT !.revoked = TRUE]

Finish(c) ==
    /\ Changing(c)
    /\ identity' = IF change[c].op = "bind" THEN Bound(change[c]) ELSE Marked(change[c])
    /\ told' = IF ~change[c].alone THEN Unsure
               ELSE IF change[c].op = "bind" THEN change[c].uid ELSE Nobody
    /\ change' = [change EXCEPT ![c] = [NewChange EXCEPT !.op = "done"]]
    /\ UNCHANGED <<content, records, jobs, delivery, blind>>

-----------------------------------------------------------------------------

Handle(d) == Lookup(d) \/ Resolve(d) \/ Submit(d) \/ Record(d)

Next ==
    \/ \E d \in Deliveries, e \in Events : Deliver(d, e)
    \/ \E d \in Deliveries : Handle(d) \/ Die(d)
    \/ \E c \in Changes : Revoke(c) \/ Finish(c) \/ \E u \in Users : Bind(c, u)

Spec == Init /\ [][Next]_vars

-----------------------------------------------------------------------------
(* Properties *)

JobsOf(e) == {d \in Deliveries : jobs[d] # None /\ jobs[d].event = e}

\* "Replays are short-circuited; they return the original result" (inbound.ts:12-13):
\* an event with a key has one job, the one every answer names, unless a delivery
\* looked it up while another had done so and not yet recorded it, or had died with
\* its job submitted and not recorded.
OneJobPerEvent ==
    \A e \in Events : content[e].keyed =>
        /\ Cardinality(JobsOf(e) \ blind) <= 1
        /\ blind = {} => \A d \in Deliveries :
               delivery[d].job # None /\ Event(d) = e => JobsOf(e) = {delivery[d].job}

\* An event that was accepted and that its mapping does not drop has a job, whoever
\* died on the way: the gateway need not send it again.
AcceptedHasJob ==
    \A d \in Deliveries : delivery[d].ok =>
        \/ ToJob(Content(d)) = None
        \/ delivery[d].job \in JobsOf(Event(d))

\* "Only the registry is authoritative for who owns a handle" (inbound.ts:170-171): a
\* delivery that came after a bind or revoke was answered, with no other change at
\* that time or since, gives a job to the user bound and to no other, whatever the
\* gateway claims, and after a revoke to nobody.
RegistryDecides ==
    \A d \in Deliveries :
        jobs[d] # None /\ Content(d).handled /\ delivery[d].expected # Unsure =>
            jobs[d].uid = delivery[d].expected
=============================================================================
