-------------------------------- MODULE Notify --------------------------------
(***************************************************************************)
(* The notification fabric: notify() is called for a finished job, picks a *)
(* channel from the job or from the user's preferences, and posts the      *)
(* message to the gateway until it is taken, refused or out of attempts.   *)
(* Preferences change meanwhile.  Rendering is left out.                   *)
(*                                                                         *)
(* A definition named Op_Something is Op with a plausible slip in it; the  *)
(* specification never uses it.                                            *)
(***************************************************************************)
EXTENDS Integers, Sequences

CONSTANTS
    Calls,        \* calls of notify()
    Documents,    \* preferences the user may have at first, None for no document
    NewDocuments, \* preferences a caller of setPreferences() stores
    Channels,     \* the gateway's channels, and "silent"
    Addressed,    \* the deliver fields of jobs, None for a job that has none
    None,         \* nothing
    Day,          \* minutes of a day
    MaxAttempts,  \* posts for one notification
    MaxChanges    \* bound: changes of the preferences

ASSUME DayAssumption == Day \in Nat \ {0}
ASSUME AttemptsAssumption == MaxAttempts \in Nat \ {0} /\ MaxChanges \in Nat

VARIABLES
    preferences, \* the user's document, or None
    call,        \* where each call of notify() stands
    inbox,       \* the posts the gateway has accepted, per call
    changes

vars == <<preferences, call, inbox, changes>>

-----------------------------------------------------------------------------
(* Data *)

Minutes == 0 .. Day - 1

\* Quiet hours are two times of day, as PreferencesSchema says of them. It takes any
\* two strings, and what insideWindow() makes of others is left out.
Timed(quiet) == quiet.from \in Minutes /\ quiet.to \in Minutes

\* ChannelSchema: a channel, its priority and the least severity it takes.
ChannelPreference == [channel : Channels, priority : Nat, minSeverity : 0 .. 3]

\* What the store may hold for a user.
Valid(prefs) ==
    /\ prefs.channels \in Seq(ChannelPreference)
    /\ prefs.quiet # None => Timed(prefs.quiet)

ASSUME ChannelAssumption == None \notin Channels
ASSUME DocumentsAssumption ==
    \A prefs \in (Documents \union NewDocuments) \ {None} : Valid(prefs)

\* SEVERITY_RANK
Success == 1
Warning == 2
Error   == 3

\* A finished job: its outcome, its deliver field, and whether its artifacts, labels
\* and error text stay within the limits of NotificationSchema.
FinishedJobs == [done : BOOLEAN, deliver : Addressed, fits : BOOLEAN]

\* jobToNotification()
Severity(job) == IF job.done THEN Success ELSE Error

\* What getPreferences() makes of a document that is not there.
Empty == [channels |-> <<>>, quiet |-> None]
GetPreferences == IF preferences = None THEN Empty ELSE preferences

NewCall ==
    [at |-> "new", job |-> None, minute |-> 0, seen |-> Empty, channel |-> None,
     attempts |-> 0, unsure |-> FALSE]

Init ==
    /\ preferences \in Documents
    /\ call = [c \in Calls |-> NewCall]
    /\ inbox = [c \in Calls |-> <<>>]
    /\ changes = 0

-----------------------------------------------------------------------------
(* Picking a channel *)

InsideWindow_NoWrap(minute, from, to) == minute >= from /\ minute < to

\* Quiet hours are from `from` up to `to`, past midnight if `to` is the smaller.
InsideWindow(minute, from, to) ==
    IF from <= to THEN minute >= from /\ minute < to
    ELSE minute >= from \/ minute < to

Eligible(c, severity) == severity >= c.minSeverity

Quiet(prefs, severity, minute) ==
    /\ prefs.quiet # None
    /\ severity < Warning
    /\ InsideWindow(minute, prefs.quiet.from, prefs.quiet.to)

Precedes_LastOfEqual(c, d) == c.priority <= d.priority

\* Sorting by priority keeps the order of equals: of two entries the later one comes
\* first only if its number is smaller.
Precedes(c, d) == c.priority < d.priority

\* Where in the user's list the first of the filtered and sorted one is, or 0.
Foremost(prefs, severity) ==
    LET list == prefs.channels
        best[i \in 0 .. Len(list)] ==
            IF i = 0 THEN 0
            ELSE IF /\ Eligible(list[i], severity)
                    /\ best[i-1] = 0 \/ Precedes(list[i], list[best[i-1]])
            THEN i
            ELSE best[i-1]
    IN  best[Len(list)]

\* pickChannel(): the channel to use, or None.
PickChannel(prefs, severity, minute) ==
    LET top == Foremost(prefs, severity) IN
    IF top = 0 \/ Quiet(prefs, severity, minute) THEN None ELSE prefs.channels[top].channel

-----------------------------------------------------------------------------
(* notify() *)

Chosen(job, minute, prefs) ==
    IF job.deliver # None THEN job.deliver ELSE PickChannel(prefs, Severity(job), minute)

\* The call after the choice: thrown, without a channel, silent or about to post.
Started(job, minute, prefs, chosen, throws) ==
    [at |-> IF throws THEN "thrown"
            ELSE IF chosen = None THEN "dropped"
            ELSE IF chosen = "silent" THEN "delivered"
            ELSE "posting",
     job |-> job, minute |-> minute, seen |-> prefs,
     channel |-> IF throws THEN None ELSE chosen,
     attempts |-> 0, unsure |-> FALSE]

\* notify() throws when the schema refuses the notification, and when it needs the
\* preferences and cannot read them.
Throws(job, readable) == ~job.fits \/ (job.deliver = None /\ ~readable)

\* A job ends and notify() is called: it throws, or picks the channel.
Notify(c, job, minute) ==
    /\ call[c].at = "new"
    /\ \E readable \in BOOLEAN :
         call' = [call EXCEPT ![c] =
                    Started(job, minute, GetPreferences, Chosen(job, minute, GetPreferences),
                            Throws(job, readable))]
    /\ UNCHANGED <<preferences, inbox, changes>>

\* What the gateway answers, and a post whose answer, or itself, is lost.
Answers == {"ok", "refused", "error", "lost"}

\* Whether the gateway may have accepted what it gave this answer to.
MayAccept(answer) == CASE answer = "ok"      -> {TRUE}
                       [] answer = "refused" -> {FALSE}
                       [] OTHER              -> BOOLEAN

Retried_OnceMore(answer, attempts) == answer \in {"error", "lost"} /\ attempts <= MaxAttempts

\* A status of 4xx is final.
Retried(answer, attempts) == answer \in {"error", "lost"} /\ attempts < MaxAttempts

\* The call after an answer.
Answered(k, answer) ==
    [k EXCEPT !.attempts = k.attempts + 1,
              !.unsure = k.unsure \/ answer \in {"error", "lost"},
              !.at = IF answer = "ok" THEN "delivered"
                     ELSE IF Retried(answer, k.attempts + 1) THEN "posting"
                     ELSE "failed"]

\* What a call posts.
Delivery(k) == [channel |-> k.channel, minute |-> k.minute]

\* One turn of dispatchOutbound()'s loop: the same delivery is posted again.
Post(c) ==
    /\ call[c].at = "posting"
    /\ \E answer \in Answers, accepted \in BOOLEAN :
         /\ accepted \in MayAccept(answer)
         /\ inbox' = IF accepted THEN [inbox EXCEPT ![c] = Append(@, Delivery(call[c]))]
                     ELSE inbox
         /\ call' = [call EXCEPT ![c] = Answered(@, answer)]
    /\ UNCHANGED <<preferences, changes>>

\* The instance dies.
Die(c) ==
    /\ call[c].at = "posting"
    /\ call' = [call EXCEPT ![c].at = "dead"]
    /\ UNCHANGED <<preferences, inbox, changes>>

\* setPreferences() replaces the document.
SetPreferences(prefs) ==
    /\ changes < MaxChanges
    /\ changes' = changes + 1
    /\ preferences' = prefs
    /\ UNCHANGED <<call, inbox>>

-----------------------------------------------------------------------------

Next ==
    \/ \E c \in Calls, job \in FinishedJobs, minute \in Minutes : Notify(c, job, minute)
    \/ \E c \in Calls : Post(c) \/ Die(c)
    \/ \E prefs \in NewDocuments : SetPreferences(prefs)

Spec == Init /\ [][Next]_vars

-----------------------------------------------------------------------------
(* Properties *)

\* The minutes from one time of day round the clock up to another: none if they are
\* the same.
From(from, to) == {(from + k) % Day : k \in 0 .. ((to - from) % Day) - 1}

Asked(c) == call[c].at \notin {"new", "thrown"} /\ call[c].job.deliver = None

\* Quiet hours, also those over midnight, keep the success of a job that names no
\* channel of its own from the gateway, whatever the user sets while it is posted.
QuietHoursKept ==
    \A c \in Calls : Asked(c) /\ call[c].seen.quiet # None =>
        LET quiet == call[c].seen.quiet IN
        inbox[c] # <<>> /\ call[c].minute \in From(quiet.from, quiet.to) => ~call[c].job.done

\* Outside these hours, and for a failure at any, a call is dropped only if no channel
\* takes it.
OthersComeThrough ==
    \A c \in Calls : Asked(c) =>
        LET quiet == call[c].seen.quiet IN
        (\/ quiet = None
         \/ call[c].minute \notin From(quiet.from, quiet.to)
         \/ ~call[c].job.done)
        => (call[c].at = "dropped" <=>
                \A i \in DOMAIN call[c].seen.channels :
                    Severity(call[c].job) < call[c].seen.channels[i].minSeverity)

\* A notification goes to a channel that takes its severity, none of a smaller
\* priority number does, and none listed earlier has the same.
BestChannelChosen ==
    \A c \in Calls : Asked(c) /\ call[c].channel # None =>
        LET list == call[c].seen.channels
            sev  == Severity(call[c].job)
            open == {i \in DOMAIN list : sev >= list[i].minSeverity}
        IN \E i \in open :
               /\ list[i].channel = call[c].channel
               /\ \A k \in open : /\ list[k].priority >= list[i].priority
                                  /\ k < i => list[k].priority > list[i].priority

\* What the preferences say of channels is kept, as they were when notify() read them.
RightChannel == OthersComeThrough /\ BestChannelChosen

\* What notify() reports agrees with what the gateway holds: copies of one message,
\* no more than attempts, more than one only after an attempt whose fate is not
\* known; a delivered one is there, a dropped or refused one is not.
ReportedAsReceived ==
    \A c \in Calls :
        /\ Len(inbox[c]) <= call[c].attempts /\ call[c].attempts <= MaxAttempts
        /\ \A i \in DOMAIN inbox[c] : inbox[c][i] = inbox[c][1]
        /\ Len(inbox[c]) > 1 => call[c].unsure
        /\ call[c].at = "delivered" => (inbox[c] = <<>> <=> call[c].channel = "silent")
        /\ call[c].at \in {"dropped", "thrown"} => inbox[c] = <<>>
        /\ call[c].at = "failed" /\ inbox[c] # <<>> => call[c].unsure
=============================================================================
