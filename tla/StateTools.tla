------------------------------ MODULE StateTools ------------------------------
(***************************************************************************)
(* The tools of the bridge and the lists they keep in the key-value store: *)
(* a tool gets a list over /api/state, changes its copy and puts it back,  *)
(* and each request must first pass the rate limiter, which the bridge     *)
(* shares with whoever has its address.  A GET that fails for any reason   *)
(* gives the empty list.  note-append, a capability on the server, reads   *)
(* and writes its note in the same way, but directly.                      *)
(*                                                                         *)
(* A definition named Op_Something is Op with a plausible slip in it; the  *)
(* specification never uses it.                                            *)
(***************************************************************************)
EXTENDS RateLimit

CONSTANTS
    Calls,     \* calls the model makes
    Target,    \* the call whose entry a mark_done means
    Bridge,    \* the bridge's address
    KeptNotes, \* notes that add_note keeps
    MaxTries,  \* bound: times a job is tried
    MaxLost    \* bound: requests lost on the way, or failed by the database

ASSUME CallAssumption == Bridge \in Clients /\ Target \in Calls
ASSUME BoundAssumption == {KeptNotes, MaxTries, MaxLost} \subseteq Nat

VARIABLES
    tool,     \* the tool each call names
    lists,    \* the stored lists of entries
    call,     \* where each call stands
    lost,
    wiped,    \* lists put back after a GET that failed, though they were not empty
    raced,    \* lists put back though they had changed since the GET
    repeated  \* calls made again by another try, or a second run, of their job

vars == <<limiter, tool, lists, call, lost, wiped, raced, repeated>>

-----------------------------------------------------------------------------
(* Data *)

\* add_task (log_discipline is alike), mark_done, add_note and note-append.
Tools == {"add_task", "mark_done", "add_note", "note_append"}

Lists == {"tasks", "quick_notes", "note"}

ListOf(c) == CASE tool[c] \in {"add_task", "mark_done"} -> "tasks"
               [] tool[c] = "add_note"                  -> "quick_notes"
               [] tool[c] = "note_append"               -> "note"

\* A capability is run on the server by the local worker.
Local(c) == tool[c] = "note_append"

NewEntry(c) == [call |-> c, done |-> FALSE]

NewCall == [at |-> "get", copy |-> <<>>, failed |-> FALSE, ok |-> FALSE, tries |-> 1]

Init ==
    /\ LimiterInit
    /\ tool \in [Calls -> Tools]
    /\ lists = [l \in Lists |-> <<>>]
    /\ call = [c \in Calls |-> NewCall]
    /\ lost = 0
    /\ wiped = {}
    /\ raced = {}
    /\ repeated = {}

-----------------------------------------------------------------------------
(* A tool *)

\* The entry mark_done finds, or 0.
Match(list) == SelectInSeq(list, LAMBDA e : e.call = Target)

\* The task mark_done finds is done.
Marked_Toggles(list) == [list EXCEPT ![Match(list)] = [@ EXCEPT !.done = ~@]]
Marked(list) == [list EXCEPT ![Match(list)] = [@ EXCEPT !.done = TRUE]]

\* The first KeptNotes of a list.
Newest(list) == SubSeq(list, 1, IF Len(list) < KeptNotes THEN Len(list) ELSE KeptNotes)

\* What a tool makes of the list it got.
Changed(c, list) ==
    CASE tool[c] = "mark_done" -> Marked(list)
      [] tool[c] = "add_note"  -> Newest(<<NewEntry(c)>> \o list)
      [] OTHER                 -> Append(list, NewEntry(c))

\* The call at its end, and on the way to its PUT.
Ended(k, ok) == [k EXCEPT !.at = "ended", !.copy = <<>>, !.ok = ok]
Holding(k, list, failed) == [k EXCEPT !.at = "put", !.copy = list, !.failed = failed]

Ends(c, ok) == call' = [call EXCEPT ![c] = Ended(@, ok)]

\* A request that reaches the server is counted against the bridge.
Counted(c) == IF Local(c) THEN UNCHANGED limiter ELSE Check(Bridge)

Sent(c) == Counted(c) /\ UNCHANGED lost

\* The request or its answer is lost; note-append's get or set throws.
Lost == lost < MaxLost /\ lost' = lost + 1

Passes(c) == Local(c) \/ Allowed(Bridge)

\* With the list it got, or the empty one, a tool goes on to its PUT; mark_done that
\* finds no task ends.
Got(c, list, failed) ==
    /\ IF tool[c] = "mark_done" /\ Match(list) = 0 THEN Ends(c, FALSE)
       ELSE call' = [call EXCEPT ![c] = Holding(@, list, failed)]
    /\ UNCHANGED <<tool, lists, wiped, raced, repeated>>

\* cockpitGetState() answers a GET that fails with the fallback.
Fallback == <<>>

Get(c) ==
    /\ call[c].at = "get"
    /\ \/ Sent(c) /\ Passes(c)  /\ Got(c, lists[ListOf(c)], FALSE)
       \/ Sent(c) /\ ~Passes(c) /\ Got(c, Fallback, TRUE)
       \/ Lost /\ UNCHANGED limiter /\ ~Local(c) /\ Got(c, Fallback, TRUE)
       \/ Lost /\ UNCHANGED <<limiter, tool, lists, wiped, raced, repeated>>
          /\ Local(c) /\ Ends(c, FALSE)

Stored(c) ==
    LET l == ListOf(c) IN
    /\ lists' = [lists EXCEPT ![l] = Changed(c, call[c].copy)]
    /\ wiped' = IF call[c].failed /\ lists[l] # <<>> THEN wiped \union {l} ELSE wiped
    /\ raced' = IF ~call[c].failed /\ lists[l] # call[c].copy THEN raced \union {l} ELSE raced

\* A PUT that is refused or lost makes the tool throw; a lost one may have been done.
Put(c) ==
    /\ call[c].at = "put"
    /\ \/ Sent(c) /\ Passes(c)  /\ Stored(c) /\ Ends(c, TRUE)
       \/ Sent(c) /\ ~Passes(c) /\ Ends(c, FALSE) /\ UNCHANGED <<lists, wiped, raced>>
       \/ Lost /\ UNCHANGED limiter /\ Ends(c, FALSE) /\ UNCHANGED <<lists, wiped, raced>>
       \/ Lost /\ Passes(c) /\ Counted(c) /\ Ends(c, FALSE) /\ Stored(c)
    /\ UNCHANGED <<tool, repeated>>

\* The model or the reply fails after the tool: the chat job is tried again, and the
\* model asks for the same.  Likewise note-append's job is driven again after a
\* failure, or a second time by a drive that claimed it too; when two runs of it have
\* the note at once, the later set has overwritten the other's as any two calls may.
TryAgain(c) ==
    /\ call[c].at = "ended"
    /\ call[c].tries < MaxTries
    /\ call' = [call EXCEPT ![c] = [NewCall EXCEPT !.tries = call[c].tries + 1]]
    /\ repeated' = repeated \union {c}
    /\ UNCHANGED <<limiter, tool, lists, lost, wiped, raced>>

\* Any request under /api that touches no list: list_tasks, get_holdings, a poll, the
\* dashboard of the same or another address.
OtherRequest(k) ==
    /\ Check(k)
    /\ UNCHANGED <<tool, lists, call, lost, wiped, raced, repeated>>

Time == Tick /\ UNCHANGED <<tool, lists, call, lost, wiped, raced, repeated>>

Next ==
    \/ \E c \in Calls : Get(c) \/ Put(c) \/ TryAgain(c)
    \/ \E k \in Clients : OtherRequest(k)
    \/ Time

Spec == Init /\ [][Next]_vars

-----------------------------------------------------------------------------
(* Properties *)

EntriesOf(c) == {i \in DOMAIN lists[ListOf(c)] : lists[ListOf(c)][i].call = c}

Kept(c) ==
    CASE tool[c] = "mark_done" ->
             \E e \in Range(lists["tasks"]) : e.call = Target /\ e.done
      [] tool[c] = "add_note" ->
             EntriesOf(c) # {} \/ Len(lists["quick_notes"]) = KeptNotes
      [] OTHER -> EntriesOf(c) # {}

\* What a tool reported as done is in its list and stays there, done tasks stay done
\* and no entry is there twice, unless a GET failed before a list was put back, two
\* calls had the list at once, or the job was tried again.
ListsKept ==
    \A c \in Calls : ListOf(c) \notin wiped \union raced =>
        /\ call[c].at = "ended" /\ call[c].ok => Kept(c)
        /\ c \notin repeated =>
               \A i, k \in EntriesOf(c) : i = k
=============================================================================
