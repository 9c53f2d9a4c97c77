------------------------------ MODULE RateLimit ------------------------------
(***************************************************************************)
(* TokenBucketLimiter of http/security.ts: a bucket of tokens per client,  *)
(* filled by the passing of time and emptied by requests, in a table that  *)
(* makes room for a new client by dropping the one put in first.  The      *)
(* clock is Date.now(), which may be set back.  Tokens are counted in      *)
(* parts, so that those of one tick are a whole number.                    *)
(*                                                                         *)
(* A definition named Op_Something is Op with a plausible slip in it; the  *)
(* specification never uses it.                                            *)
(***************************************************************************)
EXTENDS Integers, SequencesExt

CONSTANTS
    Clients,     \* values of clientKey()
    None,        \* no bucket
    Capacity,    \* COCKPIT_RATELIMIT_API_BURST, in parts
    Unit,        \* parts of one token
    Rate,        \* parts added in one tick of the clock
    MaxKeys,     \* buckets at most
    Times,       \* what the clock may show
    MaxForward   \* bound: ticks the clock moves forward altogether

ASSUME RateAssumption ==
    /\ Unit \in Nat \ {0} /\ Rate \in Nat \ {0} /\ Capacity \in Nat /\ Capacity >= Unit
    /\ MaxKeys \in Nat \ {0} /\ Times \subseteq Int /\ MaxForward \in Nat

VARIABLES
    buckets,  \* per client its bucket, or None
    order,    \* the clients with a bucket, first put in first
    now,      \* Date.now()
    forward   \* ticks the clock has moved forward

limiter == <<buckets, order, now, forward>>

-----------------------------------------------------------------------------
(* The table *)

\* `spent` and `born` only say what the bucket has granted and when it was made.
Bucket == [tokens : 0..Capacity, last : Times, spent : Nat, born : Nat]

ASSUME NoneAssumption == None \notin Bucket

NewBucket == [tokens |-> Capacity, last |-> now, spent |-> 0, born |-> forward]

LimiterInit ==
    /\ buckets = [c \in Clients |-> None]
    /\ order = <<>>
    /\ now \in Times
    /\ forward = 0

Found(c) == IF buckets[c] = None THEN NewBucket ELSE buckets[c]

\* A clock that was set back adds nothing.
Elapsed(b) == IF now > b.last THEN now - b.last ELSE 0

Refilled(b) ==
    IF b.tokens + Rate * Elapsed(b) < Capacity THEN b.tokens + Rate * Elapsed(b) ELSE Capacity

Allowed(c) == Refilled(Found(c)) >= Unit

Taken_KeepsTime(b) ==
    IF Refilled(b) >= Unit
    THEN [b EXCEPT !.tokens = Refilled(b) - Unit, !.spent = @ + 1]
    ELSE [b EXCEPT !.tokens = Refilled(b), !.last = now]

\* The bucket after a request, allowed or not.
Taken(b) ==
    IF Refilled(b) >= Unit
    THEN [b EXCEPT !.tokens = Refilled(b) - Unit, !.last = now, !.spent = @ + 1]
    ELSE [b EXCEPT !.tokens = Refilled(b), !.last = now]

Full == Len(order) >= MaxKeys

Evicted_Newcomer(c) == IF buckets[c] = None /\ Full THEN {c} ELSE {}

\* Those a request of c drops from the table.
Evicted(c) == IF buckets[c] = None /\ Full THEN {Head(order)} ELSE {}

\* check()
Check(c) ==
    /\ buckets' = [k \in Clients |-> IF k = c THEN Taken(Found(c))
                                     ELSE IF k \in Evicted(c) THEN None ELSE buckets[k]]
    /\ order' = IF buckets[c] # None THEN order
                ELSE IF Full THEN Append(Tail(order), c) ELSE Append(order, c)
    /\ UNCHANGED <<now, forward>>

\* The clock shows another time.
Tick ==
    /\ \E t \in Times \ {now} :
         /\ now' = t
         /\ forward' = IF t > now THEN forward + (t - now) ELSE forward
    /\ forward' <= MaxForward
    /\ UNCHANGED <<buckets, order>>

LimiterNext == Tick \/ \E c \in Clients : Check(c)

LimiterSpec == LimiterInit /\ [][LimiterNext]_limiter

-----------------------------------------------------------------------------
(* Properties *)

\* The table holds the clients of `order`, each once.
TypeOK ==
    /\ buckets \in [Clients -> Bucket \union {None}]
    /\ order \in Seq(Clients)
    /\ \A c \in Clients : buckets[c] # None <=> \E i \in DOMAIN order : order[i] = c
    /\ \A i, k \in DOMAIN order : order[i] = order[k] => i = k
    /\ Len(order) <= MaxKeys
    /\ now \in Times /\ forward \in Nat

\* Since its bucket was made a client was granted at most the burst and what the
\* clock's moves forward have added, however often the clock was set back between;
\* making the bucket anew, after it was dropped, is what gives a client more.
RateBound ==
    \A c \in Clients : buckets[c] # None =>
        buckets[c].spent * Unit <= Capacity + Rate * (forward - buckets[c].born)
=============================================================================
