-------------------------- MODULE StateToolsProofs --------------------------
(***************************************************************************)
(* Theorems about the rate limiter, alone and under the tools, for every   *)
(* burst, rate, table size and number of clients and calls.                *)
(***************************************************************************)
EXTENDS StateTools, WellFoundedInduction, TLAPS

LEMMA Constants ==
    /\ Unit \in Nat /\ Unit > 0 /\ Rate \in Nat /\ Rate > 0 /\ Capacity \in Nat /\ Capacity >= Unit
    /\ MaxKeys \in Nat /\ MaxKeys > 0 /\ Times \subseteq Int
  BY RateAssumption

LEMMA RateIsMonotone == \A x, y \in Int : x <= y => Rate * x <= Rate * y
  BY Constants

LEMMA RateDistributes == \A x, y \in Int : Rate * (x + y) = Rate * x + Rate * y /\ Rate * x \in Int
  BY Constants

LEMMA OneMore == \A n \in Int : (n + 1) * Unit = n * Unit + Unit /\ n * Unit \in Int
  BY Constants

-----------------------------------------------------------------------------
(* One bucket *)

LEMMA BucketFields ==
    ASSUME NEW b \in Bucket
    PROVE  /\ b.tokens \in Nat /\ b.tokens <= Capacity /\ b.last \in Times /\ b.last \in Int
           /\ b.spent \in Nat /\ b.born \in Nat
<1>1. b.tokens \in 0..Capacity /\ b.last \in Times /\ b.spent \in Nat /\ b.born \in Nat
  BY DEF Bucket
<1>2. b.last \in Int
  BY <1>1, RateAssumption
<1>3. b.tokens \in Nat /\ b.tokens <= Capacity
  BY <1>1, RateAssumption
<1>4. QED
  BY <1>1, <1>2, <1>3

LEMMA ElapsedType ==
    ASSUME now \in Times, NEW b \in Bucket
    PROVE  Elapsed(b) \in Nat
<1>1. now \in Int /\ b.last \in Int
  BY BucketFields, Constants
<1>2. QED
  BY <1>1 DEF Elapsed

LEMMA RefilledType ==
    ASSUME now \in Times, NEW b \in Bucket
    PROVE  /\ Refilled(b) \in 0..Capacity
           /\ Refilled(b) <= b.tokens + Rate * Elapsed(b)
<1>1. Elapsed(b) \in Nat
  BY ElapsedType
<1>2. Rate * Elapsed(b) \in Nat
  BY <1>1, Constants
<1>3. b.tokens \in 0..Capacity
  BY DEF Bucket
<1>4. QED
  BY <1>2, <1>3, Constants DEF Refilled

LEMMA NewBucketType ==
    ASSUME now \in Times, forward \in Nat
    PROVE  NewBucket \in Bucket
  BY Constants DEF NewBucket, Bucket

LEMMA TakenType ==
    ASSUME now \in Times, NEW b \in Bucket
    PROVE  Taken(b) \in Bucket
<1>1. Refilled(b) \in 0..Capacity
  BY RefilledType
<1>2. CASE Refilled(b) >= Unit
  <2>1. Refilled(b) - Unit \in 0..Capacity /\ b.spent + 1 \in Nat
    BY <1>1, <1>2, BucketFields, Constants
  <2>2. QED
    BY <1>2, <2>1 DEF Taken, Bucket
<1>3. CASE ~(Refilled(b) >= Unit)
  BY <1>1, <1>3, Constants DEF Taken, Bucket
<1>4. QED
  BY <1>2, <1>3

\* What a bucket has granted, holds and is due never exceeds what it was given.
Solvent(b) ==
    /\ b.born <= forward
    /\ b.tokens + Rate * Elapsed(b) + b.spent * Unit <= Capacity + Rate * (forward - b.born)

LEMMA NewIsSolvent ==
    ASSUME now \in Times, forward \in Nat
    PROVE  Solvent(NewBucket)
<1>1. NewBucket.tokens = Capacity /\ NewBucket.spent = 0 /\ NewBucket.born = forward
  BY DEF NewBucket
<1>2. Elapsed(NewBucket) = 0
  BY Constants DEF Elapsed, NewBucket
<1>3. Rate * 0 = 0 /\ 0 * Unit = 0 /\ forward - forward = 0
  BY Constants
<1>4. QED
  BY <1>1, <1>2, <1>3, Constants DEF Solvent

LEMMA TakenIsSolvent ==
    ASSUME now \in Times, forward \in Nat, NEW b \in Bucket, Solvent(b)
    PROVE  Solvent(Taken(b))
<1>1. /\ Refilled(b) \in 0..Capacity /\ Refilled(b) <= b.tokens + Rate * Elapsed(b)
      /\ Elapsed(b) \in Nat /\ Rate * Elapsed(b) \in Int
  BY RefilledType, ElapsedType, RateDistributes
<1>2. /\ b.spent \in Nat /\ b.born \in Nat /\ b.spent * Unit \in Int
      /\ (b.spent + 1) * Unit = b.spent * Unit + Unit /\ Rate * (forward - b.born) \in Int
      /\ b.tokens \in Nat
  <2>1. b.spent \in Int /\ forward - b.born \in Int
    BY BucketFields
  <2>2. QED
    BY <2>1, BucketFields, OneMore, RateDistributes
<1>3. Elapsed(Taken(b)) = 0
  <2>1. Taken(b).last = now
    BY DEF Taken, Bucket
  <2>2. QED
    BY <2>1, Constants DEF Elapsed
<1>4. Taken(b).born = b.born
  BY DEF Taken, Bucket
<1>5. Rate * 0 = 0
  BY Constants
<1>6. CASE Refilled(b) >= Unit
  <2>1. Taken(b).tokens = Refilled(b) - Unit /\ Taken(b).spent = b.spent + 1
    BY <1>6 DEF Taken, Bucket
  <2>2. QED
    BY <1>1, <1>2, <1>3, <1>4, <1>5, <2>1, Constants DEF Solvent
<1>7. CASE ~(Refilled(b) >= Unit)
  <2>1. Taken(b).tokens = Refilled(b) /\ Taken(b).spent = b.spent
    BY <1>7 DEF Taken, Bucket
  <2>2. QED
    BY <1>1, <1>2, <1>3, <1>4, <1>5, <2>1, Constants DEF Solvent
<1>8. QED
  BY <1>6, <1>7

LEMMA TickKeepsSolvent ==
    ASSUME now \in Times, forward \in Nat, Tick, NEW b \in Bucket, Solvent(b)
    PROVE  Solvent(b)'
<1>1. PICK t \in Times \ {now} :
         now' = t /\ forward' = IF t > now THEN forward + (t - now) ELSE forward
  BY DEF Tick
<1> DEFINE d == forward' - forward
<1>2. d \in Nat /\ forward' = forward + d /\ forward' \in Nat
  BY <1>1, Constants
<1>3. /\ Elapsed(b) \in Nat /\ Elapsed(b)' \in Nat /\ Elapsed(b)' <= Elapsed(b) + d
  <2>1. now \in Int /\ t \in Int /\ b.last \in Int
    BY BucketFields, Constants
  <2>2. Elapsed(b)' = IF t > b.last THEN t - b.last ELSE 0
    BY <1>1 DEF Elapsed
  <2>3. d = IF t > now THEN t - now ELSE 0
    BY <1>1, <2>1
  <2>4. QED
    BY <2>1, <2>2, <2>3 DEF Elapsed
<1> HIDE DEF d
<1>4. Rate * Elapsed(b)' <= Rate * Elapsed(b) + Rate * d
  <2>1. Rate * Elapsed(b)' <= Rate * (Elapsed(b) + d)
    BY <1>2, <1>3, RateIsMonotone
  <2>2. QED
    BY <1>2, <1>3, <2>1, RateDistributes
<1>5. b.born \in Nat /\ b.spent \in Nat /\ b.tokens \in Nat /\ forward - b.born \in Int
  BY BucketFields
<1>6. Rate * (forward' - b.born) = Rate * (forward - b.born) + Rate * d
  <2> DEFINE x == forward - b.born
  <2>1. x \in Int /\ d \in Int /\ forward' - b.born = x + d
    BY <1>2, <1>5
  <2> HIDE DEF x
  <2>2. Rate * (x + d) = Rate * x + Rate * d
    BY <2>1, RateDistributes
  <2>3. Rate * (forward' - b.born) = Rate * x + Rate * d
    BY <2>1, <2>2
  <2>4. QED
    BY <2>3 DEF x
<1>7. /\ Rate * Elapsed(b) \in Int /\ Rate * Elapsed(b)' \in Int /\ Rate * d \in Int
      /\ b.spent * Unit \in Int /\ Rate * (forward - b.born) \in Int
  <2>1. Elapsed(b) \in Int /\ Elapsed(b)' \in Int /\ d \in Int /\ b.spent \in Int
    BY <1>2, <1>3, <1>5
  <2>2. QED
    BY <1>5, <2>1, RateDistributes, OneMore
<1>8. b.born <= forward'
  <2>1. b.born <= forward
    BY DEF Solvent
  <2>2. QED
    BY <1>2, <1>5, <2>1
<1>9. b.tokens + Rate * Elapsed(b)' + b.spent * Unit <= Capacity + Rate * (forward' - b.born)
  BY <1>4, <1>5, <1>6, <1>7, Constants DEF Solvent
<1>10. QED
  BY <1>8, <1>9 DEF Solvent

-----------------------------------------------------------------------------
(* The table *)

AllSolvent == \A c \in Clients : buckets[c] # None => Solvent(buckets[c])

LimiterInv == TypeOK /\ AllSolvent

LEMMA FoundIsSolvent ==
    ASSUME LimiterInv, NEW c \in Clients
    PROVE  Found(c) \in Bucket /\ Solvent(Found(c))
<1>1. CASE buckets[c] = None
  BY <1>1, NewBucketType, NewIsSolvent DEF Found, LimiterInv, TypeOK
<1>2. CASE buckets[c] # None
  BY <1>2 DEF Found, LimiterInv, TypeOK, AllSolvent
<1>3. QED
  BY <1>1, <1>2

\* A request touches the bucket of its client, which it may put at the end of the
\* table, and drops at most the first.
LEMMA CheckStep ==
    ASSUME LimiterInv, NEW c \in Clients, Check(c)
    PROVE  LimiterInv'
<1> USE DEF LimiterInv
<1>t. /\ buckets \in [Clients -> Bucket \union {None}] /\ order \in Seq(Clients)
      /\ \A k \in Clients : buckets[k] # None <=> \E i \in DOMAIN order : order[i] = k
      /\ \A i, k \in DOMAIN order : order[i] = order[k] => i = k
      /\ Len(order) <= MaxKeys /\ now \in Times /\ forward \in Nat
  BY DEF TypeOK
<1>1. Taken(Found(c)) \in Bucket /\ Solvent(Taken(Found(c))) /\ Taken(Found(c)) # None
  BY <1>t, FoundIsSolvent, TakenType, TakenIsSolvent, NoneAssumption
<1>2. UNCHANGED <<now, forward>>
  BY DEF Check
<1>3. /\ \A k \in Clients : buckets'[k] = IF k = c THEN Taken(Found(c))
                                        ELSE IF k \in Evicted(c) THEN None ELSE buckets[k]
      /\ buckets' \in [Clients -> Bucket \union {None}]
  BY <1>t, <1>1 DEF Check
<1>4. AllSolvent'
  <2>1. \A k \in Clients : buckets'[k] # None => Solvent(buckets'[k])
    BY <1>1, <1>3 DEF AllSolvent
  <2>2. \A b : Solvent(b)' = Solvent(b)
    BY <1>2 DEF Solvent, Elapsed
  <2>3. QED
    BY <2>1, <1>2 DEF AllSolvent, Solvent, Elapsed
<1>5. CASE buckets[c] # None
  <2>1. order' = order /\ Evicted(c) = {}
    BY <1>5 DEF Check, Evicted
  <2>2. \A k \in Clients : buckets'[k] # None <=> buckets[k] # None
    BY <1>1, <1>3, <1>5, <2>1
  <2>3. QED
    BY <1>t, <1>2, <1>3, <1>4, <2>1, <2>2 DEF TypeOK
<1>6. CASE buckets[c] = None /\ ~Full
  <2>1. order' = Append(order, c) /\ Evicted(c) = {}
    BY <1>6 DEF Check, Evicted
  <2>2. /\ Len(order') = Len(order) + 1 /\ order' \in Seq(Clients)
        /\ order'[Len(order) + 1] = c /\ \A i \in DOMAIN order : order'[i] = order[i]
        /\ DOMAIN order' = DOMAIN order \union {Len(order) + 1} /\ DOMAIN order = 1..Len(order)
    BY <1>t, <2>1
  <2>3. Len(order') <= MaxKeys
    BY <1>t, <1>6, <2>2, Constants DEF Full
  <2>4. \A i \in DOMAIN order : order[i] # c
    BY <1>t, <1>6
  <2>5. \A i, k \in DOMAIN order' : order'[i] = order'[k] => i = k
    BY <1>t, <2>2, <2>4
  <2>6. \A k \in Clients : buckets'[k] # None <=> k = c \/ buckets[k] # None
    BY <1>1, <1>3, <2>1
  <2>7. \A k \in Clients : buckets'[k] # None <=> \E i \in DOMAIN order' : order'[i] = k
    BY <1>t, <2>2, <2>6
  <2>8. QED
    BY <1>t, <1>2, <1>3, <1>4, <2>2, <2>3, <2>5, <2>7 DEF TypeOK
<1>7. CASE buckets[c] = None /\ Full
  <2>1. order' = Append(Tail(order), c) /\ Evicted(c) = {Head(order)}
    BY <1>7 DEF Check, Evicted
  <2>2. Len(order) > 0 /\ Len(order) \in Nat /\ DOMAIN order = 1..Len(order)
    BY <1>t, <1>7, Constants DEF Full
  <2>3. /\ Len(order') = Len(order) /\ order' \in Seq(Clients)
        /\ order'[Len(order)] = c
        /\ \A i \in 1 .. Len(order) - 1 : order'[i] = order[i + 1]
        /\ DOMAIN order' = 1..Len(order) /\ Head(order) = order[1]
    <3> DEFINE t == Tail(order)
    <3>1. order # <<>> /\ Head(order) = order[1]
      BY <1>t, <2>2
    <3>2. t \in Seq(Clients) /\ Len(t) = Len(order) - 1
      BY <1>t, <2>2, <3>1
    <3>3. \A i \in 1 .. Len(order) - 1 : t[i] = order[i + 1]
      BY <1>t, <2>2, <3>1, <3>2
    <3> HIDE DEF t
    <3>4. order' = Append(t, c)
      BY <2>1 DEF t
    <3>5. /\ order' \in Seq(Clients) /\ Len(order') = Len(t) + 1
          /\ order'[Len(t) + 1] = c /\ \A i \in 1 .. Len(t) : order'[i] = t[i]
      BY <3>2, <3>4
    <3>6. Len(order') = Len(order) /\ DOMAIN order' = 1..Len(order)
      BY <2>2, <3>2, <3>5
    <3>7. QED
      BY <2>2, <3>1, <3>2, <3>3, <3>5, <3>6
  <2>4. \A i \in DOMAIN order : order[i] # c
    BY <1>t, <1>7
  <2>5. \A i, k \in DOMAIN order' : order'[i] = order'[k] => i = k
    <3> SUFFICES ASSUME NEW i \in DOMAIN order', NEW k \in DOMAIN order', order'[i] = order'[k]
                 PROVE  i = k
      OBVIOUS
    <3>1. CASE i = Len(order) \/ k = Len(order)
      BY <2>2, <2>3, <2>4, <3>1
    <3>2. CASE i # Len(order) /\ k # Len(order)
      <4>1. /\ i \in 1 .. Len(order) - 1 /\ i + 1 \in DOMAIN order
            /\ k \in 1 .. Len(order) - 1 /\ k + 1 \in DOMAIN order
        BY <2>2, <2>3, <3>2
      <4>2. order[i + 1] = order[k + 1]
        BY <2>3, <4>1
      <4>3. i + 1 = k + 1
        BY <1>t, <4>1, <4>2
      <4>4. QED
        BY <4>1, <4>3
    <3>3. QED
      BY <3>1, <3>2
  <2>6. \A k \in Clients : buckets'[k] # None <=> k = c \/ (buckets[k] # None /\ k # order[1])
    BY <1>1, <1>3, <2>1, <2>3
  <2>7. \A k \in Clients : (\E i \in DOMAIN order' : order'[i] = k)
                         <=> k = c \/ \E i \in DOMAIN order : i > 1 /\ order[i] = k
    <3> SUFFICES ASSUME NEW k \in Clients
                 PROVE  (\E i \in DOMAIN order' : order'[i] = k)
                        <=> k = c \/ \E i \in DOMAIN order : i > 1 /\ order[i] = k
      OBVIOUS
    <3>1. ASSUME NEW i \in DOMAIN order', order'[i] = k
          PROVE  k = c \/ \E j \in DOMAIN order : j > 1 /\ order[j] = k
      <4>1. CASE i = Len(order)
        BY <2>3, <3>1, <4>1
      <4>2. CASE i # Len(order)
        <5>1. i \in 1 .. Len(order) - 1 /\ i + 1 \in DOMAIN order /\ i + 1 > 1
          BY <2>2, <2>3, <4>2
        <5>2. QED
          BY <2>3, <3>1, <5>1
      <4>3. QED
        BY <4>1, <4>2
    <3>2. ASSUME k = c
          PROVE  \E i \in DOMAIN order' : order'[i] = k
      BY <2>2, <2>3, <3>2
    <3>3. ASSUME NEW j \in DOMAIN order, j > 1, order[j] = k
          PROVE  \E i \in DOMAIN order' : order'[i] = k
      <4>1. j - 1 \in 1 .. Len(order) - 1 /\ (j - 1) + 1 = j /\ j - 1 \in DOMAIN order'
        BY <2>2, <2>3, <3>3
      <4>2. order'[j - 1] = order[j]
        BY <2>3, <4>1
      <4>3. QED
        BY <3>3, <4>1, <4>2
    <3>4. QED
      BY <3>1, <3>2, <3>3
  <2>8. \A k \in Clients : (buckets[k] # None /\ k # order[1])
                         <=> \E i \in DOMAIN order : i > 1 /\ order[i] = k
    BY <1>t, <2>2
  <2>9. \A k \in Clients : buckets'[k] # None <=> \E i \in DOMAIN order' : order'[i] = k
    BY <2>6, <2>7, <2>8
  <2>10. QED
    BY <1>t, <1>2, <1>3, <1>4, <2>3, <2>5, <2>9 DEF TypeOK
<1>8. QED
  BY <1>5, <1>6, <1>7

LEMMA TickStep == LimiterInv /\ Tick => LimiterInv'
<1> SUFFICES ASSUME LimiterInv, Tick PROVE LimiterInv'
  OBVIOUS
<1> USE DEF LimiterInv
<1>1. now' \in Times /\ forward' \in Nat /\ UNCHANGED <<buckets, order>>
  BY Constants DEF Tick, TypeOK
<1>2. TypeOK'
  BY <1>1 DEF TypeOK
<1>3. AllSolvent'
  <2> SUFFICES ASSUME NEW c \in Clients, buckets[c] # None
               PROVE  Solvent(buckets[c])'
    BY <1>1 DEF AllSolvent
  <2> DEFINE b == buckets[c]
  <2>1. b \in Bucket /\ Solvent(b)
    BY DEF TypeOK, AllSolvent
  <2>2. now \in Times /\ forward \in Nat
    BY DEF TypeOK
  <2>3. b' = b
    BY <1>1
  <2>4. QED
    BY <2>1, <2>2, <2>3, TickKeepsSolvent
<1>4. QED
  BY <1>2, <1>3

LEMMA LimiterInvariant == LimiterSpec => []LimiterInv
<1>1. LimiterInit => LimiterInv
  BY Constants DEF LimiterInit, LimiterInv, TypeOK, AllSolvent
<1>2. LimiterInv /\ [LimiterNext]_limiter => LimiterInv'
  <2> SUFFICES ASSUME LimiterInv, [LimiterNext]_limiter PROVE LimiterInv'
    OBVIOUS
  <2>1. CASE Tick
    BY <2>1, TickStep
  <2>2. ASSUME NEW c \in Clients, Check(c)
        PROVE  LimiterInv'
    BY <2>2, CheckStep
  <2>3. CASE UNCHANGED limiter
    BY <2>3 DEF limiter, LimiterInv, TypeOK, AllSolvent, Solvent, Elapsed
  <2>4. QED
    BY <2>1, <2>2, <2>3 DEF LimiterNext
<1>3. QED
  BY <1>1, <1>2, PTL DEF LimiterSpec

-----------------------------------------------------------------------------
(* Under the tools *)

\* What the tools, the dashboard and time do to the limiter is what it allows.
LEMMA ToolsUseTheLimiter == Spec => LimiterSpec
<1>1. Init => LimiterInit
  BY DEF Init
<1>2. [Next]_vars => [LimiterNext]_limiter
  <2> SUFFICES ASSUME [Next]_vars PROVE [LimiterNext]_limiter
    OBVIOUS
  <2> USE DEF LimiterNext
  <2>1. ASSUME NEW c \in Calls, Counted(c)
        PROVE  [LimiterNext]_limiter
    BY <2>1, CallAssumption DEF Counted
  <2>2. ASSUME NEW c \in Calls, Get(c)
        PROVE  [LimiterNext]_limiter
    BY <2>1, <2>2 DEF Get, Sent
  <2>3. ASSUME NEW c \in Calls, Put(c)
        PROVE  [LimiterNext]_limiter
    BY <2>1, <2>3 DEF Put, Sent
  <2>4. ASSUME NEW c \in Calls, TryAgain(c)
        PROVE  [LimiterNext]_limiter
    BY <2>4 DEF TryAgain
  <2>5. ASSUME NEW k \in Clients, OtherRequest(k)
        PROVE  [LimiterNext]_limiter
    BY <2>5 DEF OtherRequest
  <2>6. CASE Time
    BY <2>6 DEF Time
  <2>7. CASE UNCHANGED vars
    BY <2>7 DEF vars
  <2>8. QED
    BY <2>2, <2>3, <2>4, <2>5, <2>6, <2>7 DEF Next
<1>3. QED
  BY <1>1, <1>2, PTL DEF Spec, LimiterSpec

\* The buckets and the order of the table agree, and there are never too many.
THEOREM TypeCorrect == Spec => []TypeOK
<1>1. LimiterInv => TypeOK
  BY DEF LimiterInv
<1>2. QED
  BY <1>1, LimiterInvariant, ToolsUseTheLimiter, PTL

\* Whatever the tools and the other clients send and however the clock is set, a
\* bucket grants no more than its burst and what the clock's moves forward add.
THEOREM RateIsBounded == Spec => []RateBound
<1>1. LimiterInv => RateBound
  <2> SUFFICES ASSUME LimiterInv, NEW c \in Clients, buckets[c] # None
               PROVE  buckets[c].spent * Unit <= Capacity + Rate * (forward - buckets[c].born)
    BY DEF RateBound
  <2> DEFINE b == buckets[c]
  <2>1. b \in Bucket /\ Solvent(b) /\ now \in Times /\ forward \in Nat
    BY DEF LimiterInv, TypeOK, AllSolvent
  <2> HIDE DEF b
  <2>2. /\ b.tokens \in Nat /\ Elapsed(b) \in Nat /\ b.spent \in Int
        /\ forward - b.born \in Int
    BY <2>1, BucketFields, ElapsedType
  <2>3. Rate * Elapsed(b) \in Nat
    BY <2>2, Constants
  <2>4. b.spent * Unit \in Int /\ Rate * (forward - b.born) \in Int
    BY <2>2, OneMore, RateDistributes
  <2>5. b.spent * Unit <= Capacity + Rate * (forward - b.born)
    BY <2>1, <2>2, <2>3, <2>4, Constants DEF Solvent
  <2>6. QED
    BY <2>5 DEF b
<1>2. QED
  BY <1>1, LimiterInvariant, ToolsUseTheLimiter, PTL


-----------------------------------------------------------------------------
(* What the tools make of a list *)

Entry == [call : Calls, done : BOOLEAN]

\* The entries of a call in a list, and what a call of tool t that was reported done
\* has there.
Held(c, list) == {i \in DOMAIN list : list[i].call = c}

KeptIn(t, c, list) ==
    CASE t = "mark_done" -> \E i \in DOMAIN list : list[i].call = Target /\ list[i].done
      [] t = "add_note"  -> Held(c, list) # {} \/ Len(list) = KeptNotes
      [] OTHER           -> Held(c, list) # {}

Once(c, list) == \A i, k \in Held(c, list) : i = k

LEMMA LeastNatural ==
    ASSUME NEW S \in SUBSET Nat, S # {}
    PROVE  Min(S) \in S
<1>1. PICK x \in S : \A y \in S : ~(<<y, x>> \in OpToRel(<, Nat))
  BY NatLessThanWellFounded, WFMin
<1>2. ASSUME NEW y \in S
      PROVE  x <= y
  <2>1. x \in Nat /\ y \in Nat
    OBVIOUS
  <2>2. ~(y < x)
    BY <1>1, <2>1 DEF OpToRel
  <2>3. QED
    BY <2>1, <2>2
<1>3. QED
  BY <1>2 DEF Min

\* mark_done's find() gives the index of an entry that is the target's, or none.
LEMMA MatchFacts ==
    ASSUME NEW list \in Seq(Entry)
    PROVE  /\ Match(list) \in Nat
           /\ Match(list) # 0 => Match(list) \in DOMAIN list /\ list[Match(list)].call = Target
           /\ Match(list) = 0 => Held(Target, list) = {}
<1> DEFINE I == {i \in 1..Len(list) : list[i].call = Target}
<1>1. Match(list) = IF I # {} THEN Min(I) ELSE 0
  BY DEF Match, SelectInSeq
<1>2. I # {} => Min(I) \in I
  <2>1. I \in SUBSET Nat
    OBVIOUS
  <2> HIDE DEF I
  <2>2. QED
    BY <2>1, LeastNatural
<1>3. DOMAIN list = 1..Len(list) /\ Len(list) \in Nat
  OBVIOUS
<1>4. I \in SUBSET (1..Len(list)) /\ Held(Target, list) = I
  BY <1>3 DEF Held
<1> HIDE DEF I
<1>5. CASE I = {}
  BY <1>1, <1>4, <1>5
<1>6. CASE I # {}
  <2>1. Match(list) \in I
    BY <1>1, <1>2, <1>6
  <2>2. QED
    BY <1>3, <1>4, <2>1 DEF Held
<1>7. QED
  BY <1>5, <1>6

LEMMA MarkedFacts ==
    ASSUME NEW list \in Seq(Entry), Match(list) # 0
    PROVE  /\ Marked(list) \in Seq(Entry)
           /\ DOMAIN Marked(list) = DOMAIN list
           /\ \A i \in DOMAIN list : /\ Marked(list)[i].call = list[i].call
                                     /\ list[i].done => Marked(list)[i].done
           /\ \E i \in DOMAIN list : Marked(list)[i].call = Target /\ Marked(list)[i].done
<1> DEFINE m == Match(list)
           e == [list[m] EXCEPT !.done = TRUE]
<1>1. m \in DOMAIN list /\ list[m].call = Target /\ list[m] \in Entry
  BY MatchFacts
<1> HIDE DEF m
<1>2. e \in Entry /\ e.call = list[m].call /\ e.done
  BY <1>1 DEF Entry
<1>3. Marked(list) = [list EXCEPT ![m] = e]
  BY Zenon DEF Marked, m
<1> HIDE DEF e
<1>4. QED
  BY <1>1, <1>2, <1>3

LEMMA NewestFacts ==
    ASSUME NEW list \in Seq(Entry), NEW e \in Entry
    PROVE  LET n == Newest(<<e>> \o list) IN
           /\ n \in Seq(Entry)
           /\ Len(n) = IF Len(list) + 1 < KeptNotes THEN Len(list) + 1 ELSE KeptNotes
           /\ \A i \in 1..Len(n) : n[i] = IF i = 1 THEN e ELSE list[i - 1]
<1> DEFINE s == <<e>> \o list
           m == IF Len(list) + 1 < KeptNotes THEN Len(list) + 1 ELSE KeptNotes
<1>1. Len(list) \in Nat /\ KeptNotes \in Nat
  BY BoundAssumption
<1>2. s \in Seq(Entry) /\ Len(s) = Len(list) + 1
  OBVIOUS
<1>3. \A i \in 1..Len(s) : s[i] = IF i = 1 THEN e ELSE list[i - 1]
  OBVIOUS
<1>4. m \in 0..Len(s) /\ Newest(s) = SubSeq(s, 1, m)
  BY <1>1, <1>2 DEF Newest
<1> HIDE DEF s, m
<1>5. /\ SubSeq(s, 1, m) \in Seq(Entry) /\ Len(SubSeq(s, 1, m)) = m
      /\ \A i \in 1..m : SubSeq(s, 1, m)[i] = s[i]
  BY <1>2, <1>4
<1>6. \A i \in 1..m : i \in 1..Len(s)
  BY <1>1, <1>2, <1>4
<1>7. QED
  BY <1>3, <1>4, <1>5, <1>6 DEF s, m

LEMMA NewEntryFacts ==
    ASSUME NEW c \in Calls
    PROVE  NewEntry(c) \in Entry /\ NewEntry(c).call = c
  BY DEF NewEntry, Entry


\* What is in a list and how it changes with one tool.
LEMMA ChangedFacts ==
    ASSUME NEW c \in Calls, tool \in [Calls -> Tools], NEW list \in Seq(Entry),
           tool[c] = "mark_done" => Match(list) # 0
    PROVE  /\ Changed(c, list) \in Seq(Entry)
           /\ KeptIn(tool[c], c, Changed(c, list))
           /\ Held(c, list) = {} => Once(c, Changed(c, list))
<1> DEFINE new == Changed(c, list)
<1>1. NewEntry(c) \in Entry /\ NewEntry(c).call = c
  BY NewEntryFacts
<1>2. CASE tool[c] = "mark_done"
  <2>1. new = Marked(list)
    BY <1>2 DEF Changed
  <2>2. QED
    BY <1>2, <2>1, MarkedFacts, SMTT(30) DEF KeptIn, Held, Once
<1>3. CASE tool[c] = "add_note"
  <2>1. new = Newest(<<NewEntry(c)>> \o list)
    BY <1>3 DEF Changed
  <2>2. /\ new \in Seq(Entry)
        /\ Len(new) = IF Len(list) + 1 < KeptNotes THEN Len(list) + 1 ELSE KeptNotes
        /\ \A i \in 1..Len(new) : new[i] = IF i = 1 THEN NewEntry(c) ELSE list[i - 1]
    BY <1>1, <2>1, NewestFacts, SMTT(30)
  <2> HIDE DEF new
  <2>3. Len(list) \in Nat /\ KeptNotes \in Nat /\ DOMAIN new = 1..Len(new)
        /\ DOMAIN list = 1..Len(list)
    BY <2>2, BoundAssumption
  <2>4. Len(new) = KeptNotes \/ 1 \in Held(c, new)
    BY <1>1, <2>2, <2>3 DEF Held
  <2>5. ASSUME Held(c, list) = {}, NEW i \in Held(c, new)
        PROVE  i = 1
    <3>1. i \in 1..Len(new) /\ new[i].call = c
      BY <2>3, <2>5 DEF Held
    <3>2. i # 1 => i - 1 \in DOMAIN list /\ list[i - 1].call = c
      BY <2>2, <2>3, <3>1
    <3>3. QED
      BY <2>5, <3>2 DEF Held
  <2>6. Held(c, list) = {} => Once(c, new)
    BY <2>5 DEF Once
  <2>7. KeptIn(tool[c], c, new)
    BY <1>3, <2>4 DEF KeptIn
  <2>8. QED
    BY <2>2, <2>6, <2>7 DEF new
<1>4. CASE tool[c] \notin {"mark_done", "add_note"}
  <2>1. new = Append(list, NewEntry(c))
    BY <1>4 DEF Changed
  <2>2. /\ new \in Seq(Entry) /\ DOMAIN new = 1..Len(list) + 1
        /\ DOMAIN list = 1..Len(list) /\ Len(list) \in Nat
        /\ new[Len(list) + 1] = NewEntry(c)
        /\ \A i \in 1..Len(list) : new[i] = list[i]
    BY <1>1, <2>1
  <2> HIDE DEF new
  <2>3. Len(list) + 1 \in Held(c, new)
    BY <1>1, <2>2 DEF Held
  <2>4. ASSUME Held(c, list) = {}, NEW i \in Held(c, new)
        PROVE  i = Len(list) + 1
    BY <2>2, <2>4 DEF Held
  <2>5. Held(c, list) = {} => Once(c, new)
    BY <2>4 DEF Once
  <2>6. KeptIn(tool[c], c, new)
    BY <1>4, <2>3 DEF KeptIn
  <2>7. QED
    BY <2>2, <2>5, <2>6 DEF new
<1>5. QED
  BY <1>2, <1>3, <1>4

\* Another call that has the same list leaves there what a call has.
LEMMA OthersKeep ==
    ASSUME NEW c \in Calls, NEW d \in Calls, c # d, tool \in [Calls -> Tools],
           ListOf(c) = ListOf(d), NEW list \in Seq(Entry),
           tool[d] = "mark_done" => Match(list) # 0
    PROVE  /\ KeptIn(tool[c], c, list) => KeptIn(tool[c], c, Changed(d, list))
           /\ Once(c, list) => Once(c, Changed(d, list))
           /\ Held(c, list) = {} => Held(c, Changed(d, list)) = {}
<1> DEFINE new == Changed(d, list)
<1>1. NewEntry(d) \in Entry /\ NewEntry(d).call = d
  BY NewEntryFacts
<1>2. CASE tool[d] = "mark_done"
  <2>1. new = Marked(list)
    BY <1>2 DEF Changed
  <2>2. tool[c] # "add_note"
    BY <1>2 DEF ListOf
  <2>3. /\ DOMAIN new = DOMAIN list
        /\ \A i \in DOMAIN list : /\ new[i].call = list[i].call
                                  /\ list[i].done => new[i].done
    BY <1>2, <2>1, MarkedFacts
  <2> HIDE DEF new
  <2>4. Held(c, new) = Held(c, list)
    BY <2>3 DEF Held
  <2>5. KeptIn(tool[c], c, list) => KeptIn(tool[c], c, new)
    BY <2>2, <2>3, <2>4 DEF KeptIn
  <2>6. QED
    BY <2>4, <2>5 DEF new, Once
<1>3. CASE tool[d] = "add_note"
  <2>1. new = Newest(<<NewEntry(d)>> \o list)
    BY <1>3 DEF Changed
  <2>2. tool[c] = "add_note"
    BY <1>3 DEF ListOf, Tools
  <2>3. /\ new \in Seq(Entry)
        /\ Len(new) = IF Len(list) + 1 < KeptNotes THEN Len(list) + 1 ELSE KeptNotes
        /\ \A i \in 1..Len(new) : new[i] = IF i = 1 THEN NewEntry(d) ELSE list[i - 1]
    BY <1>1, <2>1, NewestFacts, SMTT(30)
  <2> HIDE DEF new
  <2>4. Len(list) \in Nat /\ KeptNotes \in Nat /\ DOMAIN new = 1..Len(new)
        /\ DOMAIN list = 1..Len(list)
    BY <2>3, BoundAssumption
  <2>5. \A i \in Held(c, new) : i \in Nat /\ i - 1 \in Held(c, list)
    BY <1>1, <2>3, <2>4 DEF Held
  <2>6. \A i \in Held(c, list) : i + 1 \in Held(c, new) \/ Len(new) = KeptNotes
    <3> TAKE i \in Held(c, list)
    <3>1. i \in 1..Len(list) /\ list[i].call = c
      BY <2>4 DEF Held
    <3> DEFINE k == i + 1
    <3>2. k \in Nat /\ k # 1 /\ k - 1 = i /\ (k \in 1..Len(new) \/ Len(new) = KeptNotes)
      BY <2>3, <2>4, <3>1
    <3> HIDE DEF k
    <3>3. k \in Held(c, new) \/ Len(new) = KeptNotes
      BY <2>3, <2>4, <3>1, <3>2 DEF Held
    <3>4. QED
      BY <3>3 DEF k
  <2>7. Len(list) = KeptNotes => Len(new) = KeptNotes
    BY <2>3, <2>4
  <2>8. KeptIn(tool[c], c, list) => KeptIn(tool[c], c, new)
    BY <2>2, <2>6, <2>7 DEF KeptIn
  <2>9. Once(c, list) => Once(c, new)
    BY <2>5 DEF Once
  <2>10. Held(c, list) = {} => Held(c, new) = {}
    BY <2>5
  <2>11. QED
    BY <2>8, <2>9, <2>10 DEF new
<1>4. CASE tool[d] \notin {"mark_done", "add_note"}
  <2>1. new = Append(list, NewEntry(d))
    BY <1>4 DEF Changed
  <2>2. tool[c] # "add_note"
    BY <1>4 DEF ListOf, Tools
  <2>3. /\ DOMAIN new = 1..Len(list) + 1
        /\ DOMAIN list = 1..Len(list) /\ Len(list) \in Nat
        /\ new[Len(list) + 1] = NewEntry(d)
        /\ \A i \in 1..Len(list) : new[i] = list[i]
    BY <1>1, <2>1
  <2> HIDE DEF new
  <2>4. Held(c, new) = Held(c, list)
    BY <1>1, <2>3 DEF Held
  <2>5. KeptIn(tool[c], c, list) => KeptIn(tool[c], c, new)
    BY <2>2, <2>3, <2>4 DEF KeptIn
  <2>6. QED
    BY <2>4, <2>5 DEF new, Once
<1>5. QED
  BY <1>2, <1>3, <1>4


-----------------------------------------------------------------------------
(* Lists nobody wiped or overwrote *)

CallRecord ==
    [at : {"get", "put", "ended"}, copy : Seq(Entry), failed : BOOLEAN, ok : BOOLEAN,
     tries : Nat]

\* A call about to put its list has found what it marks, and has nothing after a GET
\* that failed.
Ready(t, k) ==
    k.at = "put" => /\ k.failed => k.copy = <<>>
                    /\ t = "mark_done" => Match(k.copy) # 0

ToolsTyped ==
    /\ tool \in [Calls -> Tools]
    /\ lists \in [Lists -> Seq(Entry)]
    /\ call \in [Calls -> CallRecord]
    /\ \A c \in Calls : Ready(tool[c], call[c])

\* What a list that was neither wiped nor overwritten has of a call: the entry of one
\* that was reported done, one entry at most unless it was made again, and none before
\* its PUT.
Stands(c) ==
    ListOf(c) \notin wiped \union raced =>
        /\ call[c].at = "ended" /\ call[c].ok => KeptIn(tool[c], c, lists[ListOf(c)])
        /\ c \notin repeated =>
               /\ Once(c, lists[ListOf(c)])
               /\ call[c].at # "ended" => Held(c, lists[ListOf(c)]) = {}

ToolsInv == ToolsTyped /\ \A c \in Calls : Stands(c)

LEMMA ListOfType ==
    ASSUME tool \in [Calls -> Tools], NEW c \in Calls
    PROVE  ListOf(c) \in Lists
  BY DEF ListOf, Tools, Lists

LEMMA EndedFacts ==
    ASSUME NEW k \in CallRecord, NEW ok \in BOOLEAN
    PROVE  Ended(k, ok) \in CallRecord /\ Ended(k, ok).at = "ended" /\ Ended(k, ok).ok = ok
<1> DEFINE n == Ended(k, ok)
<1>1. n.at = "ended" /\ n.copy = <<>> /\ n.ok = ok
  BY Zenon DEF Ended, CallRecord
<1>2. <<>> \in Seq(Entry)
  OBVIOUS
<1>3. n \in CallRecord
  BY <1>2, Zenon DEF Ended, CallRecord
<1>4. QED
  BY <1>1, <1>3, Zenon

LEMMA HoldingFacts ==
    ASSUME NEW k \in CallRecord, NEW list \in Seq(Entry), NEW failed \in BOOLEAN
    PROVE  /\ Holding(k, list, failed) \in CallRecord
           /\ Holding(k, list, failed).at = "put"
           /\ Holding(k, list, failed).copy = list
           /\ Holding(k, list, failed).failed = failed
<1>1. Holding(k, list, failed) \in CallRecord
  BY Zenon DEF Holding, CallRecord
<1>2. QED
  BY <1>1, Zenon DEF Holding, CallRecord

\* A step that changes one call, and no list.
LEMMA CallMoves ==
    ASSUME ToolsInv, NEW c \in Calls, NEW k \in CallRecord,
           call' = [call EXCEPT ![c] = k], Ready(tool[c], k),
           UNCHANGED <<tool, lists, wiped, raced>>, repeated \subseteq repeated',
           k.at = "ended" => k.ok = FALSE,
           c \in repeated' \/ k.at = "ended" \/ call[c].at # "ended"
    PROVE  ToolsInv'
<1>1. \A d \in Calls : call'[d] = IF d = c THEN k ELSE call[d]
  BY Zenon DEF ToolsInv, ToolsTyped
<1>2. call' \in [Calls -> CallRecord]
  BY Zenon DEF ToolsInv, ToolsTyped
<1>3. ASSUME NEW d \in Calls
      PROVE  Ready(tool[d], call'[d])
  BY <1>1, Zenon DEF ToolsInv, ToolsTyped
<1>4. ToolsTyped'
  BY <1>2, <1>3, Zenon DEF ToolsInv, ToolsTyped, Ready
<1>5. ASSUME NEW d \in Calls
      PROVE  Stands(d)'
  <2>1. ListOf(d)' = ListOf(d)
    BY DEF ListOf
  <2>2. Stands(d)
    BY Zenon DEF ToolsInv
  <2>3. CASE d = c
    <3>1. call'[d] = k
      BY <1>1, <2>3
    <3>2. ~(k.at = "ended" /\ k.ok)
      BY Zenon
    <3>3. d \notin repeated' => d \notin repeated /\ (k.at = "ended" \/ call[d].at # "ended")
      BY <2>3
    <3>4. QED
      BY <2>1, <2>2, <3>1, <3>2, <3>3, Zenon DEF Stands
  <2>4. CASE d # c
    <3>1. call'[d] = call[d]
      BY <1>1, <2>4
    <3>2. d \notin repeated' => d \notin repeated
      OBVIOUS
    <3>3. QED
      BY <2>1, <2>2, <3>1, <3>2, Zenon DEF Stands
  <2>5. QED
    BY <2>3, <2>4
<1>6. QED
  BY <1>4, <1>5, Zenon DEF ToolsInv

\* A list is put, whatever its caller is told.
LEMMA ListIsPut ==
    ASSUME ToolsInv, NEW c \in Calls, NEW ok \in BOOLEAN, call[c].at = "put",
           Stored(c), Ends(c, ok), UNCHANGED <<tool, repeated>>
    PROVE  ToolsInv'
<1> DEFINE l == ListOf(c)
           copy == call[c].copy
           new == Changed(c, copy)
           k == Ended(call[c], ok)
<1>1. /\ ToolsTyped /\ call[c] \in CallRecord /\ copy \in Seq(Entry) /\ l \in Lists
      /\ tool[c] = "mark_done" => Match(copy) # 0
      /\ call[c].failed => copy = <<>>
  BY ListOfType DEF ToolsInv, ToolsTyped, Ready, CallRecord
<1>2. lists' = [lists EXCEPT ![l] = new] /\ call' = [call EXCEPT ![c] = k]
  BY Zenon DEF Stored, Ends, ToolsInv, ToolsTyped
<1>3. k \in CallRecord /\ k.at = "ended" /\ k.ok = ok
  BY <1>1, EndedFacts
<1>4. new \in Seq(Entry) /\ KeptIn(tool[c], c, new) /\ (Held(c, copy) = {} => Once(c, new))
  BY <1>1, ChangedFacts DEF ToolsTyped
<1>5. /\ wiped \subseteq wiped' /\ raced \subseteq raced'
      /\ l \notin wiped' \union raced' => lists[l] = copy
  BY <1>1 DEF Stored
<1>6. \A d \in Calls : d # c /\ ListOf(d) = l =>
        /\ KeptIn(tool[d], d, copy) => KeptIn(tool[d], d, new)
        /\ Once(d, copy) => Once(d, new)
        /\ Held(d, copy) = {} => Held(d, new) = {}
  BY <1>1, OthersKeep DEF ToolsTyped
<1> HIDE DEF l, copy, new, k
<1>7. \A d \in Calls : call'[d] = IF d = c THEN k ELSE call[d]
  BY <1>2, Zenon DEF ToolsInv, ToolsTyped
<1>8. \A m \in Lists : lists'[m] = IF m = l THEN new ELSE lists[m]
  BY <1>2, Zenon DEF ToolsInv, ToolsTyped
<1>9. ToolsTyped'
  <2>1. call' \in [Calls -> CallRecord] /\ lists' \in [Lists -> Seq(Entry)]
    BY <1>1, <1>2, <1>3, <1>4, Zenon DEF ToolsTyped
  <2>2. ASSUME NEW d \in Calls
        PROVE  Ready(tool[d], call'[d])
    BY <1>1, <1>3, <1>7 DEF ToolsTyped, Ready
  <2>3. QED
    BY <1>1, <2>1, <2>2, Zenon DEF ToolsTyped, Ready
<1>10. ASSUME NEW d \in Calls, ListOf(d) \notin wiped' \union raced'
       PROVE  /\ call'[d].at = "ended" /\ call'[d].ok => KeptIn(tool[d], d, lists'[ListOf(d)])
              /\ d \notin repeated =>
                   /\ Once(d, lists'[ListOf(d)])
                   /\ call'[d].at # "ended" => Held(d, lists'[ListOf(d)]) = {}
  <2>1. /\ ListOf(d) \notin wiped \union raced
        /\ ListOf(d) \in Lists
    BY <1>1, <1>5, <1>10, ListOfType DEF ToolsTyped
  <2>2. /\ call[d].at = "ended" /\ call[d].ok => KeptIn(tool[d], d, lists[ListOf(d)])
        /\ d \notin repeated =>
             /\ Once(d, lists[ListOf(d)])
             /\ call[d].at # "ended" => Held(d, lists[ListOf(d)]) = {}
    BY <2>1, Zenon DEF ToolsInv, Stands
  <2>3. CASE d = c
    <3>1. call'[d] = k /\ lists'[ListOf(d)] = new /\ lists[ListOf(d)] = copy
      BY <1>5, <1>7, <1>8, <1>10, <2>1, <2>3 DEF l
    <3>2. d \notin repeated => Once(d, new)
      BY <1>4, <2>2, <2>3, <3>1, Zenon
    <3>3. QED
      BY <1>3, <1>4, <2>3, <3>1, <3>2, Zenon
  <2>4. CASE d # c /\ ListOf(d) = l
    <3>1. call'[d] = call[d] /\ lists'[ListOf(d)] = new /\ lists[ListOf(d)] = copy
      BY <1>5, <1>7, <1>8, <1>10, <2>1, <2>4
    <3>2. QED
      BY <1>6, <2>2, <2>4, <3>1, Zenon
  <2>5. CASE d # c /\ ListOf(d) # l
    <3>1. call'[d] = call[d] /\ lists'[ListOf(d)] = lists[ListOf(d)]
      BY <1>7, <1>8, <2>1, <2>5
    <3>2. QED
      BY <2>2, <3>1, Zenon
  <2>6. QED
    BY <2>3, <2>4, <2>5
<1>11. ASSUME NEW d \in Calls
       PROVE  Stands(d)'
  <2>1. ListOf(d)' = ListOf(d)
    BY DEF ListOf
  <2>2. QED
    BY <1>10, <2>1, Zenon DEF Stands
<1>12. QED
  BY <1>9, <1>11, Zenon DEF ToolsInv

LEMMA ToolsInit == Init => ToolsInv
<1> SUFFICES ASSUME Init PROVE ToolsInv
  OBVIOUS
<1>1. /\ NewCall \in CallRecord /\ NewCall.at = "get"
      /\ <<>> \in Seq(Entry) /\ DOMAIN <<>> = {}
  BY DEF NewCall, CallRecord
<1>2. ToolsTyped
  BY <1>1, Zenon DEF Init, ToolsTyped, Ready
<1>3. ASSUME NEW c \in Calls
      PROVE  Stands(c)
  <2>1. call[c] = NewCall
    BY DEF Init
  <2>2. lists[ListOf(c)] = <<>>
    BY <1>2, ListOfType DEF Init, ToolsTyped
  <2>3. Held(c, <<>>) = {}
    BY <1>1 DEF Held
  <2>4. Once(c, <<>>)
    BY <2>3 DEF Once
  <2>5. QED
    BY <1>1, <2>1, <2>2, <2>3, <2>4, Zenon DEF Stands
<1>4. QED
  BY <1>2, <1>3, Zenon DEF ToolsInv

LEMMA GetKeeps ==
    ASSUME ToolsInv, NEW c \in Calls, Get(c)
    PROVE  ToolsInv'
<1>1. call[c] \in CallRecord /\ lists[ListOf(c)] \in Seq(Entry) /\ Fallback = <<>>
  BY ListOfType DEF ToolsInv, ToolsTyped, Fallback
<1>2. \/ Got(c, lists[ListOf(c)], FALSE)
      \/ Got(c, Fallback, TRUE)
      \/ Ends(c, FALSE) /\ UNCHANGED <<tool, lists, wiped, raced, repeated>>
  BY Zenon DEF Get
<1>3. UNCHANGED <<tool, lists, wiped, raced, repeated>> /\ call[c].at = "get"
  BY <1>2, Zenon DEF Got, Get
<1>4. CASE Ends(c, FALSE)
  <2> DEFINE k == Ended(call[c], FALSE)
  <2>1. call' = [call EXCEPT ![c] = k]
    BY <1>4, Zenon DEF Ends, ToolsInv, ToolsTyped
  <2>2. k \in CallRecord /\ k.at = "ended" /\ k.ok = FALSE
    BY <1>1, EndedFacts
  <2> HIDE DEF k
  <2>3. Ready(tool[c], k)
    BY <2>2 DEF Ready
  <2>4. QED
    BY <1>3, <2>1, <2>2, <2>3, CallMoves
<1>5. ASSUME NEW list \in Seq(Entry), NEW failed \in BOOLEAN, failed => list = <<>>,
             Got(c, list, failed), ~Ends(c, FALSE)
      PROVE  ToolsInv'
  <2> DEFINE k == Holding(call[c], list, failed)
  <2>1. /\ ~(tool[c] = "mark_done" /\ Match(list) = 0)
        /\ call' = [call EXCEPT ![c] = k]
    BY <1>5, Zenon DEF Got, ToolsInv, ToolsTyped
  <2>2. k \in CallRecord /\ k.at = "put" /\ k.copy = list /\ k.failed = failed
    BY <1>1, HoldingFacts
  <2> HIDE DEF k
  <2>3. Ready(tool[c], k)
    BY <1>5, <2>1, <2>2, Zenon DEF Ready
  <2>4. k.at # "ended" /\ call[c].at # "ended"
    BY <1>3, <2>2
  <2>5. QED
    BY <1>3, <2>1, <2>2, <2>3, <2>4, CallMoves
<1>6. <<>> \in Seq(Entry)
  OBVIOUS
<1>7. QED
  BY <1>1, <1>2, <1>4, <1>5, <1>6, Zenon

LEMMA PutKeeps ==
    ASSUME ToolsInv, NEW c \in Calls, Put(c)
    PROVE  ToolsInv'
<1>1. call[c] \in CallRecord
  BY DEF ToolsInv, ToolsTyped
<1>2. call[c].at = "put" /\ UNCHANGED <<tool, repeated>>
  BY Zenon DEF Put
<1>3. \/ \E ok \in BOOLEAN : Stored(c) /\ Ends(c, ok)
      \/ Ends(c, FALSE) /\ UNCHANGED <<lists, wiped, raced>>
  BY Zenon DEF Put
<1>4. CASE \E ok \in BOOLEAN : Stored(c) /\ Ends(c, ok)
  BY <1>2, <1>4, ListIsPut, Zenon
<1>5. CASE Ends(c, FALSE) /\ UNCHANGED <<lists, wiped, raced>>
  <2> DEFINE k == Ended(call[c], FALSE)
  <2>1. call' = [call EXCEPT ![c] = k]
    BY <1>5, Zenon DEF Ends, ToolsInv, ToolsTyped
  <2>2. k \in CallRecord /\ k.at = "ended" /\ k.ok = FALSE
    BY <1>1, EndedFacts
  <2> HIDE DEF k
  <2>3. Ready(tool[c], k)
    BY <2>2 DEF Ready
  <2>4. QED
    BY <1>2, <1>5, <2>1, <2>2, <2>3, CallMoves
<1>6. QED
  BY <1>3, <1>4, <1>5

LEMMA TryAgainKeeps ==
    ASSUME ToolsInv, NEW c \in Calls, TryAgain(c)
    PROVE  ToolsInv'
<1> DEFINE k == [NewCall EXCEPT !.tries = call[c].tries + 1]
<1>1. call[c].tries \in Nat
  BY DEF ToolsInv, ToolsTyped, CallRecord
<1>2. k \in CallRecord /\ k.at = "get"
  <2>1. NewCall \in CallRecord /\ NewCall.at = "get"
    BY DEF NewCall, CallRecord
  <2>2. k.at = NewCall.at
    BY <2>1, Zenon DEF CallRecord
  <2>3. k \in CallRecord
    BY <1>1, <2>1 DEF CallRecord
  <2>4. QED
    BY <2>1, <2>2, <2>3, Zenon
<1>3. /\ call' = [call EXCEPT ![c] = k] /\ c \in repeated' /\ repeated \subseteq repeated'
      /\ UNCHANGED <<tool, lists, wiped, raced>>
  BY DEF TryAgain
<1> HIDE DEF k
<1>4. Ready(tool[c], k) /\ k.at # "ended"
  BY <1>2 DEF Ready
<1>5. QED
  BY <1>2, <1>3, <1>4, CallMoves

\* Every step keeps what the lists say of the calls.
LEMMA ToolsNext == ToolsInv /\ [Next]_vars => ToolsInv'
<1> SUFFICES ASSUME ToolsInv, [Next]_vars
             PROVE  ToolsInv'
  OBVIOUS
<1>1. ASSUME UNCHANGED <<tool, lists, call, wiped, raced, repeated>>
      PROVE  ToolsInv'
  BY <1>1, Zenon DEF ToolsInv, ToolsTyped, Stands, ListOf, Ready
<1>2. ASSUME NEW c \in Calls, Get(c) \/ Put(c) \/ TryAgain(c)
      PROVE  ToolsInv'
  BY <1>2, GetKeeps, PutKeeps, TryAgainKeeps, Zenon
<1>3. ASSUME NEW k \in Clients, OtherRequest(k)
      PROVE  ToolsInv'
  BY <1>1, <1>3, Zenon DEF OtherRequest
<1>4. CASE Time
  BY <1>1, <1>4, Zenon DEF Time
<1>5. CASE UNCHANGED vars
  BY <1>1, <1>5, Zenon DEF vars
<1>6. QED
  BY <1>2, <1>3, <1>4, <1>5, Zenon DEF Next

\* The bridge's tools and note-append over getState() and setState(): in a list that was
\* neither put back after a failed GET nor changed by two calls at once, what a tool
\* reported as done is there and stays, done tasks stay done, and nothing is there
\* twice unless the job was tried again.
THEOREM ToolsKeepLists == Spec => []ListsKept
<1>1. Spec => []ToolsInv
  BY ToolsInit, ToolsNext, PTL DEF Spec
<1>2. ASSUME ToolsInv, NEW c \in Calls, ListOf(c) \notin wiped \union raced
      PROVE  /\ call[c].at = "ended" /\ call[c].ok => Kept(c)
             /\ c \notin repeated => \A i, k \in EntriesOf(c) : i = k
  <2>1. Stands(c) /\ tool[c] \in Tools
    BY <1>2 DEF ToolsInv, ToolsTyped
  <2>2. EntriesOf(c) = Held(c, lists[ListOf(c)])
    BY Zenon DEF EntriesOf, Held
  <2>3. ASSUME KeptIn(tool[c], c, lists[ListOf(c)])
        PROVE  Kept(c)
    <3>1. CASE tool[c] = "mark_done"
      <4>1. ListOf(c) = "tasks"
        BY <3>1 DEF ListOf
      <4>2. PICK i \in DOMAIN lists["tasks"] :
              lists["tasks"][i].call = Target /\ lists["tasks"][i].done
        BY <2>3, <3>1, <4>1, Zenon DEF KeptIn
      <4>3. lists["tasks"][i] \in Range(lists["tasks"])
        BY Zenon DEF Range
      <4>4. QED
        BY <3>1, <4>2, <4>3, Zenon DEF Kept
    <3>2. CASE tool[c] = "add_note"
      <4>1. ListOf(c) = "quick_notes"
        BY <3>2 DEF ListOf
      <4>2. QED
        BY <2>2, <2>3, <3>2, <4>1 DEF KeptIn, Kept
    <3>3. CASE tool[c] \notin {"mark_done", "add_note"}
      BY <2>2, <2>3, <3>3 DEF KeptIn, Kept
    <3>4. QED
      BY <3>1, <3>2, <3>3
  <2>4. QED
    BY <1>2, <2>1, <2>2, <2>3, Zenon DEF Stands, Once
<1>3. ToolsInv => ListsKept
  BY <1>2, Zenon DEF ListsKept
<1>4. QED
  BY <1>1, <1>3, PTL
=============================================================================
