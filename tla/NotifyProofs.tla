---------------------------- MODULE NotifyProofs ----------------------------
(***************************************************************************)
(* Theorems about Notify, for every set of calls, every preferences the    *)
(* user may have and every number of attempts.                             *)
(***************************************************************************)
EXTENDS Notify, WellFoundedInduction, TLAPS

Stages == {"new", "thrown", "dropped", "posting", "delivered", "failed", "dead"}

\* A call is a record of these fields.
Shaped(k) ==
    /\ k = [at |-> k.at, job |-> k.job, minute |-> k.minute, seen |-> k.seen,
            channel |-> k.channel, attempts |-> k.attempts, unsure |-> k.unsure]
    /\ k.at \in Stages
    /\ k.attempts \in 0 .. MaxAttempts
    /\ k.unsure \in BOOLEAN

\* The gateway has copies of the one delivery of the call, at most one per attempt.
Held(k, box) ==
    /\ box \in Seq({Delivery(k)})
    /\ Len(box) <= k.attempts

\* What the stage of a call says of the box, and of the posts before.
Agreed(k, box) ==
    /\ Len(box) > 1 => k.unsure
    /\ k.at \in {"new", "dropped", "thrown"} => box = <<>> /\ k.attempts = 0
    /\ k.at = "posting" => /\ k.attempts < MaxAttempts
                           /\ k.channel # "silent"
                           /\ box # <<>> => k.unsure
    /\ k.at = "delivered" => (box = <<>> <=> k.channel = "silent")
    /\ k.at = "failed" /\ box # <<>> => k.unsure

\* One call and its box.
Sound(k, box) == Shaped(k) /\ Held(k, box) /\ Agreed(k, box)

BoxesInv ==
    /\ call = [c \in Calls |-> call[c]]
    /\ inbox = [c \in Calls |-> inbox[c]]
    /\ \A c \in Calls : Sound(call[c], inbox[c])

-----------------------------------------------------------------------------

\* A call that is about to start has posted nothing.
LEMMA NewIsSound == Sound(NewCall, <<>>)
  BY AttemptsAssumption DEF Sound, Shaped, Held, Agreed, NewCall, Delivery, Stages

\* Whatever is chosen, nothing has been posted yet.
LEMMA StartIsSound ==
    ASSUME NEW job, NEW minute, NEW prefs, NEW chosen, NEW throws
    PROVE  Sound(Started(job, minute, prefs, chosen, throws), <<>>)
  <1> DEFINE k == Started(job, minute, prefs, chosen, throws)
  <1>1. Shaped(k)
    BY AttemptsAssumption DEF Shaped, Started, Stages
  <1>2. k.attempts = 0 /\ (k.at = "posting" => k.channel # "silent")
    BY DEF Started
  <1>3. k.at = "delivered" => k.channel = "silent"
    BY DEF Started
  <1>4. k.at \notin {"new", "failed"}
    BY DEF Started
  <1> HIDE DEF k
  <1>5. Held(k, <<>>)
    BY <1>2 DEF Held
  <1>6. Agreed(k, <<>>)
    BY <1>2, <1>3, <1>4, AttemptsAssumption DEF Agreed
  <1> QED
    BY <1>1, <1>5, <1>6, Zenon DEF Sound, k

\* The fields an answer changes, and those it leaves.
LEMMA AnswerFields ==
    ASSUME NEW k, Shaped(k), NEW answer
    PROVE  LET n == Answered(k, answer) IN
           /\ n.attempts = k.attempts + 1
           /\ n.unsure = (k.unsure \/ answer \in {"error", "lost"})
           /\ n.at = IF answer = "ok" THEN "delivered"
                     ELSE IF Retried(answer, k.attempts + 1) THEN "posting"
                     ELSE "failed"
           /\ n.channel = k.channel /\ n.minute = k.minute
           /\ n = [at |-> n.at, job |-> n.job, minute |-> n.minute, seen |-> n.seen,
                   channel |-> n.channel, attempts |-> n.attempts, unsure |-> n.unsure]
  <1> DEFINE n == Answered(k, answer)
             Fields == {"at", "job", "minute", "seen", "channel", "attempts", "unsure"}
  <1>1. n.attempts = k.attempts + 1
    BY Zenon DEF Shaped, Answered
  <1>2. n.unsure = (k.unsure \/ answer \in {"error", "lost"})
    BY Zenon DEF Shaped, Answered
  <1>3. n.at = IF answer = "ok" THEN "delivered"
               ELSE IF Retried(answer, k.attempts + 1) THEN "posting" ELSE "failed"
    BY Zenon DEF Shaped, Answered
  <1>4. n.channel = k.channel /\ n.minute = k.minute
    BY Zenon DEF Shaped, Answered
  <1>5. DOMAIN n = Fields
    BY Zenon DEF Shaped, Answered
  <1>6. n = [f \in Fields |-> n[f]]
    BY <1>5, Zenon DEF Answered
  <1> HIDE DEF n
  <1>7. n = [at |-> n.at, job |-> n.job, minute |-> n.minute, seen |-> n.seen,
             channel |-> n.channel, attempts |-> n.attempts, unsure |-> n.unsure]
    BY <1>6
  <1> QED
    BY <1>1, <1>2, <1>3, <1>4, <1>7, Zenon DEF n

\* A post that is accepted adds a copy.
LEMMA AppendedBox ==
    ASSUME NEW D, NEW d \in D, NEW box \in Seq(D)
    PROVE  /\ Append(box, d) \in Seq(D)
           /\ Len(Append(box, d)) = Len(box) + 1
           /\ Append(box, d) # <<>>
  <1>1. Append(box, d) \in Seq(D)
    OBVIOUS
  <1>2. Len(Append(box, d)) = Len(box) + 1 /\ Len(box) \in Nat
    OBVIOUS
  <1>3. Append(box, d) # <<>>
    BY <1>2, Len(<<>>) = 0
  <1> QED
    BY <1>1, <1>2, <1>3

\* One post and its answer keep a call and its box in agreement.
LEMMA AnswerIsSound ==
    ASSUME NEW k, NEW box, Sound(k, box), k.at = "posting",
           NEW answer \in Answers, NEW accepted \in BOOLEAN,
           accepted \in MayAccept(answer)
    PROVE  Sound(Answered(k, answer), IF accepted THEN Append(box, Delivery(k)) ELSE box)
  <1> DEFINE n == Answered(k, answer)
             got == IF accepted THEN Append(box, Delivery(k)) ELSE box
  <1>1. Shaped(k) /\ Held(k, box) /\ Agreed(k, box)
    BY DEF Sound
  <1>2. k.attempts \in Nat /\ k.attempts < MaxAttempts /\ k.channel # "silent"
    BY <1>1, AttemptsAssumption DEF Shaped, Agreed
  <1>3. /\ n.attempts = k.attempts + 1 /\ n.channel = k.channel /\ n.minute = k.minute
        /\ n.unsure = (k.unsure \/ answer \in {"error", "lost"})
        /\ n.at = IF answer = "ok" THEN "delivered"
                  ELSE IF Retried(answer, k.attempts + 1) THEN "posting" ELSE "failed"
        /\ n = [at |-> n.at, job |-> n.job, minute |-> n.minute, seen |-> n.seen,
                channel |-> n.channel, attempts |-> n.attempts, unsure |-> n.unsure]
    BY <1>1, AnswerFields
  <1> HIDE DEF n
  <1>4. Delivery(n) = Delivery(k)
    BY <1>3 DEF Delivery
  <1>5. Shaped(n)
    <2>1. n.at \in Stages
      BY <1>3 DEF Stages
    <2>2. n.unsure \in BOOLEAN
      BY <1>3, Zenon
    <2>3. n.attempts \in 0 .. MaxAttempts
      BY <1>2, <1>3, AttemptsAssumption
    <2> QED
      BY <1>3, <2>1, <2>2, <2>3, Zenon DEF Shaped
  <1>6. /\ answer = "ok" => accepted
        /\ answer = "refused" => ~accepted
    BY DEF MayAccept
  <1>7. /\ got \in Seq({Delivery(k)})
        /\ accepted => Len(got) = Len(box) + 1 /\ got # <<>>
        /\ ~accepted => got = box
    <2>1. box \in Seq({Delivery(k)})
      BY <1>1 DEF Held
    <2> QED
      BY <2>1, AppendedBox, Delivery(k) \in {Delivery(k)}
  <1>8. Len(box) \in Nat /\ Len(box) <= k.attempts /\ (box = <<>> <=> Len(box) = 0)
    BY <1>1 DEF Held
  <1> HIDE DEF got
  <1>9. Held(n, got)
    BY <1>2, <1>3, <1>4, <1>7, <1>8 DEF Held
  <1>10. k.unsure => n.unsure
    BY <1>3, Zenon
  <1>11. answer \in {"error", "lost"} => n.unsure
    BY <1>3, Zenon
  <1>12. box # <<>> => n.unsure
    BY <1>1, <1>10 DEF Agreed
  <1>13. Len(got) > 1 => n.unsure
    BY <1>7, <1>8, <1>12
  <1>14. got # <<>> /\ answer # "ok" => n.unsure
    BY <1>6, <1>7, <1>11, <1>12 DEF Answers
  <1>15. n.at = "posting" => n.attempts < MaxAttempts /\ answer # "ok"
    BY <1>3 DEF Retried
  <1>16. n.at \in {"posting", "delivered", "failed"}
    BY <1>3
  <1>17. n.at \in {"delivered", "failed"} => (n.at = "delivered" <=> answer = "ok")
    BY <1>3
  <1>18. Agreed(n, got)
    BY <1>2, <1>3, <1>6, <1>7, <1>13, <1>14, <1>15, <1>16, <1>17 DEF Agreed
  <1> QED
    BY <1>5, <1>9, <1>18, Zenon DEF Sound, n, got

\* A call that dies while posting.
LEMMA DeathIsSound ==
    ASSUME NEW k, NEW box, Sound(k, box), k.at = "posting"
    PROVE  Sound([k EXCEPT !.at = "dead"], box)
  <1> DEFINE n == [k EXCEPT !.at = "dead"]
  <1>1. Shaped(k) /\ Held(k, box) /\ Agreed(k, box)
    BY DEF Sound
  <1>2. n = [at |-> "dead", job |-> k.job, minute |-> k.minute, seen |-> k.seen,
             channel |-> k.channel, attempts |-> k.attempts, unsure |-> k.unsure]
    BY <1>1 DEF Shaped
  <1> HIDE DEF n
  <1>3. Shaped(n)
    BY <1>1, <1>2 DEF Shaped, Stages
  <1>4. Held(n, box) /\ Agreed(n, box)
    BY <1>1, <1>2 DEF Held, Agreed, Delivery
  <1> QED
    BY <1>3, <1>4 DEF Sound, n

\* Nothing but its own steps touches a call and its box.
LEMMA OneCallChanges ==
    ASSUME BoxesInv, NEW c \in Calls, NEW k, NEW box, Sound(k, box),
           call' = [call EXCEPT ![c] = k],
           inbox' = [inbox EXCEPT ![c] = box]
    PROVE  BoxesInv'
  BY Zenon DEF BoxesInv

-----------------------------------------------------------------------------

LEMMA BoxesInit == Init => BoxesInv
  BY NewIsSound, Zenon DEF Init, BoxesInv

LEMMA NotifyKeeps ==
    ASSUME BoxesInv, NEW c \in Calls, NEW job, NEW minute, Notify(c, job, minute)
    PROVE  BoxesInv'
  <1>0. PICK readable \in BOOLEAN :
          call' = [call EXCEPT ![c] =
                     Started(job, minute, GetPreferences, Chosen(job, minute, GetPreferences),
                             Throws(job, readable))]
    BY Zenon DEF Notify
  <1> DEFINE k == Started(job, minute, GetPreferences, Chosen(job, minute, GetPreferences),
                          Throws(job, readable))
  <1>1. call' = [call EXCEPT ![c] = k] /\ inbox' = inbox /\ call[c].at = "new"
    BY <1>0, Zenon DEF Notify
  <1>2. Sound(k, <<>>)
    BY StartIsSound, Zenon
  <1>3. inbox[c] = <<>>
    BY <1>1 DEF BoxesInv, Sound, Agreed
  <1> HIDE DEF k
  <1>4. inbox' = [inbox EXCEPT ![c] = <<>>]
    BY <1>1, <1>3, Zenon DEF BoxesInv
  <1> QED
    BY <1>1, <1>2, <1>4, OneCallChanges, Zenon

LEMMA PostKeeps ==
    ASSUME BoxesInv, NEW c \in Calls, Post(c)
    PROVE  BoxesInv'
  <1>1. PICK answer \in Answers, accepted \in BOOLEAN :
          /\ accepted \in MayAccept(answer)
          /\ inbox' = IF accepted THEN [inbox EXCEPT ![c] = Append(@, Delivery(call[c]))]
                      ELSE inbox
          /\ call' = [call EXCEPT ![c] = Answered(@, answer)]
    BY Zenon DEF Post
  <1> DEFINE k == Answered(call[c], answer)
             box == IF accepted THEN Append(inbox[c], Delivery(call[c])) ELSE inbox[c]
  <1>2. Sound(call[c], inbox[c]) /\ call[c].at = "posting"
    BY Zenon DEF BoxesInv, Post
  <1>3. Sound(k, box)
    BY <1>1, <1>2, AnswerIsSound, Zenon
  <1>4. call' = [call EXCEPT ![c] = k]
    BY <1>1, Zenon DEF BoxesInv
  <1>5. inbox' = [inbox EXCEPT ![c] = box]
    <2>1. CASE accepted
      BY <1>1, <2>1, Zenon DEF BoxesInv
    <2>2. CASE ~accepted
      BY <1>1, <2>2, Zenon DEF BoxesInv
    <2> QED
      BY <2>1, <2>2, Zenon
  <1> HIDE DEF k, box
  <1> QED
    BY <1>3, <1>4, <1>5, OneCallChanges, Zenon

LEMMA DieKeeps ==
    ASSUME BoxesInv, NEW c \in Calls, Die(c)
    PROVE  BoxesInv'
  <1> DEFINE k == [call[c] EXCEPT !.at = "dead"]
  <1>1. Sound(call[c], inbox[c]) /\ call[c].at = "posting"
    BY Zenon DEF BoxesInv, Die
  <1>2. Sound(k, inbox[c])
    BY <1>1, DeathIsSound, Zenon
  <1>3. call' = [call EXCEPT ![c] = k] /\ inbox' = [inbox EXCEPT ![c] = inbox[c]]
    BY Zenon DEF BoxesInv, Die
  <1> HIDE DEF k
  <1> QED
    BY <1>2, <1>3, OneCallChanges, Zenon

\* Calls and their boxes agree, whatever the user sets meanwhile.
LEMMA BoxesAgree == Spec => []BoxesInv
  <1>1. BoxesInv /\ [Next]_vars => BoxesInv'
    <2> SUFFICES ASSUME BoxesInv, [Next]_vars
                 PROVE  BoxesInv'
      OBVIOUS
    <2>1. ASSUME NEW c \in Calls, NEW job \in FinishedJobs, NEW minute \in Minutes,
                 Notify(c, job, minute)
          PROVE  BoxesInv'
      BY <2>1, NotifyKeeps, Zenon
    <2>2. ASSUME NEW c \in Calls, Post(c)
          PROVE  BoxesInv'
      BY <2>2, PostKeeps, Zenon
    <2>3. ASSUME NEW c \in Calls, Die(c)
          PROVE  BoxesInv'
      BY <2>3, DieKeeps, Zenon
    <2>4. ASSUME NEW prefs \in NewDocuments, SetPreferences(prefs)
          PROVE  BoxesInv'
      BY <2>4, Zenon DEF SetPreferences, BoxesInv
    <2>5. CASE UNCHANGED vars
      BY <2>5, Zenon DEF vars, BoxesInv
    <2> QED
      BY <2>1, <2>2, <2>3, <2>4, <2>5, Zenon DEF Next
  <1> QED
    BY BoxesInit, <1>1, PTL DEF Spec

\* notify(), dispatchOutbound(): what a call reports agrees with what the gateway
\* holds of it. The gateway has at most one copy per attempt, all of the same delivery,
\* and a second one only if the fate of an earlier post is not known.
THEOREM ReportsAreTrue == Spec => []ReportedAsReceived
  <1>1. ASSUME BoxesInv, NEW c \in Calls
        PROVE  /\ Len(inbox[c]) <= call[c].attempts /\ call[c].attempts <= MaxAttempts
               /\ \A i \in DOMAIN inbox[c] : inbox[c][i] = inbox[c][1]
               /\ Len(inbox[c]) > 1 => call[c].unsure
               /\ call[c].at = "delivered" => (inbox[c] = <<>> <=> call[c].channel = "silent")
               /\ call[c].at \in {"dropped", "thrown"} => inbox[c] = <<>>
               /\ call[c].at = "failed" /\ inbox[c] # <<>> => call[c].unsure
    <2>1. Shaped(call[c]) /\ Held(call[c], inbox[c]) /\ Agreed(call[c], inbox[c])
      BY <1>1, Zenon DEF BoxesInv, Sound
    <2>2. Len(inbox[c]) <= call[c].attempts /\ call[c].attempts <= MaxAttempts
      BY <2>1, AttemptsAssumption DEF Held, Shaped
    <2>3. ASSUME NEW i \in DOMAIN inbox[c]
          PROVE  inbox[c][i] = inbox[c][1]
      BY <2>1 DEF Held
    <2> QED
      BY <2>1, <2>2, <2>3 DEF Agreed
  <1>2. BoxesInv => ReportedAsReceived
    BY <1>1, Zenon DEF ReportedAsReceived
  <1> QED
    BY BoxesAgree, <1>2, PTL

-----------------------------------------------------------------------------

\* What a sum round the clock comes to.
LEMMA RoundTheClock ==
    ASSUME NEW a \in -Day .. 2 * Day - 1
    PROVE  a % Day = IF a < 0 THEN a + Day ELSE IF a < Day THEN a ELSE a - Day
  <1>1. Day \in Nat \ {0}
    BY DayAssumption
  <1>2. ASSUME NEW b \in 0 .. Day - 1
        PROVE  b % Day = b /\ (b - Day) % Day = b /\ (b + Day) % Day = b
    BY <1>1
  <1>3. CASE a < 0
    <2>1. a + Day \in 0 .. Day - 1 /\ a = (a + Day) - Day
      BY <1>1, <1>3
    <2> QED
      BY <1>2, <1>3, <2>1
  <1>4. CASE a >= 0 /\ a < Day
    BY <1>1, <1>2, <1>4
  <1>5. CASE a >= Day
    <2>1. a - Day \in 0 .. Day - 1 /\ a = (a - Day) + Day
      BY <1>1, <1>5
    <2> QED
      BY <1>1, <1>2, <1>5, <2>1
  <1> QED
    BY <1>1, <1>3, <1>4, <1>5

\* insideWindow(): its two comparisons are the interval of the clock from one time up
\* to the other, also over midnight, for a day of any length.
THEOREM WindowIsInterval ==
    ASSUME NEW minute \in Minutes, NEW from \in Minutes, NEW to \in Minutes
    PROVE  InsideWindow(minute, from, to) <=> minute \in From(from, to)
  <1> DEFINE n == (to - from) % Day
  <1>1. Day \in Nat \ {0} /\ minute \in 0 .. Day - 1 /\ from \in 0 .. Day - 1 /\ to \in 0 .. Day - 1
    BY DayAssumption DEF Minutes
  <1>2. n = IF to < from THEN to - from + Day ELSE to - from
    BY <1>1, RoundTheClock
  <1> HIDE DEF n
  <1>3. n \in 0 .. Day - 1
    BY <1>1, <1>2
  <1>4. ASSUME NEW k \in 0 .. n - 1, NEW a, a = from + k
        PROVE  /\ a % Day = (from + k) % Day
               /\ a < Day => a % Day = a
               /\ ~(a < Day) => a % Day = a - Day
    <2>1. a \in -Day .. 2 * Day - 1 /\ ~(a < 0)
      BY <1>1, <1>3, <1>4
    <2>2. a % Day = IF a < 0 THEN a + Day ELSE IF a < Day THEN a ELSE a - Day
      BY <2>1, RoundTheClock
    <2>3. (a < Day => a % Day = a) /\ (~(a < Day) => a % Day = a - Day)
      BY <2>1, <2>2, Zenon
    <2> QED
      BY <1>4, <2>3, Zenon
  <1>5. minute \in From(from, to) <=> \E k \in 0 .. n - 1 : (from + k) % Day = minute
    BY DEF From, n
  <1>6. ASSUME InsideWindow(minute, from, to)
        PROVE  \E k \in 0 .. n - 1 : (from + k) % Day = minute
    <2>1. CASE minute >= from
      <3>1. minute - from \in 0 .. n - 1 /\ minute = from + (minute - from) /\ minute < Day
        BY <1>1, <1>2, <1>6, <2>1 DEF InsideWindow
      <3>2. (from + (minute - from)) % Day = minute
        BY <1>4, <3>1, Zenon
      <3> QED
        BY <3>1, <3>2, Zenon
    <2>2. CASE minute < from
      <3> DEFINE k == minute - from + Day
                 a == minute + Day
      <3>1. k \in 0 .. n - 1 /\ a = from + k /\ ~(a < Day) /\ a - Day = minute
        BY <1>1, <1>2, <1>6, <2>2 DEF InsideWindow
      <3> HIDE DEF a, k
      <3>2. (from + k) % Day = minute
        BY <1>4, <3>1, Zenon
      <3> QED
        BY <3>1, <3>2, Zenon
    <2> QED
      BY <1>1, <2>1, <2>2
  <1>7. ASSUME NEW k \in 0 .. n - 1, (from + k) % Day = minute
        PROVE  InsideWindow(minute, from, to)
    <2> DEFINE a == from + k
    <2>1. a = from + k
      OBVIOUS
    <2> HIDE DEF a
    <2>2. (a < Day => minute = a) /\ (~(a < Day) => minute = a - Day)
      BY <1>4, <1>7, <2>1, Zenon
    <2> QED
      BY <1>1, <1>2, <1>3, <2>1, <2>2 DEF InsideWindow
  <1> QED
    BY <1>5, <1>6, <1>7

-----------------------------------------------------------------------------

(* The choice of a channel *)

\* Induction along a list is on the first entry where something would be wrong.
LEMMA LeastNatural ==
    ASSUME NEW S \in SUBSET Nat, S # {}
    PROVE  \E x \in S : \A y \in S : x <= y
  <1>1. PICK x \in S : \A y \in S : ~(<<y, x>> \in OpToRel(<, Nat))
    BY NatLessThanWellFounded, WFMin
  <1>2. ASSUME NEW y \in S
        PROVE  x <= y
    <2>1. x \in Nat /\ y \in Nat
      OBVIOUS
    <2>2. ~(y < x)
      BY <1>1, <2>1 DEF OpToRel
    <2> QED
      BY <2>1, <2>2
  <1> QED
    BY <1>2

\* The entry at i goes before the best one so far.
Leads(list, severity, i, best) ==
    /\ Eligible(list[i], severity)
    /\ best = 0 \/ Precedes(list[i], list[best])

\* The best entry of each beginning of the list, up to the first m entries.
IsScan(g, list, severity, m) ==
    g = [i \in 0 .. m |-> IF i = 0 THEN 0
                          ELSE IF Leads(list, severity, i, g[i-1]) THEN i ELSE g[i-1]]

\* The scan of pickChannel() reaches the end of any list.
LEMMA ScanExists ==
    ASSUME NEW list, NEW severity, NEW len \in Nat
    PROVE  \E g : IsScan(g, list, severity, len)
  <1> DEFINE Stuck == {m \in Nat : ~\E g : IsScan(g, list, severity, m)}
  <1> SUFFICES ASSUME Stuck # {} PROVE FALSE
    OBVIOUS
  <1>1. PICK m \in Stuck : \A k \in Stuck : m <= k
    <2>1. Stuck \in SUBSET Nat
      OBVIOUS
    <2> HIDE DEF Stuck
    <2> QED
      BY <2>1, LeastNatural
  <1>2. CASE m = 0
    <2> DEFINE g == [i \in 0 .. 0 |-> 0]
    <2>1. IsScan(g, list, severity, 0)
      BY DEF IsScan
    <2> QED
      BY <1>1, <1>2, <2>1
  <1>3. CASE m # 0
    <2>1. m \in Nat /\ m - 1 \in Nat /\ m - 1 < m /\ ~(m <= m - 1)
      BY <1>3
    <2>2. PICK g : IsScan(g, list, severity, m - 1)
      BY <1>1, <2>1
    <2> DEFINE best == g[m-1]
               next == IF Leads(list, severity, m, best) THEN m ELSE best
               h    == [i \in 0 .. m |-> IF i = m THEN next ELSE g[i]]
               w    == [i \in 0 .. m |-> IF i = 0 THEN 0
                                         ELSE IF Leads(list, severity, i, h[i-1])
                                         THEN i ELSE h[i-1]]
    <2>3. \A i \in 0 .. m - 1 :
            /\ h[i] = g[i]
            /\ g[i] = IF i = 0 THEN 0
                      ELSE IF Leads(list, severity, i, g[i-1]) THEN i ELSE g[i-1]
      BY <2>1, <2>2 DEF IsScan
    <2>4. h[m] = next /\ h[m-1] = best
      BY <2>1, <2>3
    <2>5. ASSUME NEW i \in 0 .. m
          PROVE  h[i] = w[i]
      <3>1. CASE i = m
        <4> HIDE DEF h, best
        <4> QED
          BY <1>3, <2>4, <3>1
      <3>2. CASE i # m
        <4>1. i \in 0 .. m - 1 /\ (i # 0 => i - 1 \in 0 .. m - 1)
          BY <2>1, <3>2
        <4> HIDE DEF h
        <4> QED
          BY <2>3, <4>1
      <3> QED
        BY <3>1, <3>2
    <2>6. h = w
      <3>1. \A i \in 0 .. m : h[i] = w[i]
        BY <2>5
      <3> HIDE DEF next
      <3> QED
        BY <3>1
    <2>7. IsScan(h, list, severity, m)
      BY <2>6 DEF IsScan
    <2> QED
      BY <1>1, <2>7
  <1> QED
    BY <1>2, <1>3

\* b is the best of the first n entries: eligible, of the least number, and the first of
\* those; 0 if none of them is eligible.
IsBest(list, severity, b, n) ==
    /\ b \in 0 .. n
    /\ b = 0 => \A k \in 1 .. n : ~Eligible(list[k], severity)
    /\ b # 0 =>
         /\ Eligible(list[b], severity)
         /\ \A k \in 1 .. n : Eligible(list[k], severity) =>
              /\ list[k].priority >= list[b].priority
              /\ k < b => list[k].priority > list[b].priority

LEMMA ScanStep ==
    ASSUME NEW list, NEW severity, NEW n \in Nat, NEW b,
           \A k \in 1 .. n + 1 : list[k].priority \in Nat,
           IsBest(list, severity, b, n)
    PROVE  IsBest(list, severity, IF Leads(list, severity, n + 1, b) THEN n + 1 ELSE b, n + 1)
  <1>1. \A k \in 1 .. n + 1 : k \in 1 .. n \/ k = n + 1
    OBVIOUS
  <1>2. CASE Leads(list, severity, n + 1, b)
    <2>1. IsBest(list, severity, n + 1, n + 1)
      BY <1>1, <1>2 DEF IsBest, Leads, Precedes
    <2> QED
      BY <1>2, <2>1
  <1>3. CASE ~Leads(list, severity, n + 1, b)
    <2>1. IsBest(list, severity, b, n + 1)
      BY <1>1, <1>3 DEF IsBest, Leads, Precedes
    <2> QED
      BY <1>3, <2>1
  <1> QED
    BY <1>2, <1>3

LEMMA PreferenceFields ==
    ASSUME NEW list \in Seq(ChannelPreference)
    PROVE  /\ Len(list) \in Nat /\ DOMAIN list = 1 .. Len(list)
           /\ \A k \in 1 .. Len(list) : /\ list[k].channel # None
                                        /\ list[k].priority \in Nat
                                        /\ list[k].minSeverity \in 0 .. 3
  <1>1. \A k \in 1 .. Len(list) : list[k] \in ChannelPreference
    OBVIOUS
  <1>2. \A c \in ChannelPreference :
          c.channel \in Channels /\ c.priority \in Nat /\ c.minSeverity \in 0 .. 3
    BY DEF ChannelPreference
  <1> QED
    BY <1>1, <1>2, ChannelAssumption

\* Sorting and taking the first of the list is taking the best.
LEMMA ForemostIsBest ==
    ASSUME NEW prefs, prefs.channels \in Seq(ChannelPreference), NEW severity
    PROVE  IsBest(prefs.channels, severity, Foremost(prefs, severity), Len(prefs.channels))
  <1> DEFINE list == prefs.channels
             len  == Len(list)
             best == CHOOSE g : IsScan(g, list, severity, len)
  <1>0. len \in Nat /\ \A k \in 1 .. len : list[k].priority \in Nat
    BY PreferenceFields
  <1>1. Foremost(prefs, severity) = best[len]
    BY DEF Foremost, IsScan, Leads
  <1>2. IsScan(best, list, severity, len)
    BY <1>0, ScanExists
  <1> HIDE DEF len, best, list
  <1> DEFINE Wrong == {n \in 0 .. len : ~IsBest(list, severity, best[n], n)}
  <1>3. ASSUME Wrong # {} PROVE FALSE
    <2>1. PICK n \in Wrong : \A k \in Wrong : n <= k
      <3>1. Wrong \in SUBSET Nat
        BY <1>0
      <3> HIDE DEF Wrong
      <3> QED
        BY <1>3, <3>1, LeastNatural
    <2>2. best[n] = IF n = 0 THEN 0
                    ELSE IF Leads(list, severity, n, best[n-1]) THEN n ELSE best[n-1]
      BY <1>2 DEF IsScan
    <2>3. CASE n = 0
      BY <2>1, <2>2, <2>3 DEF IsBest
    <2>4. CASE n # 0
      <3> DEFINE m == n - 1
      <3>1. m \in Nat /\ m \in 0 .. len /\ n = m + 1 /\ ~(n <= m)
            /\ 1 .. m + 1 \subseteq 1 .. len
        BY <1>0, <2>4
      <3>2. IsBest(list, severity, best[m], m)
        BY <2>1, <3>1
      <3>3. best[n] = IF Leads(list, severity, m + 1, best[m]) THEN m + 1 ELSE best[m]
        BY <2>2, <2>4, <3>1
      <3> HIDE DEF m
      <3>4. IsBest(list, severity, best[n], m + 1)
        BY <1>0, <3>1, <3>2, <3>3, ScanStep
      <3> QED
        BY <2>1, <3>1, <3>4
    <2> QED
      BY <2>3, <2>4
  <1> QED
    BY <1>0, <1>1, <1>3 DEF len, list

\* A call keeps the preferences it has seen, and the channel it has chosen by them.
Chose(k) ==
    k.at \notin {"new", "thrown"} =>
        /\ k.minute \in Minutes
        /\ Valid(k.seen)
        /\ k.channel = Chosen(k.job, k.minute, k.seen)
        /\ k.at = "dropped" <=> k.channel = None

ChoiceInv ==
    /\ preferences = None \/ Valid(preferences)
    /\ \A c \in Calls : Chose(call[c])

LEMMA StartChooses ==
    ASSUME NEW job, NEW minute \in Minutes, NEW prefs, Valid(prefs), NEW throws
    PROVE  Chose(Started(job, minute, prefs, Chosen(job, minute, prefs), throws))
  <1> DEFINE chosen == Chosen(job, minute, prefs)
             k == Started(job, minute, prefs, chosen, throws)
  <1>1. chosen = Chosen(job, minute, prefs)
    OBVIOUS
  <1> HIDE DEF chosen
  <1>2. /\ k.job = job /\ k.minute = minute /\ k.seen = prefs
        /\ k.at \notin {"new", "thrown"} => k.channel = chosen
        /\ k.at \notin {"new", "thrown"} => (k.at = "dropped" <=> chosen = None)
    BY DEF Started
  <1> HIDE DEF k
  <1>3. Chose(k)
    BY <1>1, <1>2 DEF Chose
  <1> QED
    BY <1>3, Zenon DEF k, chosen

\* A call that stands by its choice after one step.
LEMMA LaterCallChose ==
    ASSUME NEW k, Chose(k), k.at = "posting", NEW n,
           n.at # "dropped", n.job = k.job, n.minute = k.minute, n.seen = k.seen, n.channel = k.channel
    PROVE  Chose(n)
  BY DEF Chose

LEMMA ChoiceInit == Init => ChoiceInv
  <1> SUFFICES ASSUME Init PROVE ChoiceInv
    OBVIOUS
  <1>1. preferences = None \/ Valid(preferences)
    BY DocumentsAssumption DEF Init
  <1>2. NewCall.at = "new"
    BY DEF NewCall
  <1>3. ASSUME NEW c \in Calls PROVE Chose(call[c])
    BY <1>2, Zenon DEF Init, Chose
  <1> QED
    BY <1>1, <1>3 DEF ChoiceInv

LEMMA ChoiceNext == BoxesInv /\ ChoiceInv /\ [Next]_vars => ChoiceInv'
  <1> SUFFICES ASSUME BoxesInv, ChoiceInv, [Next]_vars
               PROVE  ChoiceInv'
    OBVIOUS
  <1>1. ASSUME NEW c \in Calls, NEW k, call' = [call EXCEPT ![c] = k], Chose(k),
               UNCHANGED preferences
        PROVE  ChoiceInv'
    <2>1. \A d \in Calls : call'[d] = IF d = c THEN k ELSE call[d]
      BY <1>1, Zenon DEF BoxesInv
    <2> QED
      BY <1>1, <2>1, Zenon DEF ChoiceInv, Chose
  <1>2. ASSUME NEW c \in Calls, NEW job \in FinishedJobs, NEW minute \in Minutes,
               Notify(c, job, minute)
        PROVE  ChoiceInv'
    <2>1. Valid(GetPreferences)
      BY DEF ChoiceInv, GetPreferences, Valid, Empty
    <2>2. \A throws : Chose(Started(job, minute, GetPreferences,
                                    Chosen(job, minute, GetPreferences), throws))
      BY <2>1, StartChooses, Zenon
    <2> QED
      BY <1>1, <1>2, <2>2, Zenon DEF Notify
  <1>3. ASSUME NEW c \in Calls, NEW k, call[c].at = "posting",
               call' = [call EXCEPT ![c] = k], UNCHANGED preferences,
               k.at # "dropped", k.job = call[c].job, k.minute = call[c].minute,
               k.seen = call[c].seen, k.channel = call[c].channel
        PROVE  ChoiceInv'
    <2>1. Chose(k)
      BY <1>3, LaterCallChose, Zenon DEF ChoiceInv
    <2> QED
      BY <1>1, <1>3, <2>1, Zenon
  <1>4. ASSUME NEW c \in Calls, Post(c)
        PROVE  ChoiceInv'
    <2>1. PICK answer \in Answers : call' = [call EXCEPT ![c] = Answered(call[c], answer)]
      BY <1>4, Zenon DEF Post, BoxesInv
    <2>2. Shaped(call[c]) /\ call[c].at = "posting" /\ UNCHANGED preferences
      BY <1>4, Zenon DEF Post, BoxesInv, Sound
    <2> DEFINE k == Answered(call[c], answer)
    <2>3. k.at # "dropped" /\ k.job = call[c].job /\ k.minute = call[c].minute
          /\ k.seen = call[c].seen /\ k.channel = call[c].channel
      BY <2>2, Zenon DEF Answered, Shaped
    <2> HIDE DEF k
    <2>4. call' = [call EXCEPT ![c] = k]
      BY <2>1 DEF k
    <2> QED
      BY <1>3, <2>2, <2>3, <2>4, Zenon
  <1>5. ASSUME NEW c \in Calls, Die(c)
        PROVE  ChoiceInv'
    <2> DEFINE k == [call[c] EXCEPT !.at = "dead"]
    <2>1. Shaped(call[c]) /\ call[c].at = "posting" /\ UNCHANGED preferences
      BY <1>5, Zenon DEF Die, BoxesInv, Sound
    <2>2. k.at # "dropped" /\ k.job = call[c].job /\ k.minute = call[c].minute
          /\ k.seen = call[c].seen /\ k.channel = call[c].channel
      BY <2>1, Zenon DEF Shaped
    <2>3. call' = [call EXCEPT ![c] = k]
      BY <1>5, Zenon DEF Die, BoxesInv
    <2> HIDE DEF k
    <2> QED
      BY <1>3, <2>1, <2>2, <2>3, Zenon
  <1>6. ASSUME NEW prefs \in NewDocuments, SetPreferences(prefs)
        PROVE  ChoiceInv'
    <2>1. preferences' = prefs /\ UNCHANGED call
      BY <1>6 DEF SetPreferences
    <2>2. prefs = None \/ Valid(prefs)
      BY DocumentsAssumption
    <2> QED
      BY <2>1, <2>2, Zenon DEF ChoiceInv, Chose, Valid
  <1>7. CASE UNCHANGED vars
    BY <1>7, Zenon DEF vars, ChoiceInv, Chose, Valid
  <1> QED
    BY <1>2, <1>4, <1>5, <1>6, <1>7, Zenon DEF Next

\* pickChannel(), insideWindow(), dispatchOutbound(): the success of a job that names no
\* channel never reaches the gateway when notify() is called in the user's quiet hours.
THEOREM NightsAreQuiet == Spec => []QuietHoursKept
  <1>1. Spec => []ChoiceInv
    BY ChoiceInit, ChoiceNext, BoxesAgree, PTL DEF Spec
  <1>2. ASSUME BoxesInv, ChoiceInv, NEW c \in Calls, Asked(c), call[c].seen.quiet # None,
               inbox[c] # <<>>,
               call[c].minute \in From(call[c].seen.quiet.from, call[c].seen.quiet.to)
        PROVE  ~call[c].job.done
    <2> DEFINE k == call[c]
               quiet == k.seen.quiet
    <2>1. k.at \notin {"new", "thrown", "dropped"} /\ k.job.deliver = None
      BY <1>2 DEF BoxesInv, Sound, Agreed, Asked
    <2>2. /\ k.minute \in Minutes /\ quiet.from \in Minutes /\ quiet.to \in Minutes
          /\ k.channel = Chosen(k.job, k.minute, k.seen) /\ k.channel # None
      BY <1>2, <2>1 DEF ChoiceInv, Chose, Valid, Timed
    <2>3. InsideWindow(k.minute, quiet.from, quiet.to)
      BY <1>2, <2>2, WindowIsInterval
    <2>4. PickChannel(k.seen, Severity(k.job), k.minute) # None
      BY <2>1, <2>2, Zenon DEF Chosen
    <2>5. ~Quiet(k.seen, Severity(k.job), k.minute)
      BY <2>4, Zenon DEF PickChannel
    <2>6. ~(Severity(k.job) < Warning)
      BY <1>2, <2>3, <2>5, Zenon DEF Quiet
    <2> QED
      BY <2>6 DEF Severity, Success, Warning
  <1>3. BoxesInv /\ ChoiceInv => QuietHoursKept
    BY <1>2, Zenon DEF QuietHoursKept
  <1> QED
    BY <1>1, <1>3, BoxesAgree, PTL

\* What a call of a job without a channel has chosen, in terms of the user's list.
LEMMA AskedChoice ==
    ASSUME BoxesInv, ChoiceInv, NEW c \in Calls, Asked(c)
    PROVE  LET k    == call[c]
               list == k.seen.channels
               sev  == Severity(k.job)
               top  == Foremost(k.seen, sev)
           IN  /\ k.minute \in Minutes /\ Valid(k.seen) /\ sev \in Int
               /\ list \in Seq(ChannelPreference)
               /\ IsBest(list, sev, top, Len(list))
               /\ k.channel = IF top = 0 \/ Quiet(k.seen, sev, k.minute) THEN None
                              ELSE list[top].channel
               /\ k.at = "dropped" <=> k.channel = None
  <1> DEFINE k    == call[c]
             list == k.seen.channels
             sev  == Severity(k.job)
             top  == Foremost(k.seen, sev)
  <1>1. /\ k.minute \in Minutes /\ Valid(k.seen)
        /\ k.channel = PickChannel(k.seen, sev, k.minute)
        /\ k.at = "dropped" <=> k.channel = None
    BY Zenon DEF ChoiceInv, Chose, Asked, Chosen
  <1>2. list \in Seq(ChannelPreference)
    BY <1>1, Zenon DEF Valid
  <1>3. IsBest(list, sev, top, Len(list))
    BY <1>2, ForemostIsBest, Zenon
  <1>4. sev \in Int
    BY DEF Severity, Success, Error
  <1> QED
    BY <1>1, <1>2, <1>3, <1>4, Zenon DEF PickChannel

\* pickChannel(): a notification that is not silenced goes to the first of the user's
\* channels with the least priority number among those that take its severity, and is
\* dropped only when there is none.
THEOREM BestChannelWins == Spec => []RightChannel
  <1>1. Spec => []ChoiceInv
    BY ChoiceInit, ChoiceNext, BoxesAgree, PTL DEF Spec
  <1>2. ASSUME BoxesInv, ChoiceInv, NEW c \in Calls, Asked(c), call[c].channel # None
        PROVE  LET list == call[c].seen.channels
                   sev  == Severity(call[c].job)
                   open == {i \in DOMAIN list : sev >= list[i].minSeverity}
               IN  \E i \in open :
                     /\ list[i].channel = call[c].channel
                     /\ \A k \in open : /\ list[k].priority >= list[i].priority
                                        /\ k < i => list[k].priority > list[i].priority
    <2> DEFINE list == call[c].seen.channels
               sev  == Severity(call[c].job)
               top  == Foremost(call[c].seen, sev)
    <2>1. /\ list \in Seq(ChannelPreference)
          /\ IsBest(list, sev, top, Len(list))
          /\ top # 0 /\ call[c].channel = list[top].channel
      BY <1>2, AskedChoice, Zenon
    <2>2. Len(list) \in Nat /\ DOMAIN list = 1 .. Len(list)
      BY <2>1, PreferenceFields
    <2> HIDE DEF list, sev, top
    <2>3. /\ top \in DOMAIN list /\ sev >= list[top].minSeverity
          /\ \A k \in DOMAIN list : sev >= list[k].minSeverity =>
                /\ list[k].priority >= list[top].priority
                /\ k < top => list[k].priority > list[top].priority
      BY <2>1, <2>2 DEF IsBest, Eligible
    <2> QED
      BY <2>1, <2>3 DEF list, sev
  <1>3. ASSUME BoxesInv, ChoiceInv, NEW c \in Calls, Asked(c),
               \/ call[c].seen.quiet = None
               \/ call[c].minute \notin From(call[c].seen.quiet.from, call[c].seen.quiet.to)
               \/ ~call[c].job.done
        PROVE  call[c].at = "dropped" <=>
                 \A i \in DOMAIN call[c].seen.channels :
                    Severity(call[c].job) < call[c].seen.channels[i].minSeverity
    <2> DEFINE list == call[c].seen.channels
               sev  == Severity(call[c].job)
               top  == Foremost(call[c].seen, sev)
               quiet == call[c].seen.quiet
    <2>1. /\ list \in Seq(ChannelPreference) /\ sev \in Int
          /\ IsBest(list, sev, top, Len(list))
          /\ call[c].minute \in Minutes /\ Valid(call[c].seen)
          /\ call[c].channel = IF top = 0 \/ Quiet(call[c].seen, sev, call[c].minute) THEN None
                               ELSE list[top].channel
          /\ call[c].at = "dropped" <=> call[c].channel = None
      BY <1>3, AskedChoice, Zenon
    <2>2. ~Quiet(call[c].seen, sev, call[c].minute)
      <3>1. CASE quiet = None
        BY <3>1, Zenon DEF Quiet
      <3>2. CASE quiet # None /\ call[c].minute \notin From(quiet.from, quiet.to)
        <4>1. quiet.from \in Minutes /\ quiet.to \in Minutes
          BY <2>1, <3>2, Zenon DEF Valid, Timed
        <4>2. ~InsideWindow(call[c].minute, quiet.from, quiet.to)
          BY <2>1, <3>2, <4>1, WindowIsInterval, Zenon
        <4> QED
          BY <4>2, Zenon DEF Quiet
      <3>3. CASE ~call[c].job.done
        <4>1. ~(sev < Warning)
          BY <3>3 DEF Severity, Error, Warning
        <4> QED
          BY <4>1, Zenon DEF Quiet
      <3> QED
        BY <1>3, <3>1, <3>2, <3>3, Zenon
    <2>3. /\ Len(list) \in Nat /\ DOMAIN list = 1 .. Len(list)
          /\ \A k \in 1 .. Len(list) : list[k].channel # None /\ list[k].minSeverity \in 0 .. 3
      BY <2>1, PreferenceFields
    <2> HIDE DEF list, sev, top
    <2>4. call[c].at = "dropped" <=> top = 0
      BY <2>1, <2>2, <2>3 DEF IsBest
    <2>5. top = 0 <=> \A i \in DOMAIN list : sev < list[i].minSeverity
      BY <2>1, <2>3 DEF IsBest, Eligible
    <2> QED
      BY <2>4, <2>5 DEF list, sev
  <1>4. BoxesInv /\ ChoiceInv => BestChannelChosen
    BY <1>2, Zenon DEF BestChannelChosen
  <1>5. BoxesInv /\ ChoiceInv => OthersComeThrough
    BY <1>3, Zenon DEF OthersComeThrough
  <1>6. BoxesInv /\ ChoiceInv => RightChannel
    BY <1>4, <1>5 DEF RightChannel
  <1> QED
    BY <1>1, <1>6, BoxesAgree, PTL
=============================================================================
