-------------------------- MODULE RateLimiter_proofs --------------------------
(***************************************************************************)
(* The rate limiter, for any limit, window, delay, number of threads and   *)
(* any set of requests, faulty or not.                                     *)
(***************************************************************************)
EXTENDS RateLimiter, FiniteSetTheorems, SequenceTheorems, WellFoundedInduction, TLAPS

-------------------------------------------------------------------------------
(***************************************************************************)
(* The operators.                                                          *)
(***************************************************************************)
\* A set of naturals has a least element, and Min names it.
LEMMA MinOfNaturals ==
  ASSUME NEW T, T \subseteq Nat, T # {}
  PROVE  Min(T) \in T /\ \A y \in T : Min(T) <= y
<1> DEFINE U == {0 .. x : x \in T}
<1>1. U \subseteq FiniteSubsetsOf(Nat) /\ U # {}
  <2>1. \A x \in T : IsFiniteSet(0 .. x) /\ 0 .. x \subseteq Nat BY FS_Interval
  <2> QED BY <2>1 DEF FiniteSubsetsOf
<1>2. PICK X \in U : \A Y \in U : ~(<<Y, X>> \in StrictSubsetOrdering(Nat))
  <2> HIDE DEF U
  <2> QED BY <1>1, FS_StrictSubsetOrderingWellFounded, WFMin
<1>3. PICK x \in T : X = 0 .. x
  OBVIOUS
<1>4. ASSUME NEW y \in T, y < x PROVE FALSE
  <2>1. 0 .. y \in U
    OBVIOUS
  <2>2. <<0 .. y, 0 .. x>> \in StrictSubsetOrdering(Nat)
    BY <1>4 DEF StrictSubsetOrdering
  <2> QED BY <1>2, <1>3, <2>1, <2>2
<1>5. \A y \in T : x <= y
  BY <1>4
<1> QED BY <1>5 DEF Min

\* The purge drops a prefix, all of it outside the window, and keeps the rest; what
\* it keeps starts inside the window.
LEMMA PurgedDropsPrefix ==
  ASSUME NEW queue \in Seq(0 .. MaxClock), NEW start \in Int
  PROVE  \E m \in 1 .. Len(queue) + 1 :
           /\ Purged(queue, start) \in Seq(0 .. MaxClock)
           /\ Len(Purged(queue, start)) = Len(queue) + 1 - m
           /\ \A i \in 1 .. m - 1 : queue[i] <= start
           /\ \A i \in 1 .. Len(queue) + 1 - m : Purged(queue, start)[i] = queue[m + i - 1]
<1> DEFINE n == Len(queue)
<1> DEFINE kept == {i \in 1 .. n : queue[i] > start}
<1> DEFINE m == Min(kept \cup {n + 1})
<1>1. n \in Nat /\ \A i \in 1 .. n : queue[i] \in 0 .. MaxClock /\ queue[i] \in Nat
  BY LenProperties, LimiterAssumption DEF LimiterAssumption
<1>2. kept \cup {n + 1} \subseteq Nat /\ kept \cup {n + 1} # {}
  BY <1>1
<1>3. m \in kept \cup {n + 1} /\ \A y \in kept \cup {n + 1} : m <= y
  BY <1>2, MinOfNaturals
<1>4. m \in 1 .. n + 1
  BY <1>1, <1>3
<1>5. \A i \in 1 .. m - 1 : queue[i] <= start
  <2> SUFFICES ASSUME NEW i \in 1 .. m - 1, queue[i] > start PROVE FALSE
    BY <1>1, <1>4
  <2>1. i \in kept BY <1>1, <1>4
  <2>2. m <= i BY <1>3, <2>1
  <2> HIDE DEF m
  <2> QED BY <1>4, <2>2
<1>6. /\ SubSeq(queue, m, n) \in Seq(0 .. MaxClock)
      /\ Len(SubSeq(queue, m, n)) = n + 1 - m
      /\ \A i \in 1 .. n + 1 - m : SubSeq(queue, m, n)[i] = queue[m + i - 1]
  <2> HIDE DEF m
  <2>1. \A i \in m .. n : queue[i] \in 0 .. MaxClock BY <1>1, <1>4
  <2> QED BY <1>1, <1>4, <2>1, SubSeqProperties
<1>7. Purged(queue, start) = SubSeq(queue, m, n)
  BY DEF Purged
<1> QED BY <1>4, <1>5, <1>6, <1>7

\* The head of a deque, and a deque that was appended to.
LEMMA DequeHead ==
  ASSUME NEW queue \in Seq(0 .. MaxClock), queue # <<>>
  PROVE  Head(queue) \in 0 .. MaxClock /\ Head(queue) = queue[1] /\ 1 \in 1 .. Len(queue)
<1>1. Len(queue) \in Nat \ {0}
  BY EmptySeq
<1>2. 1 \in 1 .. Len(queue) /\ Head(queue) = queue[1]
  BY <1>1
<1>3. queue[1] \in 0 .. MaxClock
  BY <1>2, LenProperties
<1> QED BY <1>2, <1>3

LEMMA DequeAppended ==
  ASSUME NEW queue \in Seq(0 .. MaxClock), NEW now \in 0 .. MaxClock
  PROVE  /\ Append(queue, now) \in Seq(0 .. MaxClock)
         /\ Len(Append(queue, now)) = Len(queue) + 1
         /\ \A i \in 1 .. Len(queue) : Append(queue, now)[i] = queue[i]
         /\ Append(queue, now)[Len(queue) + 1] = now
  BY AppendProperties

\* Retry-After is a number of seconds, and they fit in what is left of the window.
LEMMA RetryAfterFits ==
  ASSUME NEW oldest \in Nat, NEW now \in Nat
  PROVE  /\ RetryAfter(oldest, now) \in Nat /\ RetryAfter(oldest, now) >= 1
         /\ RetryAfter(oldest, now) > 1 =>
              RetryAfter(oldest, now) * Second <= oldest + Window - now
<1> DEFINE left == oldest + Window - now
<1>1. Second \in Nat /\ Second > 0 /\ left \in Int
  BY LimiterAssumption DEF LimiterAssumption
<1>2. left \div Second \in Int /\ (left \div Second) * Second <= left
  <2> HIDE DEF left
  <2> QED BY <1>1, SMT
<1>3. RetryAfter(oldest, now) = IF left \div Second > 1 THEN left \div Second ELSE 1
  BY DEF RetryAfter
<1> HIDE DEF left
<1>4. RetryAfter(oldest, now) > 1 => RetryAfter(oldest, now) = left \div Second
  BY <1>2, <1>3
<1>5. RetryAfter(oldest, now) \in Nat /\ RetryAfter(oldest, now) >= 1
  BY <1>2, <1>3
<1> QED BY <1>2, <1>4, <1>5 DEF left

-------------------------------------------------------------------------------
(***************************************************************************)
(* What the actions write of a request.                                    *)
(***************************************************************************)
Request ==
  [stage: Stages, now: 0 .. MaxClock, at: 0 .. MaxClock, via: {"none", "memory", "redis"}, retry: Nat]

\* Going on to the next statement keeps everything else.
LEMMA GotoWrites ==
  ASSUME req \in [Requests -> Request], NEW q \in Requests, NEW stage \in Stages, Goto(q, stage)
  PROVE  /\ req' \in [Requests -> Request]
         /\ req'[q].stage = stage /\ req'[q].now = req[q].now
         /\ req'[q].at = req[q].at /\ req'[q].via = req[q].via /\ req'[q].retry = req[q].retry
         /\ \A p \in Requests : p # q => req'[p] = req[p]
<1>1. req' = [req EXCEPT ![q] = [req[q] EXCEPT !.stage = stage]]
  BY DEF Goto
<1>2. req[q] \in Request
  OBVIOUS
<1>3. [req[q] EXCEPT !.stage = stage] \in Request
  BY <1>2 DEF Request
<1> QED BY <1>1, <1>2, <1>3 DEF Request

\* Reading the clock writes 'now'.
LEMMA ReadClockWrites ==
  ASSUME req \in [Requests -> Request], clock \in 0 .. MaxClock,
         NEW q \in Requests, NEW stage \in Stages, ReadClock(q, stage)
  PROVE  /\ req' \in [Requests -> Request]
         /\ req'[q].stage = stage /\ req'[q].now = clock
         /\ req'[q].at = req[q].at /\ req'[q].via = req[q].via /\ req'[q].retry = req[q].retry
         /\ \A p \in Requests : p # q => req'[p] = req[p]
<1>1. req' = [req EXCEPT ![q] = [req[q] EXCEPT !.stage = stage, !.now = clock]]
  BY DEF ReadClock
<1>2. req[q] \in Request
  OBVIOUS
<1>3. [req[q] EXCEPT !.stage = stage, !.now = clock] \in Request
  BY <1>2 DEF Request
<1> QED BY <1>1, <1>2, <1>3 DEF Request

\* An answer is dated, and names the limiter that gave it.
LEMMA AnswerWrites ==
  ASSUME req \in [Requests -> Request], clock \in 0 .. MaxClock, NEW q \in Requests,
         NEW verdict \in Stages, NEW via \in {"none", "memory", "redis"}, NEW retry \in Nat,
         Answer(q, verdict, via, retry)
  PROVE  /\ req' \in [Requests -> Request]
         /\ req'[q].stage = verdict /\ req'[q].now = req[q].now
         /\ req'[q].at = clock /\ req'[q].via = via /\ req'[q].retry = retry
         /\ \A p \in Requests : p # q => req'[p] = req[p]
<1>1. req' = [req EXCEPT ![q] = [req[q] EXCEPT !.stage = verdict, !.at = clock,
                                               !.via = via, !.retry = retry]]
  BY DEF Answer
<1>2. req[q] \in Request
  OBVIOUS
<1>3. [req[q] EXCEPT !.stage = verdict, !.at = clock, !.via = via, !.retry = retry] \in Request
  BY <1>2 DEF Request
<1> QED BY <1>1, <1>2, <1>3 DEF Request

-------------------------------------------------------------------------------
(***************************************************************************)
(* Types and times.                                                        *)
(***************************************************************************)
\* A request in a limiter has read the clock MaxDelay ago at most, and was let
\* through at most that long after; the answers are as the properties say.
RequestOK(q) ==
  LET x == req[q] IN
  /\ x.now <= clock /\ x.at <= clock
  /\ x.stage \in {"check", "oldest", "add", "memory"} => clock <= x.now + MaxDelay
  /\ x.stage = "allowed" => x.at <= x.now + MaxDelay
  /\ x.stage = "refused" =>
       x.retry >= 1 /\ (x.retry > 1 => x.retry * Second <= Window + MaxDelay)
  /\ x.stage = "error" => Limit = 0

\* What the limiters have recorded is of the past, and the Redis key outlives it.
RecordsOK ==
  /\ \A i \in 1 .. Len(events) : events[i] <= clock
  /\ \A e \in zset : e[1] <= clock /\ e[1] + Window <= expiry

TimesOK == RecordsOK /\ \A q \in Requests : RequestOK(q)

LEMMA ConstantTypes ==
  /\ Threads \in Nat /\ Threads > 0 /\ Second \in Nat /\ Second > 0 /\ Limit \in Nat
  /\ Window \in Nat /\ Grace \in Nat /\ MaxDelay \in Nat /\ MaxClock \in Nat
  BY LimiterAssumption DEF LimiterAssumption

LEMMA TypeParts ==
  TypeOK <=>
    /\ clock \in 0 .. MaxClock
    /\ events \in Seq(0 .. MaxClock) /\ Len(events) <= Limit
    /\ zset \in SUBSET ((0 .. MaxClock) \X Requests)
    /\ expiry \in Nat
    /\ req \in [Requests -> Request]
  BY DEF TypeOK, Request

\* The step of a request that leaves the clock and the records alone.
LEMMA RequestStep ==
  ASSUME TypeOK, TimesOK, NEW q \in Requests, req' \in [Requests -> Request],
         \A p \in Requests : p # q => req'[p] = req[p], RequestOK(q)',
         UNCHANGED <<clock, events, zset, expiry>>
  PROVE  TypeOK' /\ TimesOK'
<1>1. TypeOK'
  BY TypeParts DEF TypeOK, Request
<1>2. RecordsOK' BY DEF TimesOK, RecordsOK
<1>3. ASSUME NEW p \in Requests, p # q PROVE RequestOK(p)'
  BY <1>3 DEF TimesOK, RequestOK
<1> QED BY <1>1, <1>2, <1>3 DEF TimesOK

\* The in-memory limiter's decision.
LEMMA MemoryStep ==
  ASSUME TypeOK, TimesOK, NEW q \in Requests, MemoryDecide(q)
  PROVE  TypeOK' /\ TimesOK'
<1>a. /\ clock \in 0 .. MaxClock /\ events \in Seq(0 .. MaxClock) /\ Len(events) <= Limit
      /\ Len(events) \in Nat /\ req \in [Requests -> Request] /\ clock \in Nat
  BY TypeParts, ConstantTypes, LenProperties
<1>b. PICK now \in 0 .. MaxClock :
        /\ now = req[q].now /\ now \in Nat /\ now - Window \in Int
        /\ now <= clock /\ clock <= now + MaxDelay
  BY <1>a, ConstantTypes DEF Request, TimesOK, RequestOK, MemoryDecide
<1> DEFINE queue == Purged(events, now - Window)
<1>1. PICK m \in 1 .. Len(events) + 1 :
        /\ queue \in Seq(0 .. MaxClock)
        /\ Len(queue) = Len(events) + 1 - m
        /\ \A i \in 1 .. Len(events) + 1 - m : queue[i] = events[m + i - 1]
  BY <1>a, <1>b, PurgedDropsPrefix
<1> HIDE DEF queue
<1>2. Len(queue) \in Nat /\ Len(queue) <= Len(events) /\ \A i \in 1 .. Len(queue) : queue[i] <= clock
  <2>1. Len(queue) \in Nat /\ Len(queue) <= Len(events) BY <1>a, <1>1
  <2>2. ASSUME NEW i \in 1 .. Len(queue) PROVE queue[i] <= clock
    <3>1. queue[i] = events[m + i - 1] /\ m + i - 1 \in 1 .. Len(events) BY <1>a, <1>1
    <3> QED BY <3>1 DEF TimesOK, RecordsOK
  <2> QED BY <2>1, <2>2
<1>3. /\ UNCHANGED <<clock, zset, expiry>>
      /\ \/ /\ Full(queue) /\ events' = queue
            /\ IF queue = <<>> THEN Answer(q, "error", "memory", 0)
                               ELSE Answer(q, "refused", "memory", RetryAfter(Head(queue), now))
         \/ ~Full(queue) /\ events' = Append(queue, now) /\ Answer(q, "allowed", "memory", 0)
  BY <1>b DEF MemoryDecide, queue
<1>4. /\ events' \in Seq(0 .. MaxClock) /\ Len(events') <= Limit
      /\ \A i \in 1 .. Len(events') : events'[i] <= clock
  <2>1. CASE events' = queue BY <1>a, <1>1, <1>2, <2>1, ConstantTypes
  <2>2. CASE ~Full(queue) /\ events' = Append(queue, now)
    <3>1. /\ events' \in Seq(0 .. MaxClock) /\ Len(events') = Len(queue) + 1
          /\ \A i \in 1 .. Len(queue) : events'[i] = queue[i]
          /\ events'[Len(queue) + 1] = now
      BY <1>b, <1>1, <2>2, DequeAppended
    <3>2. Len(queue) < Limit BY <1>2, <2>2, ConstantTypes DEF Full
    <3>3. ASSUME NEW i \in 1 .. Len(events') PROVE events'[i] <= clock
      <4>1. i \in 1 .. Len(queue) \/ i = Len(queue) + 1 BY <1>2, <3>1
      <4> QED BY <1>b, <1>2, <3>1, <4>1
    <3>4. Len(events') <= Limit BY <1>2, <3>1, <3>2, ConstantTypes
    <3> QED BY <3>1, <3>3, <3>4
  <2> QED BY <1>3, <2>1, <2>2
<1>5. req' \in [Requests -> Request] /\ RequestOK(q)' /\ \A p \in Requests : p # q => req'[p] = req[p]
  <2> USE DEF RequestOK, Stages
  <2>1. CASE Answer(q, "error", "memory", 0) /\ Full(queue) /\ queue = <<>>
    <3>1. Limit = 0 BY <2>1, ConstantTypes DEF Full
    <3> QED BY <1>a, <1>b, <1>3, <2>1, <3>1, AnswerWrites
  <2>2. CASE Answer(q, "refused", "memory", RetryAfter(Head(queue), now)) /\ queue # <<>>
    <3>1. Head(queue) \in 0 .. MaxClock /\ Head(queue) = queue[1] /\ 1 \in 1 .. Len(queue)
      BY <1>1, <1>2, <2>2, DequeHead
    <3>2. Head(queue) \in Nat /\ now \in Nat /\ Head(queue) <= now + MaxDelay
      <4>1. queue[1] <= clock BY <1>2, <3>1
      <4>2. Head(queue) \in Nat BY <3>1, ConstantTypes
      <4>3. now \in Nat /\ clock <= now + MaxDelay BY <1>a, <1>b, ConstantTypes
      <4>4. clock \in Nat BY <1>a, ConstantTypes
      <4> QED BY <3>1, <4>1, <4>2, <4>3, <4>4, ConstantTypes
    <3> DEFINE retry == RetryAfter(Head(queue), now)
    <3>3. /\ retry \in Nat /\ retry >= 1
          /\ retry > 1 => retry * Second <= Head(queue) + Window - now
      BY <3>2, RetryAfterFits
    <3> HIDE DEF retry
    <3>4. retry > 1 => retry * Second <= Window + MaxDelay
      <4>1. Head(queue) + Window - now <= Window + MaxDelay BY <3>2, ConstantTypes
      <4>2. retry * Second \in Int BY <3>3, ConstantTypes
      <4> QED BY <3>2, <3>3, <4>1, <4>2, ConstantTypes
    <3>5. Answer(q, "refused", "memory", retry) BY <2>2 DEF retry
    <3> QED BY <1>a, <1>b, <1>3, <3>3, <3>4, <3>5, AnswerWrites
  <2>3. CASE Answer(q, "allowed", "memory", 0)
    BY <1>a, <1>b, <1>3, <2>3, AnswerWrites
  <2> QED BY <1>3, <2>1, <2>2, <2>3
<1>6. TypeOK'
  BY <1>3, <1>4, <1>5, TypeParts DEF TypeOK, Request
<1>7. RecordsOK'
  BY <1>3, <1>4 DEF TimesOK, RecordsOK
<1>8. ASSUME NEW p \in Requests, p # q PROVE RequestOK(p)'
  BY <1>3, <1>5, <1>8 DEF TimesOK, RequestOK
<1> QED BY <1>5, <1>6, <1>7, <1>8 DEF TimesOK

\* ZADD and EXPIRE.
LEMMA RecordStep ==
  ASSUME TypeOK, TimesOK, NEW q \in Requests, Record(q)
  PROVE  /\ zset' \in SUBSET ((0 .. MaxClock) \X Requests) /\ expiry' \in Nat
         /\ \A e \in zset' : e[1] <= clock /\ e[1] + Window <= expiry'
<1>a. /\ clock \in Nat /\ req[q].now \in 0 .. MaxClock /\ req[q].now <= clock
      /\ zset \in SUBSET ((0 .. MaxClock) \X Requests)
  BY TypeParts, ConstantTypes DEF Request, TimesOK, RequestOK
<1>1. expiry' = clock + Window + Grace /\ zset' = zset \cup {<<req[q].now, q>>}
  BY DEF Record, KeyExpiry
<1>2. zset' \in SUBSET ((0 .. MaxClock) \X Requests) /\ expiry' \in Nat
  BY <1>a, <1>1, ConstantTypes
<1>3. ASSUME NEW e \in zset' PROVE e[1] <= clock /\ e[1] + Window <= expiry'
  <2>1. e[1] \in Nat BY <1>2, ConstantTypes
  <2>2. e[1] <= clock
    BY <1>a, <1>1 DEF TimesOK, RecordsOK
  <2> QED BY <1>a, <1>1, <2>1, <2>2, ConstantTypes
<1> QED BY <1>2, <1>3

\* Types and times are kept by every step.
LEMMA TimesStep == TypeOK /\ TimesOK /\ [Next]_vars => TypeOK' /\ TimesOK'
<1> SUFFICES ASSUME TypeOK, TimesOK, [Next]_vars PROVE TypeOK' /\ TimesOK' OBVIOUS
<1>a. /\ clock \in 0 .. MaxClock /\ clock \in Nat /\ req \in [Requests -> Request]
      /\ events \in Seq(0 .. MaxClock) /\ Len(events) <= Limit
      /\ zset \in SUBSET ((0 .. MaxClock) \X Requests) /\ expiry \in Nat
  BY TypeParts, ConstantTypes
<1>b. \A q \in Requests : req[q].now \in 0 .. MaxClock /\ req[q].now <= clock /\ RequestOK(q)
  BY <1>a DEF Request, TimesOK, RequestOK
<1>1. ASSUME NEW q \in Requests, Arrive(q) PROVE TypeOK' /\ TimesOK'
  <2>1. Entry \in Stages \cap {"check", "memory"} BY DEF Entry, Stages
  <2>2. UNCHANGED <<clock, events, zset, expiry>> /\ ReadClock(q, Entry) BY <1>1 DEF Arrive
  <2>3. /\ req' \in [Requests -> Request] /\ RequestOK(q)'
        /\ \A p \in Requests : p # q => req'[p] = req[p]
    BY <1>a, <1>b, <2>1, <2>2, ReadClockWrites, ConstantTypes DEF RequestOK
  <2> QED BY <2>2, <2>3, RequestStep
<1>2. ASSUME NEW q \in Requests, MemoryDecide(q) PROVE TypeOK' /\ TimesOK'
  BY <1>2, MemoryStep
<1>3. ASSUME NEW q \in Requests, RedisCheck(q) PROVE TypeOK' /\ TimesOK'
  <2>1. /\ UNCHANGED <<clock, events, expiry>> /\ zset' \subseteq zset
        /\ req[q].stage = "check" /\ \E s \in {"oldest", "add"} : Goto(q, s)
    BY <1>3 DEF RedisCheck, Remaining
  <2>2. PICK s \in {"oldest", "add"} : Goto(q, s) BY <2>1
  <2>3. /\ req' \in [Requests -> Request] /\ RequestOK(q)'
        /\ \A p \in Requests : p # q => req'[p] = req[p]
    BY <1>a, <1>b, <2>1, <2>2, GotoWrites DEF Stages, RequestOK
  <2>4. RecordsOK' BY <2>1 DEF TimesOK, RecordsOK
  <2>5. \A p \in Requests : RequestOK(p)' BY <1>b, <2>1, <2>3 DEF RequestOK
  <2> QED BY <1>a, <2>1, <2>3, <2>4, <2>5 DEF TypeOK, TimesOK, Request
<1>4. ASSUME NEW q \in Requests, RedisOldest(q) PROVE TypeOK' /\ TimesOK'
  <2>1. UNCHANGED <<clock, events, zset, expiry>> /\ req[q].stage = "oldest"
    BY <1>4 DEF RedisOldest
  <2>2. clock <= req[q].now + MaxDelay BY <1>b, <2>1 DEF RequestOK
  <2>3. PICK oldest \in Nat :
          oldest <= clock /\ Answer(q, "refused", "redis", RetryAfter(oldest, req[q].now))
    <3>1. CASE Answer(q, "refused", "redis", RetryAfter(req[q].now, req[q].now))
      BY <1>b, <3>1, ConstantTypes
    <3>2. CASE \E e \in zset : Answer(q, "refused", "redis", RetryAfter(e[1], req[q].now))
      <4>1. PICK e \in zset : Answer(q, "refused", "redis", RetryAfter(e[1], req[q].now)) BY <3>2
      <4>2. e[1] \in Nat /\ e[1] <= clock BY <1>a, ConstantTypes DEF TimesOK, RecordsOK
      <4> QED BY <4>1, <4>2
    <3> QED BY <1>4, <3>1, <3>2 DEF RedisOldest
  <2> DEFINE retry == RetryAfter(oldest, req[q].now)
  <2>4. /\ retry \in Nat /\ retry >= 1
        /\ retry > 1 => retry * Second <= oldest + Window - req[q].now
    <3>1. PICK now \in Nat : now = req[q].now BY <1>b, ConstantTypes
    <3>2. /\ RetryAfter(oldest, now) \in Nat /\ RetryAfter(oldest, now) >= 1
          /\ RetryAfter(oldest, now) > 1 =>
               RetryAfter(oldest, now) * Second <= oldest + Window - now
      BY RetryAfterFits
    <3> QED BY <3>1, <3>2
  <2> HIDE DEF retry
  <2>5. retry > 1 => retry * Second <= Window + MaxDelay
    <3>1. req[q].now \in Nat /\ oldest + Window - req[q].now <= Window + MaxDelay
      BY <1>a, <1>b, <2>2, <2>3, ConstantTypes
    <3>2. retry * Second \in Int BY <2>4, ConstantTypes
    <3> QED BY <2>4, <3>1, <3>2, ConstantTypes
  <2>6. Answer(q, "refused", "redis", retry) BY <2>3 DEF retry
  <2>7. /\ req' \in [Requests -> Request] /\ RequestOK(q)'
        /\ \A p \in Requests : p # q => req'[p] = req[p]
    BY <1>a, <1>b, <2>1, <2>4, <2>5, <2>6, AnswerWrites DEF Stages, RequestOK
  <2> QED BY <2>1, <2>7, RequestStep
<1>5. ASSUME NEW q \in Requests, RedisAdd(q) PROVE TypeOK' /\ TimesOK'
  <2>1. /\ UNCHANGED <<clock, events>> /\ Record(q) /\ req[q].stage = "add"
        /\ Answer(q, "allowed", "redis", 0)
    BY <1>5 DEF RedisAdd
  <2>2. /\ req' \in [Requests -> Request] /\ RequestOK(q)'
        /\ \A p \in Requests : p # q => req'[p] = req[p]
    BY <1>a, <1>b, <2>1, AnswerWrites DEF Stages, RequestOK
  <2>3. \A p \in Requests : RequestOK(p)' BY <1>b, <2>1, <2>2 DEF RequestOK
  <2>4. RecordsOK' BY <2>1, RecordStep DEF TimesOK, RecordsOK
  <2> QED BY <1>a, <2>1, <2>2, <2>3, <2>4, RecordStep DEF TypeOK, TimesOK, Request
<1>6. ASSUME NEW q \in Requests, RedisFails(q) PROVE TypeOK' /\ TimesOK'
  <2>1. UNCHANGED <<clock, events>> /\ Goto(q, "fallback") BY <1>6 DEF RedisFails
  <2>2. /\ req' \in [Requests -> Request] /\ RequestOK(q)'
        /\ \A p \in Requests : p # q => req'[p] = req[p]
    BY <1>a, <1>b, <2>1, GotoWrites DEF Stages, RequestOK
  <2>3. \A p \in Requests : RequestOK(p)' BY <1>b, <2>1, <2>2 DEF RequestOK
  <2>4. /\ zset' \in SUBSET ((0 .. MaxClock) \X Requests) /\ expiry' \in Nat
        /\ \A e \in zset' : e[1] <= clock /\ e[1] + Window <= expiry'
    <3>1. CASE zset' \subseteq zset /\ UNCHANGED expiry
      BY <1>a, <3>1 DEF TimesOK, RecordsOK
    <3>2. CASE Record(q) BY <3>2, RecordStep
    <3> QED BY <1>6, <3>1, <3>2 DEF RedisFails, Remaining
  <2>5. RecordsOK' BY <2>1, <2>4 DEF TimesOK, RecordsOK
  <2> QED BY <1>a, <2>1, <2>2, <2>3, <2>4, <2>5 DEF TypeOK, TimesOK, Request
<1>7. ASSUME NEW q \in Requests, FallbackRead(q) PROVE TypeOK' /\ TimesOK'
  <2>1. UNCHANGED <<clock, events, zset, expiry>> /\ ReadClock(q, "memory") BY <1>7 DEF FallbackRead
  <2>2. /\ req' \in [Requests -> Request] /\ RequestOK(q)'
        /\ \A p \in Requests : p # q => req'[p] = req[p]
    BY <1>a, <1>b, <2>1, ReadClockWrites, ConstantTypes DEF RequestOK, Stages
  <2> QED BY <2>1, <2>2, RequestStep
<1>8. CASE KeyExpires
  BY <1>8 DEF KeyExpires, TypeOK, TimesOK, RecordsOK, RequestOK
<1>9. CASE Tick
  <2>1. clock' = clock + 1 /\ clock < MaxClock /\ UNCHANGED <<events, zset, expiry, req>>
    BY <1>9 DEF Tick
  <2>2. TypeOK' BY <1>a, <2>1, ConstantTypes DEF TypeOK, Request
  <2>3. RecordsOK'
    <3>1. ASSUME NEW i \in 1 .. Len(events) PROVE events[i] <= clock + 1
      <4>1. events[i] \in Nat BY <1>a, LenProperties, ConstantTypes
      <4> QED BY <1>a, <4>1 DEF TimesOK, RecordsOK
    <3>2. ASSUME NEW e \in zset PROVE e[1] <= clock + 1 /\ e[1] + Window <= expiry
      <4>1. e[1] \in Nat BY <1>a, ConstantTypes
      <4> QED BY <1>a, <4>1 DEF TimesOK, RecordsOK
    <3> QED BY <2>1, <3>1, <3>2 DEF RecordsOK
  <2>4. ASSUME NEW q \in Requests PROVE RequestOK(q)'
    <3>1. req[q].now \in Nat /\ req[q].at \in Nat BY <1>a, ConstantTypes DEF Request
    <3>2. req[q].stage \in {"check", "oldest", "add", "memory"} => clock + 1 <= req[q].now + MaxDelay
      <4> SUFFICES ASSUME req[q].stage \in {"check", "oldest", "add", "memory"}
                   PROVE  clock < req[q].now + MaxDelay
        BY <1>a, <3>1, ConstantTypes
      <4> QED BY <1>9 DEF Tick, Open, Closed
    <3> QED BY <1>a, <1>b, <2>1, <3>1, <3>2 DEF RequestOK
  <2> QED BY <2>2, <2>3, <2>4 DEF TimesOK
<1>10. CASE UNCHANGED vars
  BY <1>10 DEF vars, TypeOK, TimesOK, RecordsOK, RequestOK
<1> QED BY <1>1, <1>2, <1>3, <1>4, <1>5, <1>6, <1>7, <1>8, <1>9, <1>10 DEF Next

LEMMA TimesInit == Init => TypeOK /\ TimesOK
<1> SUFFICES ASSUME Init PROVE TypeOK /\ TimesOK OBVIOUS
<1>1. New \in Request BY ConstantTypes DEF New, Request, Stages
<1>2. TypeOK BY <1>1, ConstantTypes DEF Init, TypeOK, Request
<1>3. TimesOK BY ConstantTypes DEF Init, New, TimesOK, RecordsOK, RequestOK
<1> QED BY <1>2, <1>3

LEMMA TimesInvariant == Spec => [](TypeOK /\ TimesOK)
  BY TimesInit, TimesStep, PTL DEF Spec

\* The variables of the limiter keep their types, and its deque never outgrows the
\* limit, for any limit and any interleaving of requests.
THEOREM TypeCorrect == Spec => []TypeOK
  BY TimesInvariant, PTL

\* Retry-After is between a second and the window, up to the delay between a
\* request's clock and the records it meets.
THEOREM RetryAfterHolds == Spec => []RetryAfterBounded
<1>1. TimesOK => RetryAfterBounded BY DEF TimesOK, RequestOK, RetryAfterBounded
<1> QED BY <1>1, TimesInvariant, PTL

\* The head of an empty deque is only asked for with a limit of 0.
THEOREM IndexErrorHolds == Spec => []IndexErrorOnlyAtZero
<1>1. TimesOK => IndexErrorOnlyAtZero BY DEF TimesOK, RequestOK, IndexErrorOnlyAtZero
<1> QED BY <1>1, TimesInvariant, PTL

\* What Redis drops in a step is outside the window.
LEMMA DroppedIsOld ==
  ASSUME TypeOK, TimesOK, Next, NEW e \in zset, e \notin zset'
  PROVE  e[1] + Window <= clock
<1>a. e[1] \in Nat /\ clock \in Nat /\ expiry \in Nat /\ e[1] + Window <= expiry
  BY TypeParts, ConstantTypes DEF TimesOK, RecordsOK
<1>1. ASSUME NEW q \in Requests, zset' = Remaining(req[q].now) PROVE e[1] + Window <= clock
  <2>1. req[q].now \in Nat /\ req[q].now <= clock
    BY TypeParts, ConstantTypes DEF Request, TimesOK, RequestOK
  <2>2. ~(e[1] > req[q].now - Window) BY <1>1 DEF Remaining
  <2> QED BY <1>a, <2>1, <2>2, ConstantTypes
<1>2. CASE KeyExpires BY <1>a, <1>2, ConstantTypes DEF KeyExpires
<1>3. CASE zset \subseteq zset' BY <1>3
<1>4. \/ \E q \in Requests : zset' = Remaining(req[q].now)
      \/ KeyExpires \/ zset \subseteq zset'
  BY DEF Next, Arrive, MemoryDecide, RedisCheck, RedisOldest, RedisAdd, RedisFails, Record,
         FallbackRead, Tick
<1> QED BY <1>1, <1>2, <1>3, <1>4

\* Neither a purge, be it by a request with an older clock, nor the expiry of the
\* key drops from Redis what is not outside the window.
THEOREM EventsCountHolds == Spec => EventsCountInFull
<1> DEFINE Counts == \A e \in zset \ zset' : e[1] + Window <= clock
<1>1. TypeOK /\ TimesOK /\ [Next]_vars => [Counts]_vars
  BY DroppedIsOld
<1> QED BY <1>1, TimesInvariant, PTL DEF Spec, EventsCountInFull

-------------------------------------------------------------------------------
(***************************************************************************)
(* How many requests are let through in a window.                          *)
(***************************************************************************)
\* What a step makes of request p.
LEMMA Moves ==
  ASSUME TypeOK, Next, NEW p \in Requests
  PROVE  /\ clock' \in {clock, clock + 1}
         /\ req'[p].stage = "allowed" =>
              \/ req'[p] = req[p]
              \/ /\ req'[p].at = clock /\ req'[p].now = req[p].now /\ UNCHANGED clock
                 /\ \/ MemoryDecide(p) /\ req'[p].via = "memory"
                    \/ RedisAdd(p) /\ req'[p].via = "redis"
         /\ req'[p].stage = "add" => req'[p] = req[p] \/ RedisCheck(p)
         /\ p \in Open' => p \in Open \/ Arrive(p)
<1>a. req \in [Requests -> Request] /\ req[p] \in Request
  BY TypeParts
<1>b. p \in Open <=> req[p].stage \notin Closed
  BY DEF Open
<1>c. p \in Open' <=> req'[p].stage \notin Closed
  BY DEF Open
<1>1. ASSUME NEW q \in Requests, q # p,
             \/ Arrive(q) \/ MemoryDecide(q) \/ RedisCheck(q) \/ RedisOldest(q) \/ RedisAdd(q)
             \/ RedisFails(q) \/ FallbackRead(q)
      PROVE  req'[p] = req[p] /\ clock' = clock
  BY <1>a, <1>1
     DEF Arrive, MemoryDecide, RedisCheck, RedisOldest, RedisAdd, RedisFails, FallbackRead, Goto,
         ReadClock, Answer
<1>2. CASE req'[p] = req[p] /\ clock' \in {clock, clock + 1}
  BY <1>2, <1>b, <1>c
<1>3. CASE Arrive(p)
  BY <1>a, <1>3 DEF Arrive, Entry, ReadClock, Request
<1>4. CASE MemoryDecide(p)
  <2>1. \E r : \E s \in {"error", "refused", "allowed"} : Answer(p, s, "memory", r)
    BY <1>4 DEF MemoryDecide
  <2>2. clock' = clock /\ req[p].stage = "memory"
    BY <1>4 DEF MemoryDecide
  <2>3. /\ req'[p].stage \in {"error", "refused", "allowed"} /\ req'[p].at = clock
        /\ req'[p].now = req[p].now /\ req'[p].via = "memory"
    BY <1>a, <2>1 DEF Answer, Request
  <2> QED BY <1>4, <1>c, <2>2, <2>3 DEF Closed
<1>5. CASE RedisCheck(p)
  BY <1>a, <1>b, <1>5 DEF RedisCheck, Goto, Request, Closed
<1>6. CASE RedisOldest(p)
  <2>1. \E r : Answer(p, "refused", "redis", r)
    BY <1>6 DEF RedisOldest
  <2>2. clock' = clock BY <1>6 DEF RedisOldest
  <2>3. req'[p].stage = "refused" BY <1>a, <2>1 DEF Answer, Request
  <2> QED BY <1>c, <2>2, <2>3 DEF Closed
<1>7. CASE RedisAdd(p)
  <2>1. /\ req'[p].stage = "allowed" /\ req'[p].at = clock /\ req'[p].now = req[p].now
        /\ req'[p].via = "redis" /\ clock' = clock
    BY <1>a, <1>7 DEF RedisAdd, Answer, Request
  <2> QED BY <1>7, <1>c, <2>1 DEF Closed
<1>8. CASE RedisFails(p)
  <2>1. /\ req'[p].stage = "fallback" /\ clock' = clock
        /\ req[p].stage \in {"check", "oldest", "add"}
    BY <1>a, <1>8 DEF RedisFails, Goto, Request
  <2> QED BY <1>b, <2>1 DEF Closed
<1>9. CASE FallbackRead(p)
  <2>1. req'[p].stage = "memory" /\ clock' = clock /\ req[p].stage = "fallback"
    BY <1>a, <1>9 DEF FallbackRead, ReadClock, Request
  <2> QED BY <1>b, <2>1 DEF Closed
<1>10. CASE KeyExpires \/ Tick
  BY <1>2, <1>10 DEF KeyExpires, Tick
<1> QED BY <1>1, <1>2, <1>3, <1>4, <1>5, <1>6, <1>7, <1>8, <1>9, <1>10 DEF Next

\* The requests that a limiter let through less than a window ago.
Recent(via) == {p \in Allowed(via) : clock - req[p].at < Window - MaxDelay}

\* A request is let through at the present tick, so that only the recent ones have to
\* be counted.
LEMMA ApartStep ==
  ASSUME TypeOK, TypeOK', Next, NEW via, NEW n, Apart(Allowed(via), n),
         \A S \in SUBSET Recent(via)' : Cardinality(S) # n
  PROVE  Apart(Allowed(via), n)'
<1> SUFFICES ASSUME NEW S, S \subseteq Allowed(via)', Cardinality(S) = n
             PROVE  \E p, q \in S : req'[q].at - req'[p].at >= Window - MaxDelay
  BY DEF Apart
<1>a. /\ \A p \in S : p \in Requests /\ req'[p].stage = "allowed" /\ req'[p].via = via
      /\ \A p \in S : req'[p].at \in Int
      /\ clock' \in Int
  <2>1. \A p \in Requests : req'[p].at \in Int
    BY ConstantTypes DEF TypeOK
  <2> QED BY <2>1, ConstantTypes DEF Allowed, TypeOK
<1>1. CASE \A p \in S : req'[p] = req[p]
  <2>1. S \subseteq Allowed(via) BY <1>a, <1>1 DEF Allowed
  <2>2. \E p, q \in S : req[q].at - req[p].at >= Window - MaxDelay BY <2>1 DEF Apart
  <2> QED BY <1>1, <2>2
<1>2. ASSUME NEW q \in S, req'[q] # req[q]
      PROVE  \E p \in S : req'[q].at - req'[p].at >= Window - MaxDelay
  <2>1. req'[q].at = clock' BY <1>a, <1>2, Moves
  <2>2. PICK p \in S : p \notin Recent(via)' BY DEF Recent
  <2>3. ~(clock' - req'[p].at < Window - MaxDelay) BY <2>2 DEF Recent
  <2> QED BY <1>a, <2>1, <2>3, ConstantTypes
<1> QED BY <1>1, <1>2

\* A recent request has read a clock that is inside every window.
LEMMA RecentInWindow ==
  ASSUME TypeOK, TimesOK, NEW via, NEW p \in Recent(via)
  PROVE  /\ p \in Requests /\ req[p].stage = "allowed" /\ req[p].via = via
         /\ req[p].now \in 0 .. MaxClock /\ req[p].now + Window > clock
<1>1. p \in Requests /\ req[p].stage = "allowed" /\ req[p].via = via /\ clock - req[p].at < Window - MaxDelay
  BY DEF Recent, Allowed
<1>2. req[p].now \in 0 .. MaxClock /\ req[p].at \in 0 .. MaxClock /\ clock \in Nat
  BY <1>1, TypeParts, ConstantTypes DEF Request
<1>3. req[p].at <= req[p].now + MaxDelay
  BY <1>1 DEF TimesOK, RequestOK
<1> QED BY <1>1, <1>2, <1>3, ConstantTypes

\* The recent requests after a step are those before it, and the one just let through.
LEMMA RecentStep ==
  ASSUME TypeOK, TypeOK', Next, NEW via, NEW p \in Recent(via)'
  PROVE  /\ req'[p].now = req[p].now
         /\ \/ p \in Recent(via)
            \/ MemoryDecide(p) /\ via = "memory"
            \/ RedisAdd(p) /\ via = "redis"
<1>1. /\ p \in Requests /\ req'[p].stage = "allowed" /\ req'[p].via = via
      /\ clock' - req'[p].at < Window - MaxDelay
  BY DEF Recent, Allowed
<1>2. CASE req'[p] = req[p]
  <2>1. req[p].at \in Nat /\ clock \in Nat BY <1>1, TypeParts, ConstantTypes DEF Request
  <2>2. clock' \in {clock, clock + 1} BY <1>1, Moves
  <2>3. clock - req[p].at < Window - MaxDelay BY <1>1, <1>2, <2>1, <2>2, ConstantTypes
  <2> QED BY <1>1, <1>2, <2>3 DEF Recent, Allowed
<1>3. CASE req'[p] # req[p] BY <1>1, <1>3, Moves
<1> QED BY <1>2, <1>3

\* f gives each of the requests R an entry of its own in the deque.
Places(f, R, queue) ==
  /\ f \in [R -> 1 .. Len(queue)]
  /\ \A p, q \in R : f[p] = f[q] => p = q
  /\ \A p \in R : queue[f[p]] = req[p].now

\* The deque still has an entry for every request that memory has let through recently.
DequeHolds == \E f : Places(f, Recent("memory"), events)

\* Fewer requests hold as many places.
LEMMA FewerPlaces ==
  ASSUME NEW R, NEW Q \in SUBSET R, NEW queue, NEW f, Places(f, R, queue)
  PROVE  Places([p \in Q |-> f[p]], Q, queue)
  BY DEF Places

\* As many places as the deque is long.
LEMMA PlacesCount ==
  ASSUME NEW R, NEW queue \in Seq(0 .. MaxClock), NEW f, Places(f, R, queue)
  PROVE  IsFiniteSet(R) /\ Cardinality(R) <= Len(queue)
<1>1. Len(queue) \in Nat
  BY LenProperties
<1>2. IsFiniteSet(1 .. Len(queue)) /\ Cardinality(1 .. Len(queue)) = Len(queue)
  BY <1>1, FS_Interval
<1>3. f \in Injection(R, 1 .. Len(queue))
  BY DEF Places, Injection, IsInjective
<1> QED BY <1>2, <1>3, FS_Injection

\* The purge keeps every entry that is inside the window, and its place moves up.
LEMMA PurgeKeepsPlaces ==
  ASSUME NEW R, NEW queue \in Seq(0 .. MaxClock), NEW start \in Int, NEW f, Places(f, R, queue),
         \A p \in R : req[p].now \in Nat /\ req[p].now > start
  PROVE  \E g : Places(g, R, Purged(queue, start))
<1> DEFINE purged == Purged(queue, start)
<1>1. PICK m \in 1 .. Len(queue) + 1 :
        /\ Len(purged) = Len(queue) + 1 - m
        /\ \A i \in 1 .. m - 1 : queue[i] <= start
        /\ \A i \in 1 .. Len(queue) + 1 - m : purged[i] = queue[m + i - 1]
  BY PurgedDropsPrefix
<1> HIDE DEF purged
<1>2. Len(queue) \in Nat BY LenProperties
<1>3. ASSUME NEW p \in R
      PROVE  f[p] \in 1 .. Len(queue) /\ f[p] - (m - 1) \in 1 .. Len(purged)
             /\ purged[f[p] - (m - 1)] = req[p].now
  <2>1. f[p] \in 1 .. Len(queue) /\ queue[f[p]] = req[p].now BY DEF Places
  <2>2. f[p] \notin 1 .. m - 1 BY <1>1, <2>1
  <2>3. f[p] - (m - 1) \in 1 .. Len(queue) + 1 - m BY <1>1, <1>2, <2>1, <2>2
  <2>4. m + (f[p] - (m - 1)) - 1 = f[p] BY <1>1, <1>2, <2>1
  <2> QED BY <1>1, <2>1, <2>3, <2>4
<1> DEFINE g == [p \in R |-> f[p] - (m - 1)]
<1>4. g \in [R -> 1 .. Len(purged)] BY <1>3
<1>5. ASSUME NEW p \in R, NEW q \in R, g[p] = g[q] PROVE p = q
  <2>1. f[p] - (m - 1) = f[q] - (m - 1) BY <1>5
  <2>2. f[p] = f[q] BY <1>1, <1>2, <1>3, <2>1
  <2> QED BY <2>2 DEF Places
<1>6. \A p \in R : purged[g[p]] = req[p].now BY <1>3
<1>7. Places(g, R, purged) BY <1>4, <1>5, <1>6 DEF Places
<1> QED BY <1>7 DEF purged

\* An entry appended is a place for one request more.
LEMMA AppendGivesPlace ==
  ASSUME NEW R, NEW queue \in Seq(0 .. MaxClock), NEW f, Places(f, R, queue),
         NEW q, q \notin R, req[q].now \in 0 .. MaxClock
  PROVE  \E g : Places(g, R \cup {q}, Append(queue, req[q].now))
<1> DEFINE g == [p \in R \cup {q} |-> IF p = q THEN Len(queue) + 1 ELSE f[p]]
<1>1. PICK longer : longer = Append(queue, req[q].now) OBVIOUS
<1>2. /\ Len(longer) = Len(queue) + 1 /\ Len(queue) \in Nat
      /\ \A i \in 1 .. Len(queue) : longer[i] = queue[i]
      /\ longer[Len(queue) + 1] = req[q].now
  BY <1>1, DequeAppended, LenProperties
<1>3. \A p \in R : f[p] \in 1 .. Len(queue) /\ g[p] = f[p] /\ queue[f[p]] = req[p].now
  BY DEF Places
<1>4. g[q] = Len(queue) + 1 OBVIOUS
<1>5. g \in [R \cup {q} -> 1 .. Len(longer)]
  BY <1>2, <1>3
<1>6. ASSUME NEW p \in R \cup {q}, NEW r \in R \cup {q}, g[p] = g[r] PROVE p = r
  <2>1. CASE p \in R /\ r \in R BY <1>3, <1>6, <2>1 DEF Places
  <2>2. CASE p = q /\ r = q BY <2>2
  <2>3. ASSUME NEW x \in R PROVE g[x] # g[q] BY <1>2, <1>3, <1>4
  <2> HIDE DEF g
  <2> QED BY <1>6, <2>1, <2>2, <2>3
<1>7. ASSUME NEW p \in R \cup {q} PROVE longer[g[p]] = req[p].now
  <2>1. CASE p \in R BY <1>2, <1>3, <2>1
  <2>2. CASE p = q BY <1>2, <1>4, <2>2
  <2> QED BY <2>1, <2>2
<1> HIDE DEF g
<1>8. Places(g, R \cup {q}, longer) BY <1>5, <1>6, <1>7 DEF Places
<1> QED BY <1>1, <1>8

\* Places stay what they are while the requests keep their clocks.
LEMMA PlacesNext ==
  ASSUME NEW R, NEW queue, NEW f, Places(f, R, queue), \A p \in R : req'[p].now = req[p].now
  PROVE  Places(f, R, queue)'
  BY DEF Places

\* No step of the limiter loses the entry of a recent request.
LEMMA DequeStep ==
  ASSUME TypeOK, TimesOK, TypeOK', DequeHolds, Next
  PROVE  DequeHolds'
<1> DEFINE R == Recent("memory")
<1>a. PICK f : Places(f, R, events) BY DEF DequeHolds
<1>b. events \in Seq(0 .. MaxClock) /\ req \in [Requests -> Request] BY TypeParts
<1>c. PICK After : After = Recent("memory")' OBVIOUS
<1>d. \A p \in After : /\ req'[p].now = req[p].now
                       /\ p \in R \/ MemoryDecide(p)
  BY <1>c, RecentStep
<1>1. ASSUME NEW g, NEW queue, Places(g, After, queue), events' = queue PROVE DequeHolds'
  <2>1. After = Recent("memory")' /\ \A p \in After : req'[p].now = req[p].now BY <1>c, <1>d
  <2>2. (\E h : Places(h, Recent("memory"), events))'
    <3>1. /\ g \in [After -> 1 .. Len(events')]
          /\ \A p, q \in After : g[p] = g[q] => p = q
          /\ \A p \in After : events'[g[p]] = req'[p].now
      BY <1>1, <2>1 DEF Places
    <3> QED BY <2>1, <3>1 DEF Places
  <2> QED BY <2>2 DEF DequeHolds
<1>2. CASE UNCHANGED events /\ \A p \in Requests : ~MemoryDecide(p)
  <2>1. After \subseteq R BY <1>2, <1>c, <1>d DEF Recent, Allowed
  <2>2. Places([p \in After |-> f[p]], After, events) BY <1>a, <2>1, FewerPlaces
  <2> QED BY <1>1, <1>2, <2>2
<1>3. ASSUME NEW q \in Requests, MemoryDecide(q) PROVE DequeHolds'
  <2>a. /\ req[q].now \in 0 .. MaxClock /\ req[q].now <= clock /\ req[q].stage = "memory"
        /\ clock \in Nat /\ req[q].now - Window \in Int
    BY <1>3, <1>b, TypeParts, ConstantTypes DEF MemoryDecide, Request, TimesOK, RequestOK
  <2>b. PICK queue : queue = Purged(events, req[q].now - Window) OBVIOUS
  <2>c. queue \in Seq(0 .. MaxClock) BY <1>b, <2>a, <2>b, PurgedDropsPrefix
  <2>1. \A p \in R : req[p].now \in Nat /\ req[p].now > req[q].now - Window
    <3> SUFFICES ASSUME NEW p \in R PROVE req[p].now \in Nat /\ req[p].now > req[q].now - Window
      OBVIOUS
    <3>1. req[p].now \in 0 .. MaxClock /\ req[p].now + Window > clock BY RecentInWindow
    <3> QED BY <2>a, <3>1, ConstantTypes
  <2>2. PICK g : Places(g, R, queue)
    <3> HIDE DEF R
    <3> QED BY <1>a, <1>b, <2>a, <2>b, <2>1, PurgeKeepsPlaces
  <2>3. ASSUME NEW p \in After, p # q PROVE p \in R
    <3>1. p \in Requests BY <1>c DEF Recent, Allowed
    <3>2. ~MemoryDecide(p)
      <4>1. req'[q] # req[q]
        <5>1. \E r : \E s \in {"error", "refused", "allowed"} : Answer(q, s, "memory", r)
          BY <1>3 DEF MemoryDecide
        <5>2. req'[q].stage \in {"error", "refused", "allowed"} BY <1>b, <5>1 DEF Answer, Request
        <5> QED BY <2>a, <5>2
      <4>2. SUFFICES ASSUME MemoryDecide(p) PROVE FALSE OBVIOUS
      <4>3. \E r : \E s \in {"error", "refused", "allowed"} : Answer(p, s, "memory", r)
        BY <4>2 DEF MemoryDecide
      <4>4. req'[q] = req[q] BY <1>b, <2>3, <4>3 DEF Answer
      <4> QED BY <4>1, <4>4
    <3> QED BY <1>d, <3>2
  <2>4. q \notin R BY <2>a DEF Recent, Allowed
  <2>5. CASE events' = queue /\ q \notin After
    <3>1. After \subseteq R BY <2>3, <2>5
    <3>2. Places([p \in After |-> g[p]], After, queue) BY <2>2, <3>1, FewerPlaces
    <3> QED BY <1>1, <2>5, <3>2
  <2>6. CASE events' = Append(queue, req[q].now)
    <3> HIDE DEF R
    <3>1. PICK h : Places(h, R \cup {q}, Append(queue, req[q].now))
      BY <2>a, <2>c, <2>2, <2>4, AppendGivesPlace
    <3>2. After \subseteq R \cup {q} BY <2>3
    <3>3. Places([p \in After |-> h[p]], After, Append(queue, req[q].now))
      BY <3>1, <3>2, FewerPlaces
    <3> QED BY <1>1, <2>6, <3>3
  <2>7. (events' = queue /\ q \notin After) \/ events' = Append(queue, req[q].now)
    <3>1. \/ events' = queue /\ \E r : \E s \in {"error", "refused"} : Answer(q, s, "memory", r)
          \/ events' = Append(queue, req[q].now)
      BY <1>3, <2>b DEF MemoryDecide
    <3>2. ASSUME \E r : \E s \in {"error", "refused"} : Answer(q, s, "memory", r) PROVE q \notin After
      <4>1. req'[q].stage # "allowed" BY <1>b, <3>2 DEF Answer, Request
      <4> QED BY <1>c, <4>1 DEF Recent, Allowed
    <3> QED BY <3>1, <3>2
  <2> QED BY <2>5, <2>6, <2>7
<1>4. UNCHANGED events \/ \E q \in Requests : MemoryDecide(q)
  BY DEF Next, Arrive, RedisCheck, RedisOldest, RedisAdd, RedisFails, FallbackRead, KeyExpires, Tick
<1> QED BY <1>2, <1>3, <1>4

\* The recent requests of the in-memory limiter are no more than the limit.
LEMMA MemoryCount ==
  TypeOK /\ DequeHolds => \A S \in SUBSET Recent("memory") : Cardinality(S) # Limit + 1
<1> SUFFICES ASSUME TypeOK, DequeHolds, NEW S \in SUBSET Recent("memory")
             PROVE  Cardinality(S) # Limit + 1
  OBVIOUS
<1>1. PICK f : Places(f, Recent("memory"), events) BY DEF DequeHolds
<1>2. /\ IsFiniteSet(Recent("memory")) /\ Cardinality(Recent("memory")) <= Len(events)
      /\ Len(events) <= Limit /\ Len(events) \in Nat
  BY <1>1, TypeParts, PlacesCount, LenProperties
<1>3. IsFiniteSet(S) /\ Cardinality(S) <= Cardinality(Recent("memory"))
  BY <1>2, FS_Subset
<1>4. Cardinality(S) \in Nat /\ Cardinality(Recent("memory")) \in Nat
  BY <1>2, <1>3, FS_CardinalityType
<1> QED BY <1>2, <1>3, <1>4, ConstantTypes

\* In any span shorter than the window by the delay, the in-memory limiter lets at
\* most Limit requests through, in whatever order threads reach its lock.
THEOREM MemoryWindowHolds == Spec => []MemoryWindow
<1> DEFINE Inv == DequeHolds /\ MemoryWindow
<1>1. Init => Inv
  <2> SUFFICES ASSUME Init PROVE Inv OBVIOUS
  <2>1. Allowed("memory") = {} /\ Recent("memory") = {} /\ events = <<>>
    BY DEF Init, New, Allowed, Recent
  <2>2. Places(<<>>, {}, <<>>) BY DEF Places
  <2>3. DequeHolds BY <2>1, <2>2 DEF DequeHolds
  <2>4. ASSUME NEW S \in SUBSET {} PROVE Cardinality(S) # Limit + 1
    BY FS_EmptySet, ConstantTypes
  <2>5. MemoryWindow BY <2>1, <2>4 DEF MemoryWindow, Apart
  <2> QED BY <2>3, <2>5
<1>2. TypeOK /\ TimesOK /\ TypeOK' /\ Inv /\ [Next]_vars => Inv'
  <2> SUFFICES ASSUME TypeOK, TimesOK, TypeOK', Inv, [Next]_vars PROVE Inv' OBVIOUS
  <2>1. CASE Next
    <3>1. DequeHolds' BY <2>1, DequeStep
    <3>2. (\A S \in SUBSET Recent("memory") : Cardinality(S) # Limit + 1)'
      BY <3>1, MemoryCount, PTL
    <3>3. MemoryWindow' BY <2>1, <3>2, ApartStep DEF MemoryWindow
    <3> QED BY <3>1, <3>3
  <2>2. CASE UNCHANGED vars
    <3>1. UNCHANGED <<events, req, Allowed("memory"), Recent("memory")>>
      BY <2>2 DEF vars, Allowed, Recent
    <3>2. DequeHolds' BY <3>1 DEF DequeHolds, Places
    <3>3. MemoryWindow' BY <3>1 DEF MemoryWindow, Apart
    <3> QED BY <3>2, <3>3
  <2> QED BY <2>1, <2>2
<1> QED BY <1>1, <1>2, TimesInvariant, PTL DEF Spec

\* The requests that Redis has counted and not yet added.
Adding == {q \in Requests : req[q].stage = "add"}

\* Redis still has an entry for every request it has let through recently; with the
\* requests about to be let through they exceed the limit by the other threads at most.
RedisHolds ==
  /\ IsFiniteSet(zset)
  /\ IsFiniteSet(Open) /\ Cardinality(Open) <= Threads
  /\ \A p \in Recent("redis") : <<req[p].now, p>> \in zset
  /\ Cardinality(Recent("redis") \cup Adding) <= Limit + Threads - 1

\* The sorted set stays finite, and the open requests no more than the threads.
LEMMA FiniteStep ==
  ASSUME TypeOK, RedisHolds, Next
  PROVE  IsFiniteSet(zset') /\ IsFiniteSet(Open') /\ Cardinality(Open') <= Threads
<1>1. IsFiniteSet(zset')
  <2>1. CASE zset' \subseteq zset BY <2>1, FS_Subset DEF RedisHolds
  <2>2. CASE \E e : zset' = zset \cup {e} BY <2>2, FS_AddElement DEF RedisHolds
  <2>3. zset' \subseteq zset \/ \E e : zset' = zset \cup {e}
    BY DEF Next, Arrive, MemoryDecide, RedisCheck, RedisOldest, RedisAdd, RedisFails, Record,
           Remaining, FallbackRead, KeyExpires, Tick
  <2> QED BY <2>1, <2>2, <2>3
<1>2. \A p \in Open' : p \in Open \/ Arrive(p)
  <2> SUFFICES ASSUME NEW p \in Open' PROVE p \in Open \/ Arrive(p) OBVIOUS
  <2>1. p \in Requests BY DEF Open
  <2> QED BY <2>1, Moves
<1>3. IsFiniteSet(Open) /\ Cardinality(Open) \in Nat /\ Cardinality(Open) <= Threads
  BY FS_CardinalityType DEF RedisHolds
<1>4. CASE Open' \subseteq Open
  <2>1. IsFiniteSet(Open') /\ Cardinality(Open') <= Cardinality(Open)
    BY <1>3, <1>4, FS_Subset
  <2>2. Cardinality(Open') \in Nat BY <2>1, FS_CardinalityType
  <2> QED BY <1>1, <1>3, <2>1, <2>2, ConstantTypes
<1>5. ASSUME NEW p \in Open', p \notin Open, Arrive(p)
      PROVE  IsFiniteSet(Open') /\ Cardinality(Open') <= Threads
  <2>1. Cardinality(Open) < Threads BY <1>5 DEF Arrive
  <2>2. Open' \subseteq Open \cup {p}
    <3> SUFFICES ASSUME NEW r \in Open', r # p PROVE r \in Open OBVIOUS
    <3>1. r \in Requests /\ req'[r].stage \notin Closed BY DEF Open
    <3>2. p \in Requests /\ req \in [Requests -> Request] BY TypeParts DEF Open
    <3>3. req'[r] = req[r] BY <1>5, <3>1, <3>2 DEF Arrive, ReadClock
    <3> QED BY <3>1, <3>3 DEF Open
  <2>3. /\ IsFiniteSet(Open \cup {p})
        /\ Cardinality(Open \cup {p}) = Cardinality(Open) + 1
    BY <1>3, <1>5, FS_AddElement
  <2>4. IsFiniteSet(Open') /\ Cardinality(Open') <= Cardinality(Open \cup {p})
    BY <2>2, <2>3, FS_Subset
  <2>5. Cardinality(Open') \in Nat BY <2>4, FS_CardinalityType
  <2> QED BY <1>3, <2>1, <2>3, <2>4, <2>5, ConstantTypes
<1> QED BY <1>1, <1>2, <1>4, <1>5

\* A recent request is still in the sorted set after any step.
LEMMA EntriesStep ==
  ASSUME TypeOK, TimesOK, TypeOK', TimesOK', RedisHolds, Next, NEW p \in Recent("redis")'
  PROVE  <<req'[p].now, p>> \in zset'
<1>1. req'[p].now = req[p].now /\ (p \in Recent("redis") \/ RedisAdd(p))
  BY RecentStep
<1>2. CASE RedisAdd(p)
  BY <1>1, <1>2 DEF RedisAdd, Record
<1>3. CASE p \in Recent("redis")
  <2> DEFINE e == <<req[p].now, p>>
  <2>1. e \in zset BY <1>3 DEF RedisHolds
  <2>2. req[p].now \in 0 .. MaxClock /\ req[p].now + Window > clock BY <1>3, RecentInWindow
  <2>3. clock \in Nat BY TypeParts, ConstantTypes
  <2>4. SUFFICES ASSUME e \notin zset' PROVE FALSE BY <1>1
  <2>5. e[1] + Window <= clock BY <2>1, <2>4, DroppedIsOld
  <2> QED BY <2>2, <2>3, <2>5, ConstantTypes
<1> QED BY <1>1, <1>2, <1>3

\* The requests that have an entry are no more than the entries.
LEMMA EntriesCount ==
  ASSUME NEW R, NEW Z, IsFiniteSet(Z), NEW now, \A p \in R : <<now[p], p>> \in Z
  PROVE  IsFiniteSet(R) /\ Cardinality(R) <= Cardinality(Z)
<1> DEFINE f == [p \in R |-> <<now[p], p>>]
<1>1. f \in Injection(R, Z) BY DEF Injection, IsInjective
<1> QED BY <1>1, FS_Injection

\* The requests that count against the limit are finitely many.
LEMMA CountedFinite ==
  ASSUME RedisHolds
  PROVE  IsFiniteSet(Recent("redis") \cup Adding)
<1>1. PICK now : now = [p \in Requests |-> req[p].now] OBVIOUS
<1>2. \A p \in Recent("redis") : <<now[p], p>> \in zset
  BY <1>1 DEF RedisHolds, Recent, Allowed
<1>3. IsFiniteSet(Recent("redis")) BY <1>2, EntriesCount DEF RedisHolds
<1>4. Adding \subseteq Open BY DEF Adding, Open, Closed
<1>5. IsFiniteSet(Adding) BY <1>4, FS_Subset DEF RedisHolds
<1> QED BY <1>3, <1>5, FS_Union

\* The count only grows when Redis has found less than the limit in the set.
LEMMA CountStep ==
  ASSUME TypeOK, TimesOK, TypeOK', TimesOK', RedisHolds, Next
  PROVE  Cardinality(Recent("redis")' \cup Adding') <= Limit + Threads - 1
<1>a. PICK R, A : R = Recent("redis")' /\ A = Adding' OBVIOUS
<1>b. /\ IsFiniteSet(zset') /\ IsFiniteSet(Open') /\ Cardinality(Open') <= Threads
      /\ Cardinality(zset') \in Nat /\ Cardinality(Open') \in Nat
  BY FiniteStep, FS_CardinalityType
<1>c. A \subseteq Open' BY <1>a DEF Adding, Open, Closed
<1>d. IsFiniteSet(A) /\ Cardinality(A) <= Threads /\ Cardinality(A) \in Nat
  <2>1. IsFiniteSet(A) /\ Cardinality(A) <= Cardinality(Open') BY <1>b, <1>c, FS_Subset
  <2>2. Cardinality(A) \in Nat BY <2>1, FS_CardinalityType
  <2> QED BY <1>b, <2>1, <2>2, ConstantTypes
<1>e. IsFiniteSet(R) /\ Cardinality(R) <= Cardinality(zset') /\ Cardinality(R) \in Nat
  <2>1. PICK now : now = [p \in Requests |-> req'[p].now] OBVIOUS
  <2>2. \A p \in R : <<now[p], p>> \in zset'
    <3> SUFFICES ASSUME NEW p \in R PROVE <<now[p], p>> \in zset' OBVIOUS
    <3>1. p \in Requests BY <1>a DEF Recent, Allowed
    <3> QED BY <1>a, <2>1, <3>1, EntriesStep
  <2>3. IsFiniteSet(R) /\ Cardinality(R) <= Cardinality(zset') BY <1>b, <2>2, EntriesCount
  <2> QED BY <2>3, FS_CardinalityType
<1>1. CASE R \cup A \subseteq Recent("redis") \cup Adding
  <2>1. IsFiniteSet(Recent("redis") \cup Adding) BY CountedFinite
  <2>2. /\ Cardinality(R \cup A) <= Cardinality(Recent("redis") \cup Adding)
        /\ IsFiniteSet(R \cup A)
    BY <1>1, <2>1, FS_Subset
  <2>3. Cardinality(R \cup A) \in Nat /\ Cardinality(Recent("redis") \cup Adding) \in Nat
    BY <2>1, <2>2, FS_CardinalityType
  <2>4. Cardinality(Recent("redis") \cup Adding) <= Limit + Threads - 1 BY DEF RedisHolds
  <2> QED BY <1>a, <2>2, <2>3, <2>4, ConstantTypes
<1>2. ASSUME NEW q \in R \cup A, q \notin Recent("redis") \cup Adding
      PROVE  Cardinality(R \cup A) <= Limit + Threads - 1
  <2>1. q \in Requests BY <1>a DEF Recent, Allowed, Adding
  <2>2. ~RedisAdd(q) BY <1>2, <2>1 DEF RedisAdd, Adding
  <2>3. q \notin R BY <1>a, <1>2, <2>2, RecentStep
  <2>4. req'[q].stage = "add" BY <1>a, <1>2, <2>3 DEF Adding
  <2>5. req[q].stage # "add" BY <1>2, <2>1 DEF Adding
  <2>6. RedisCheck(q) BY <2>1, <2>4, <2>5, Moves
  <2>7. Cardinality(zset') < Limit
    <3>1. req \in [Requests -> Request] BY TypeParts
    <3>2. Goto(q, IF Cardinality(zset') >= Limit THEN "oldest" ELSE "add") BY <2>6 DEF RedisCheck
    <3>3. ~(Cardinality(zset') >= Limit) BY <2>1, <2>4, <3>1, <3>2 DEF Goto, Request
    <3> QED BY <1>b, <3>3, ConstantTypes
  <2>8. Cardinality(R \cup A) = Cardinality(R) + Cardinality(A) - Cardinality(R \cap A)
    BY <1>d, <1>e, FS_Union
  <2>9. Cardinality(R \cap A) \in Nat
    <3>1. R \cap A \in SUBSET R OBVIOUS
    <3>2. IsFiniteSet(R \cap A) BY <1>e, <3>1, FS_Subset
    <3> QED BY <3>2, FS_CardinalityType
  <2> QED BY <1>b, <1>d, <1>e, <2>7, <2>8, <2>9, ConstantTypes
<1> QED BY <1>a, <1>1, <1>2

\* The recent requests of the Redis limiter exceed the limit by fewer than the threads.
LEMMA RedisCount ==
  RedisHolds => \A S \in SUBSET Recent("redis") : Cardinality(S) # Limit + Threads
<1> SUFFICES ASSUME RedisHolds, NEW S \in SUBSET Recent("redis")
             PROVE  Cardinality(S) # Limit + Threads
  OBVIOUS
<1> DEFINE U == Recent("redis") \cup Adding
<1>1. IsFiniteSet(U) BY CountedFinite
<1>2. Cardinality(U) \in Nat /\ Cardinality(U) <= Limit + Threads - 1
  BY <1>1, FS_CardinalityType DEF RedisHolds
<1>3. S \in SUBSET U OBVIOUS
<1> HIDE DEF U
<1>4. IsFiniteSet(S) /\ Cardinality(S) <= Cardinality(U) BY <1>1, <1>3, FS_Subset
<1>5. Cardinality(S) \in Nat BY <1>4, FS_CardinalityType
<1> QED BY <1>2, <1>4, <1>5, ConstantTypes

\* In any span shorter than the window by the delay, the Redis limiter lets fewer than
\* Limit + Threads requests through, whatever the interleaving of their two pipelines
\* and whatever commands fail or lose their replies.
THEOREM RedisWindowHolds == Spec => []RedisWindow
<1> DEFINE Inv == RedisHolds /\ RedisWindow
<1>1. Init => Inv
  <2> SUFFICES ASSUME Init PROVE Inv OBVIOUS
  <2>1. Allowed("redis") = {} /\ Recent("redis") = {} /\ Adding = {} /\ Open = {} /\ zset = {}
    BY DEF Init, New, Allowed, Recent, Adding, Open, Closed
  <2>2. Cardinality({}) = 0 /\ IsFiniteSet({}) BY FS_EmptySet
  <2>3. RedisHolds BY <2>1, <2>2, ConstantTypes DEF RedisHolds
  <2>4. ASSUME NEW S \in SUBSET {} PROVE Cardinality(S) # Limit + Threads
    BY FS_EmptySet, ConstantTypes
  <2>5. RedisWindow BY <2>1, <2>4 DEF RedisWindow, Apart
  <2> QED BY <2>3, <2>5
<1>2. TypeOK /\ TimesOK /\ TypeOK' /\ TimesOK' /\ Inv /\ [Next]_vars => Inv'
  <2> SUFFICES ASSUME TypeOK, TimesOK, TypeOK', TimesOK', Inv, [Next]_vars PROVE Inv' OBVIOUS
  <2>1. CASE Next
    <3>1. IsFiniteSet(zset') /\ IsFiniteSet(Open') /\ Cardinality(Open') <= Threads
      BY <2>1, FiniteStep
    <3>2. \A p \in Recent("redis")' : <<req'[p].now, p>> \in zset' BY <2>1, EntriesStep
    <3>3. Cardinality(Recent("redis")' \cup Adding') <= Limit + Threads - 1 BY <2>1, CountStep
    <3>4. RedisHolds' BY <3>1, <3>2, <3>3 DEF RedisHolds
    <3>5. (\A S \in SUBSET Recent("redis") : Cardinality(S) # Limit + Threads)'
      BY <3>4, RedisCount, PTL
    <3>6. RedisWindow' BY <2>1, <3>5, ApartStep DEF RedisWindow
    <3> QED BY <3>4, <3>6
  <2>2. CASE UNCHANGED vars
    <3>1. UNCHANGED <<zset, req, Allowed("redis"), Recent("redis"), Adding, Open>>
      BY <2>2 DEF vars, Allowed, Recent, Adding, Open
    <3>2. RedisHolds' BY <3>1 DEF RedisHolds
    <3>3. RedisWindow' BY <3>1 DEF RedisWindow, Apart
    <3> QED BY <3>2, <3>3
  <2> QED BY <2>1, <2>2
<1> QED BY <1>1, <1>2, TimesInvariant, PTL DEF Spec
===============================================================================
