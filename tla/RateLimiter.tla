----------------------------- MODULE RateLimiter ------------------------------
(***************************************************************************)
(* app/core/rate_limiter.py, as POST /auth/login and /auth/register call   *)
(* it: a sliding window over the requests of one endpoint and client       *)
(* address.  Keys do not interact, so one key is modelled.  With the       *)
(* "redis" backend every exception of the Redis limiter sends the request  *)
(* to the in-memory one, which counts on its own.                          *)
(*                                                                         *)
(* Time is counted in ticks, Second of them a second.  A request reads the *)
(* clock once and decides later; MaxDelay bounds how much later.           *)
(***************************************************************************)
EXTENDS Integers, Sequences, FiniteSetsExt

CONSTANTS
  Requests,  \* requests that come under the key; each comes once
  Threads,   \* bound: worker threads of the API, so requests open at a time
  Backend,   \* settings.rate_limit_backend: "redis", anything else is memory
  Faulty,    \* requests whose Redis commands may fail or lose their reply
  Limit,     \* settings.auth_login_max_attempts or auth_register_max_attempts
  Second,    \* ticks in a second
  Window,    \* settings.auth_rate_limit_window_seconds, in ticks
  Grace,     \* what the Redis key outlives the window by: 5 seconds, in ticks
  MaxDelay,  \* bound: ticks between reading the clock and using it
  MaxClock   \* bound: the last tick

ASSUME LimiterAssumption ==
  /\ Threads \in Nat \ {0} /\ Second \in Nat \ {0}
  /\ Faulty \subseteq Requests
  /\ {Limit, Window, Grace, MaxDelay, MaxClock} \subseteq Nat

VARIABLES
  clock,   \* time.time(), the same for the API and for Redis
  events,  \* InMemoryRateLimiter._events[key]: the deque of timestamps
  zset,    \* the sorted set of the key in Redis: members <<score, request>>
  expiry,  \* when Redis drops the key
  req      \* req[q]: where request q is, and its answer

vars == <<clock, events, zset, expiry, req>>

\* 'at' is the tick of the answer and 'via' the limiter that gave it.
Stages == {"idle", "check", "oldest", "add", "fallback", "memory", "allowed", "refused", "error"}
New == [stage |-> "idle", now |-> 0, at |-> 0, via |-> "none", retry |-> 0]

Init ==
  /\ clock = 0
  /\ events = <<>>
  /\ zset = {}
  /\ expiry = 0
  /\ req = [q \in Requests |-> New]

Closed == {"idle", "allowed", "refused", "error"}
Open == {q \in Requests : req[q].stage \notin Closed}

Goto(q, stage) == req' = [req EXCEPT ![q].stage = stage]

\* time.time() is read when the limiter is entered.
ReadClock(q, stage) == req' = [req EXCEPT ![q].stage = stage, ![q].now = clock]

Answer(q, verdict, via, retry) ==
  req' = [req EXCEPT ![q].stage = verdict, ![q].at = clock, ![q].via = via, ![q].retry = retry]

\* Mutant: no lower bound.
RetryAfterUnbounded(oldest, now) == (oldest + Window - now) \div Second

\* max(1, int(oldest + window - now)), in seconds: int() drops the fraction.
RetryAfter(oldest, now) ==
  LET left == (oldest + Window - now) \div Second IN IF left > 1 THEN left ELSE 1

\* _build_rate_limiter: every backend but "redis" is the in-memory limiter.
Entry == IF Backend = "redis" THEN "check" ELSE "memory"

\* _rate_limit_or_raise
Arrive(q) ==
  /\ req[q].stage = "idle"
  /\ Cardinality(Open) < Threads
  /\ ReadClock(q, Entry)
  /\ UNCHANGED <<clock, events, zset, expiry>>

-------------------------------------------------------------------------------
(***************************************************************************)
(* InMemoryRateLimiter.allow, from taking the lock to releasing it.        *)
(***************************************************************************)
\* Mutant: an entry leaves one tick early.
PurgedEarly(queue, start) ==
  LET kept == {i \in 1 .. Len(queue) : queue[i] > start + 1}
  IN SubSeq(queue, Min(kept \cup {Len(queue) + 1}), Len(queue))

\* popleft() while the head is outside the window: stops at the first that is not.
Purged(queue, start) ==
  LET kept == {i \in 1 .. Len(queue) : queue[i] > start}
  IN SubSeq(queue, Min(kept \cup {Len(queue) + 1}), Len(queue))

\* Mutant: off by one.
FullOffByOne(queue) == Len(queue) > Limit

\* Mutant: the events are counted as they were before the purge.
FullUnpurged(queue) == Len(events) >= Limit

Full(queue) == Len(queue) >= Limit

\* With a limit of 0 the empty deque has no head to compute Retry-After from.
MemoryDecide(q) ==
  LET now == req[q].now
      queue == Purged(events, now - Window) IN
  /\ req[q].stage = "memory"
  /\ \/ /\ Full(queue)
        /\ events' = queue
        /\ IF queue = <<>> THEN Answer(q, "error", "memory", 0)
                           ELSE Answer(q, "refused", "memory", RetryAfter(Head(queue), now))
     \/ /\ ~Full(queue)
        /\ events' = Append(queue, now)
        /\ Answer(q, "allowed", "memory", 0)
  /\ UNCHANGED <<clock, zset, expiry>>

-------------------------------------------------------------------------------
(***************************************************************************)
(* RedisRateLimiter.allow: two pipelines, each a MULTI/EXEC of its own.    *)
(***************************************************************************)
Remaining(now) == {e \in zset : e[1] > now - Window}

\* ZREMRANGEBYSCORE and ZCARD.
RedisCheck(q) ==
  /\ req[q].stage = "check"
  /\ zset' = Remaining(req[q].now)
  /\ Goto(q, IF Cardinality(zset') >= Limit THEN "oldest" ELSE "add")
  /\ UNCHANGED <<clock, events, expiry>>

\* ZRANGE 0 0: the set may have changed since it was counted.
RedisOldest(q) ==
  LET now == req[q].now IN
  /\ req[q].stage = "oldest"
  /\ \/ /\ zset = {}
        /\ Answer(q, "refused", "redis", RetryAfter(now, now))
     \/ \E e \in zset :
          /\ \A d \in zset : e[1] <= d[1]
          /\ Answer(q, "refused", "redis", RetryAfter(e[1], now))
  /\ UNCHANGED <<clock, events, zset, expiry>>

\* Mutant: EXPIRE with a time shorter than the window.
KeyExpiryShort == clock + Window - 1

KeyExpiry == clock + Window + Grace

\* ZADD and EXPIRE; the member is unique.
Record(q) ==
  /\ zset' = zset \cup {<<req[q].now, q>>}
  /\ expiry' = KeyExpiry

\* Mutant: a request that Redis was asked about is not recorded.
RedisAddForgotten(q) ==
  /\ req[q].stage = "add"
  /\ Answer(q, "allowed", "redis", 0)
  /\ UNCHANGED <<clock, events, zset, expiry>>

RedisAdd(q) ==
  /\ req[q].stage = "add"
  /\ Record(q)
  /\ Answer(q, "allowed", "redis", 0)
  /\ UNCHANGED <<clock, events>>

\* Redis drops the key.
KeyExpires ==
  /\ zset # {}
  /\ expiry <= clock
  /\ zset' = {}
  /\ UNCHANGED <<clock, events, expiry, req>>

-------------------------------------------------------------------------------
(***************************************************************************)
(* FallbackRateLimiter.allow: any exception of the Redis limiter, be it    *)
(* that the command did not get there or that its reply did not come back  *)
(* within socket_timeout, starts the request over in memory.               *)
(***************************************************************************)
RedisFails(q) ==
  /\ q \in Faulty
  /\ \/ req[q].stage \in {"check", "oldest", "add"} /\ UNCHANGED <<zset, expiry>>
     \/ req[q].stage = "check" /\ zset' = Remaining(req[q].now) /\ UNCHANGED expiry
     \/ req[q].stage = "add" /\ Record(q)
  /\ Goto(q, "fallback")
  /\ UNCHANGED <<clock, events>>

FallbackRead(q) ==
  /\ req[q].stage = "fallback"
  /\ ReadClock(q, "memory")
  /\ UNCHANGED <<clock, events, zset, expiry>>

Tick ==
  /\ clock < MaxClock
  /\ \A q \in Open : req[q].stage # "fallback" => clock < req[q].now + MaxDelay
  /\ clock' = clock + 1
  /\ UNCHANGED <<events, zset, expiry, req>>

Next ==
  \/ \E q \in Requests :
       Arrive(q) \/ MemoryDecide(q) \/ RedisCheck(q) \/ RedisOldest(q) \/ RedisAdd(q)
         \/ RedisFails(q) \/ FallbackRead(q)
  \/ KeyExpires
  \/ Tick

Spec == Init /\ [][Next]_vars

-------------------------------------------------------------------------------
\* Every variable has its type, and the deque of a key never outgrows the limit.
TypeOK ==
  /\ clock \in 0 .. MaxClock
  /\ events \in Seq(0 .. MaxClock) /\ Len(events) <= Limit
  /\ zset \in SUBSET ((0 .. MaxClock) \X Requests)
  /\ expiry \in Nat
  /\ req \in [Requests -> [stage: Stages, now: 0 .. MaxClock, at: 0 .. MaxClock,
                           via: {"none", "memory", "redis"}, retry: Nat]]

\* The n requests of a set that were let through did not come all at once.
Apart(Q, n) ==
  \A S \in SUBSET Q :
    Cardinality(S) = n => \E p, q \in S : req[q].at - req[p].at >= Window - MaxDelay

Allowed(via) == {q \in Requests : req[q].stage = "allowed" /\ req[q].via = via}

\* The in-memory limiter lets at most Limit requests through in a window that is
\* shorter than the configured one by the delay between time.time() and the lock,
\* although the deque is out of order when threads overtake each other there.
MemoryWindow == Apart(Allowed("memory"), Limit + 1)

\* The Redis limiter counts and adds in separate pipelines: every thread but one
\* may get in on top of the limit, and no more than that.
RedisWindow == Apart(Allowed("redis"), Limit + Threads)

\* What Redis has recorded counts for a full window: neither a purge by a request
\* that overtook another nor the expiry of the key drops it sooner.
EventsCountInFull ==
  [][\A e \in zset \ zset' : e[1] + Window <= clock]_vars

\* Retry-After is at least a second and at most the window, give or take the delay
\* by which requests overtake each other.
RetryAfterBounded ==
  \A q \in Requests : req[q].stage = "refused" =>
    req[q].retry >= 1 /\ (req[q].retry > 1 => req[q].retry * Second <= Window + MaxDelay)

\* queue[0] of an empty deque is never asked for while the limit is positive: the
\* purge, by a clock older or newer than that of the entries, leaves one of those
\* it counts.  With a limit of 0 every request in memory ends in an IndexError.
IndexErrorOnlyAtZero == (\E q \in Requests : req[q].stage = "error") => Limit = 0
===============================================================================
