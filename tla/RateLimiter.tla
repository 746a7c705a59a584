----------------------------- MODULE RateLimiter -----------------------------
(***************************************************************************)
(* RateLimitMiddleware.dispatch (api/middleware/rate_limit.py) over       *)
(* RateLimiter.is_allowed (infrastructure/cache/rate_limiter.py) for the *)
(* requests to one rate-limited endpoint (one rule, one pattern), sent by *)
(* users from client addresses through several API processes.  Each key  *)
(* rate_limit:user:<id>:<pattern> or rate_limit:ip:<host>:<pattern> is a *)
(* sorted set of its own.                                                  *)
(*                                                                         *)
(* Time is discrete: one tick is one unit of time.time(), Window ticks    *)
(* are window_seconds.  Each process reads its own clock, which may run   *)
(* ahead of the Redis server's by Offset[i] ticks.  The sorted set        *)
(* member is str(now), so it is the score itself: two requests with the  *)
(* same timestamp are one member.  The pipeline is a MULTI/EXEC          *)
(* transaction, so each is_allowed call is one atomic step.               *)
(***************************************************************************)
EXTENDS Integers, FiniteSets

CONSTANTS
    Instances,        \* API processes (model values)
    Users,            \* authenticated users (model values)
    Hosts,            \* client addresses, request.client.host
    Origins,          \* the <<user, host>> pairs requests come from
    UserIdOnState,    \* whether a middleware sets request.state.user_id
    Offset,           \* [Instances -> Nat]: how far each clock runs ahead
    Limit,            \* rule.get_limit()
    Window,           \* rule.window_seconds, in ticks
    MaxTime,          \* bound on the server's clock
    MaxRequests,      \* bound on the requests sent with the key
    DistinctStamps    \* whether no two requests ever read the same time

ASSUME RateAssumption ==
    /\ Origins \subseteq Users \X Hosts
    /\ UserIdOnState \in BOOLEAN
    /\ Offset \in [Instances -> Nat]
    /\ Limit \in Nat \ {0}
    /\ Window \in Nat \ {0}
    /\ MaxTime \in Nat
    /\ MaxRequests \in Nat
    /\ DistinctStamps \in BOOLEAN

NoDeadline == -1

(* _build_rate_limit_key: the user's key when request.state carries a    *)
(* user_id, else the client address's.  The pattern is the same for all.*)
BuildKey(u, h) == IF UserIdOnState THEN <<"user", u>> ELSE <<"ip", h>>

Keys == {BuildKey(o[1], o[2]) : o \in Origins}

VARIABLES
    now,        \* the Redis server's clock
    zset,       \* [Keys -> scores (= members) in the key's sorted set]
    deadline,   \* [Keys -> when the key expires (server time), or NoDeadline]
    sent,       \* requests sent so far
    stamps,     \* timestamps read by the requests so far (history)
    admitted    \* [id, at, user, key]: admitted requests, their server time,
                \* sender and key (history)

vars == <<now, zset, deadline, sent, stamps, admitted>>

(***************************************************************************)
(* Plausible bugs of the code below, used by the mutation runs.           *)
(***************************************************************************)
\* is_allowed comparing with <= instead of <.
AdmitsOffByOne(count) == count <= Limit

\* EXPIRE only when the key is created (NX), not refreshed per request.
ExpiryOnce(d) == IF d = NoDeadline THEN now + Window ELSE d

\* ZADD of window_start where now was meant.
AddWindowStart(z, ts) == z \cup {ts - Window}

-----------------------------------------------------------------------------
(* ZREMRANGEBYSCORE key 0 (now - window_seconds): drops the entries whose *)
(* score is at most the window's start.                                   *)
Purge(z, ts) == {s \in z : s > ts - Window}

(* ZADD key {str(now): now}: the member is the timestamp itself, so a   *)
(* second request with the same timestamp adds nothing.                  *)
Add(z, ts) == z \cup {ts}

(* is_allowed: admitted when the count before the ZADD is below limit.   *)
Admits(count) == count < Limit

(* EXPIRE key window_seconds, counted from the server's clock.           *)
Expiry(d) == now + Window

Init ==
    /\ now = 0
    /\ zset = [k \in Keys |-> {}]
    /\ deadline = [k \in Keys |-> NoDeadline]
    /\ sent = 0
    /\ stamps = {}
    /\ admitted = {}

(* dispatch for a request of origin o that matches the rule: the key of *)
(* _build_rate_limit_key, is_allowed's pipeline (ZREMRANGEBYSCORE, ZCARD,*)
(* ZADD str(now), EXPIRE) on it in one transaction, then the 429 or      *)
(* call_next with the X-RateLimit headers.  A rejected request's         *)
(* timestamp is added too.                                                *)
Request(i, o) ==
    /\ sent < MaxRequests
    /\ LET ts     == now + Offset[i]
           k      == BuildKey(o[1], o[2])
           pruned == Purge(zset[k], ts)
       IN  /\ DistinctStamps => ts \notin stamps
           /\ zset' = [zset EXCEPT ![k] = Add(pruned, ts)]
           /\ deadline' = [deadline EXCEPT ![k] = Expiry(@)]
           /\ stamps' = stamps \cup {ts}
           /\ admitted' =
                IF Admits(Cardinality(pruned))
                  THEN admitted \cup {[id |-> sent, at |-> now, user |-> o[1], key |-> k]}
                  ELSE admitted
    /\ sent' = sent + 1
    /\ UNCHANGED now

(* The server's clock advances.                                           *)
Tick ==
    /\ now < MaxTime
    /\ now' = now + 1
    /\ UNCHANGED <<zset, deadline, sent, stamps, admitted>>

(* Redis deletes the key when its TTL has run out.                        *)
KeyExpires(k) ==
    /\ deadline[k] # NoDeadline
    /\ now >= deadline[k]
    /\ zset' = [zset EXCEPT ![k] = {}]
    /\ deadline' = [deadline EXCEPT ![k] = NoDeadline]
    /\ UNCHANGED <<now, sent, stamps, admitted>>

Next ==
    \/ \E i \in Instances, o \in Origins : Request(i, o)
    \/ Tick
    \/ \E k \in Keys : KeyExpires(k)

Spec == Init /\ [][Next]_vars

-----------------------------------------------------------------------------
(* The sorted set only ever holds timestamps that requests have read.    *)
TypeOK ==
    /\ now \in 0..MaxTime
    /\ zset \in [Keys -> SUBSET stamps]
    /\ deadline \in [Keys -> Nat \cup {NoDeadline}]
    /\ sent \in 0..MaxRequests
    /\ admitted \subseteq [id : 0..MaxRequests, at : 0..MaxTime, user : Users, key : Keys]

(* The admitted requests whose server time lies in the window ending at t. *)
AdmittedIn(t) == {a \in admitted : t - Window < a.at /\ a.at <= t}

(* The sliding window of is_allowed: at most limit requests with one key *)
(* are admitted in any window of window_seconds, however the requests   *)
(* of several API processes interleave.                                  *)
WindowLimit ==
    \A k \in Keys, t \in 0..now :
        Cardinality({a \in AdmittedIn(t) : a.key = k}) <= Limit

(* Spec section 6, rate limiting: the limits are per user (balance       *)
(* endpoint 10/min per user): however the middleware builds the key, at  *)
(* most limit requests of one user are admitted in any window.           *)
PerUserLimit ==
    \A u \in Users, t \in 0..now :
        Cardinality({a \in AdmittedIn(t) : a.user = u}) <= Limit

=============================================================================
