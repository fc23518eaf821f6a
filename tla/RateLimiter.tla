----------------------------- MODULE RateLimiter ----------------------------
(***************************************************************************)
(* The sliding window of one client (RedisRateLimiterService.allowRequest, *)
(* called by RateLimitGuard): a sorted set in Redis with one member per    *)
(* admitted request, scored with the time the request arrived.             *)
(*                                                                         *)
(* The four commands are four round trips: trim, count, add, expire.  The  *)
(* request reads the clock once, before the first; other requests run in   *)
(* between.  A failing command ends the request, admitted.  Members are    *)
(* kept as counts by age; a request carries the age of its own clock read. *)
(***************************************************************************)
EXTENDS Integers, FiniteSets

CONSTANTS
    Request,    \* requests of the client that may overlap
    Limit,      \* rate_limit_rpm as the requests' cached clients carry it
    Window,     \* WINDOW_MS
    Slack,      \* the seconds by which the key outlives the window
    MaxLag,     \* how long the four commands may take together
    MaxFaults   \* bound on failing commands

ASSUME WindowAssumption ==
    /\ IsFiniteSet(Request)
    /\ Limit \subseteq Nat \ {0} /\ Limit # {}
    /\ Window \in Nat \ {0} /\ Slack \in Nat \ {0}
    /\ MaxLag \in Nat /\ MaxFaults \in Nat

VARIABLES
    members,   \* the sorted set: how many members have each age
    ttl,       \* lifetime left to the key; Forever if it has none
    request,   \* each request: its next command, its clock's age, limit, count
    arrivals,  \* history: admitted requests by the age of their arrival
    faults     \* history: commands that failed

vars == <<members, ttl, request, arrivals, faults>>

MaxAge  == Window + MaxLag + 1   \* beyond it every request trims a member
Age     == 0..MaxAge
KeyTTL  == Window + Slack
Forever == KeyTTL + 1
NoOne   == [a \in Age |-> 0]
Idle == [next |-> "none", lag |-> 0, limit |-> 0]

\* The members of these ages, numbered within their age.
Members(counts, ages) == UNION {{a} \X (1..counts[a]) : a \in ages}
Total(counts)         == Cardinality(Members(counts, Age))

\* The most requests that can be admitted: each may be added after another one
\* was counted, and once more those that a key takes along when it expires
\* between their add and their expire.
Overlap == 2 * Cardinality(Request) - 1

TypeOK ==
    /\ members \in [Age -> Nat]
    /\ ttl \in 1..Forever
    /\ Total(members) = 0 => ttl = Forever
    /\ request \in [Request -> [next : {"trim", "count", "add", "expire"}, lag : 0..MaxLag,
                                limit : Limit] \cup {Idle}]
    /\ arrivals \in [Age -> Nat]
    /\ faults \in 0..MaxFaults

-----------------------------------------------------------------------------
(* What the commands do in Redis.  A set without members has no key.        *)

TtlOf(counts, lifetime) == IF Total(counts) = 0 THEN Forever ELSE lifetime

\* zremrangebyscore: what arrived a window before the request stays.
Kept(counts, lag) == [a \in Age |-> IF a - lag <= Window THEN counts[a] ELSE 0]

\* Mutant: nothing is trimmed.
Trim_Nothing(r) == UNCHANGED <<members, ttl>>

Trim(r) ==
    LET kept == Kept(members, request[r].lag)
    IN  members' = kept /\ ttl' = TtlOf(kept, ttl)

\* zadd: its score is the arrival.  A new key has no lifetime.
Add(r) == members' = [members EXCEPT ![request[r].lag] = @ + 1] /\ UNCHANGED ttl

\* Mutant: the lifetime of a key that has one is not renewed.
Expire_Once(r) ==
    ttl' = IF ttl = Forever THEN TtlOf(members, KeyTTL) ELSE ttl

\* Mutant: the lifetime is given in milliseconds.
Expire_Milliseconds(r) == ttl' = TtlOf(members, 1000 * KeyTTL)

\* expire: the key lives a little longer than the window.
Expire(r) == ttl' = TtlOf(members, KeyTTL)

\* The request goes on to its handler.
Admit(r) == arrivals' = [arrivals EXCEPT ![request[r].lag] = @ + 1]
Ends(r)  == request' = [request EXCEPT ![r] = Idle]
Goes(r, next) == request' = [request EXCEPT ![r].next = next]

-----------------------------------------------------------------------------
(* allowRequest.                                                            *)

Arrive(r, limit) ==
    /\ request[r] = Idle
    /\ request' = [request EXCEPT ![r] = [next |-> "trim", lag |-> 0, limit |-> limit]]
    /\ UNCHANGED <<members, ttl, arrivals, faults>>

Trims(r) ==
    /\ request[r].next = "trim"
    /\ Trim(r)
    /\ Goes(r, "count")
    /\ UNCHANGED <<arrivals, faults>>

Counts(r) ==
    /\ request[r].next = "count"
    /\ Total(members) < request[r].limit
    /\ Goes(r, "add")
    /\ UNCHANGED <<members, ttl, arrivals, faults>>

\* Mutant: denied requests are recorded too.
Denies_Recorded(r) ==
    /\ request[r].next = "count"
    /\ Total(members) >= request[r].limit
    /\ members' = [members EXCEPT ![request[r].lag] = 1]
    /\ Ends(r)
    /\ UNCHANGED <<ttl, arrivals, faults>>

\* 429; readOldestScore asks Redis nothing.
Denies(r) ==
    /\ request[r].next = "count"
    /\ Total(members) >= request[r].limit
    /\ Ends(r)
    /\ UNCHANGED <<members, ttl, arrivals, faults>>

Adds(r) ==
    /\ request[r].next = "add"
    /\ Add(r)
    /\ Admit(r)
    /\ Goes(r, "expire")
    /\ UNCHANGED faults

Expires(r) ==
    /\ request[r].next = "expire"
    /\ Expire(r)
    /\ Ends(r)
    /\ UNCHANGED <<members, arrivals, faults>>

\* A command fails, executed by Redis or not: the request is admitted.
Fails(r) ==
    /\ request[r] # Idle
    /\ faults < MaxFaults
    /\ \/ UNCHANGED <<members, ttl>>
       \/ request[r].next = "trim" /\ Trim(r)
       \/ request[r].next = "add" /\ Add(r)
       \/ request[r].next = "expire" /\ Expire(r) /\ UNCHANGED members
    /\ IF request[r].next = "expire" THEN UNCHANGED arrivals ELSE Admit(r)
    /\ Ends(r)
    /\ faults' = faults + 1

Aged(counts) == [a \in Age |-> CASE a = 0      -> 0
                                 [] a = MaxAge -> counts[a - 1] + counts[a]
                                 [] OTHER      -> counts[a - 1]]

Tick ==
    /\ \A r \in Request : request[r] = Idle \/ request[r].lag < MaxLag
    /\ LET gone == ttl = 1
       IN  /\ members' = IF gone THEN NoOne ELSE Aged(members)
           /\ ttl' = IF gone \/ ttl = Forever THEN Forever ELSE ttl - 1
    /\ arrivals' = [Aged(arrivals) EXCEPT ![MaxAge] = 0]
    /\ request' = [r \in Request |-> IF request[r] = Idle THEN Idle
                                     ELSE [request[r] EXCEPT !.lag = @ + 1]]
    /\ UNCHANGED faults

Init ==
    /\ members = NoOne
    /\ ttl = Forever
    /\ request = [r \in Request |-> Idle]
    /\ arrivals = NoOne
    /\ faults = 0

Step(r) == Trims(r) \/ Counts(r) \/ Denies(r) \/ Adds(r) \/ Expires(r)

Next ==
    \/ \E r \in Request : Step(r) \/ Fails(r) \/ \E limit \in Limit : Arrive(r, limit)
    \/ Tick

Spec == Init /\ [][Next]_vars

\* Commands are answered or fail, time passes, and the client keeps asking.
FairSpec ==
    /\ Spec
    /\ WF_vars(Tick)
    /\ \A r \in Request : WF_vars(Step(r)) /\ WF_vars(\E limit \in Limit : Arrive(r, limit))

(***************************************************************************)
(* Properties                                                              *)
(***************************************************************************)

\* What happened within a window before a request that has waited for lag.
InWindow(counts, lag) == Cardinality(Members(counts, {a \in Age : a - lag <= Window}))

\* redis-rate-limiter.service.ts:40 says that the window overshoots by at most
\* "the burst's parallelism": of all requests admitted within a window, those
\* beyond the largest limit are bounded by the requests that overlap, and by one
\* for each command that failed.
BoundedOvershoot ==
    \E limit \in Limit : InWindow(arrivals, 0) <= limit + Overlap + faults

\* Nobody is denied but for requests that were admitted in the same window.
DeniedForAReason ==
    [][\A r \in Request : Denies(r) => InWindow(arrivals, request[r].lag) >= request[r].limit]_vars

\* A client that keeps asking is let through in window after window, however
\* often it was denied: denials are not held against it.
NeverStarved == []<>(InWindow(arrivals, 0) > 0)
=============================================================================
