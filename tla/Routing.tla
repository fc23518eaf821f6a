------------------------------ MODULE Routing ------------------------------
(***************************************************************************)
(* RoutingService.route over the circuit breakers of CircuitBreaker.       *)
(*                                                                         *)
(* A request captures the chain of its alias, orders its positions by the  *)
(* alias's strategy and walks them.  The walk is synchronous up to the     *)
(* await of breaker.execute: it skips every position whose circuit refuses *)
(* and starts a call on the first that admits.  When that call fails, the  *)
(* rejection reaches route() in a later microtask (Resume), so outcomes of *)
(* other requests may be recorded in between.                              *)
(*                                                                         *)
(* Chains are constants here: a request never looks at the registry again  *)
(* once route() has read it.                                               *)
(***************************************************************************)
EXTENDS CircuitBreaker, SequencesExt

CONSTANTS
    Alias,         \* aliases clients ask for
    NoAlias,       \* the alias of an idle request
    ChainOf,       \* the providers of an alias, by position
    PriorityOf,    \* the priorities of an alias, by position
    StrategyOf,    \* the strategy of an alias
    AlwaysUp       \* the providers that never fail a call

Strategy == {"primary", "fallback", "round-robin", "weighted", "priority-grouped"}

ASSUME RegistryAssumption ==
    /\ NoAlias \notin Alias
    /\ AlwaysUp \subseteq Provider
    /\ StrategyOf \in [Alias -> Strategy]
    /\ \A a \in Alias :
          /\ ChainOf[a] \in Seq(Provider) /\ ChainOf[a] # <<>>
          /\ PriorityOf[a] \in Seq(Int) /\ Len(PriorityOf[a]) = Len(ChainOf[a])

VARIABLES
    phase,     \* where the request is in route()
    alias,     \* the alias it asked for
    rest,      \* the positions still to visit, the one it waits for first
    attempts,  \* route()'s `attempts': what each visited position gave
    cursor     \* RoundRobinCursor.cursors, modulo the length of the chain

walk      == <<phase, alias, rest, attempts>>
routeVars == <<cbVars, phase, alias, rest, attempts, cursor>>

Phase  == {"idle", "waiting", "rejected", "ok", "failed"}
Result == {"circuit-open", "error", "ok"}

Positions(a) == IF a = NoAlias THEN {} ELSE 1..Len(ChainOf[a])

\* The type invariant of what routing adds to the breaker.
RouteTypeOK ==
    /\ phase \in [Call -> Phase]
    /\ alias \in [Call -> Alias \cup {NoAlias}]
    /\ rest \in [Call -> Seq(Nat)]
    /\ attempts \in [Call -> Seq([position : Nat, result : Result])]
    /\ cursor \in [Alias -> Nat]
    /\ \A c \in Call : ToSet(rest[c]) \subseteq Positions(alias[c])
    /\ \A a \in Alias : cursor[a] < Len(ChainOf[a])

RouteInit ==
    /\ Init
    /\ \A p \in AlwaysUp : upstream[p] = "up"
    /\ phase = [c \in Call |-> "idle"]
    /\ alias = [c \in Call |-> NoAlias]
    /\ rest = [c \in Call |-> <<>>]
    /\ attempts = [c \in Call |-> <<>>]
    /\ cursor = [a \in Alias |-> 0]

(***************************************************************************)
(* pickOrder                                                               *)
(***************************************************************************)

\* Mutant: the walk wraps one position too late.
WalkForwardFrom_PastEnd(start, n) ==
    [i \in 1..n |-> IF start + i <= n + 1 THEN start + i ELSE start + i - n]

\* Mutant: the walk stops at the end of the chain.
WalkForwardFrom_NoWrap(start, n) == [i \in 1..n - start |-> start + i]

\* Every position once, from 0-based `start' below n, wrapping at the end.
WalkForwardFrom(start, n) ==
    [i \in 1..n |-> IF start + i <= n THEN start + i ELSE start + i - n]

\* The sort by (priority, position): the permutations it may return (one).
ByPriority(a) ==
    {order \in Bijection(Positions(a), Positions(a)) :
        \A k, l \in Positions(a) : k < l =>
            \/ PriorityOf[a][order[k]] < PriorityOf[a][order[l]]
            \/ /\ PriorityOf[a][order[k]] = PriorityOf[a][order[l]]
               /\ order[k] < order[l]}

\* A weighted sample may be any position: sampleWeightedIndex gives a missing
\* or non-positive weight the value 1.  A single position needs no strategy.
PickOrder(a) ==
    LET n == Len(ChainOf[a]) IN
    CASE n = 1                               -> {<<1>>}
      [] n > 1 /\ StrategyOf[a] = "round-robin" -> {WalkForwardFrom(cursor[a], n)}
      [] n > 1 /\ StrategyOf[a] = "weighted"    -> {WalkForwardFrom(s, n) : s \in 0..n - 1}
      [] n > 1 /\ StrategyOf[a] = "priority-grouped" -> ByPriority(a)
      [] OTHER                               -> {WalkForwardFrom(0, n)}

\* RoundRobinCursor.next stores current + 1; only the strategy reads it.
CursorAfter(a) ==
    IF StrategyOf[a] = "round-robin" /\ Len(ChainOf[a]) > 1
    THEN [cursor EXCEPT ![a] = (@ + 1) % Len(ChainOf[a])] ELSE cursor

(***************************************************************************)
(* route()                                                                 *)
(***************************************************************************)

Visited(order, result) ==
    [i \in 1..Len(order) |-> [position |-> order[i], result |-> result]]

Refuses(a, order, i) == ~CanRequest(ChainOf[a][order[i]])

\* Mutant: an exhausted chain waits for a circuit instead of failing.
WalkOn_Patient(c, a, order, tried) ==
    \E i \in 1..Len(order) :
          /\ \A j \in 1..i - 1 : Refuses(a, order, j)
          /\ Start(c, ChainOf[a][order[i]])
          /\ phase' = [phase EXCEPT ![c] = "waiting"]
          /\ rest' = [rest EXCEPT ![c] = SubSeq(order, i, Len(order))]
          /\ attempts' = [attempts EXCEPT
                            ![c] = tried \o Visited(SubSeq(order, 1, i - 1), "circuit-open")]

\* The loop of route() for request c of alias a, from the positions in
\* `order', with what the positions tried before gave in `tried': it starts a
\* call on the first position whose circuit admits it, or the walk is over.
WalkOn(c, a, order, tried) ==
    \/ \E i \in 1..Len(order) :
          /\ \A j \in 1..i - 1 : Refuses(a, order, j)
          /\ Start(c, ChainOf[a][order[i]])
          /\ phase' = [phase EXCEPT ![c] = "waiting"]
          /\ rest' = [rest EXCEPT ![c] = SubSeq(order, i, Len(order))]
          /\ attempts' = [attempts EXCEPT
                            ![c] = tried \o Visited(SubSeq(order, 1, i - 1), "circuit-open")]
    \/ /\ \A j \in 1..Len(order) : Refuses(a, order, j)
       /\ phase' = [phase EXCEPT ![c] = "failed"]
       /\ rest' = [rest EXCEPT ![c] = <<>>]
       /\ attempts' = [attempts EXCEPT ![c] = tried \o Visited(order, "circuit-open")]
       /\ UNCHANGED cbVars

Route(c, a) ==
    /\ phase[c] = "idle"
    /\ alias' = [alias EXCEPT ![c] = a]
    /\ cursor' = CursorAfter(a)
    /\ \E order \in PickOrder(a) : WalkOn(c, a, order, <<>>)

\* Mutant: `attempts' is started afresh by every call.
AttemptResult_Fresh(c, result) == <<[position |-> Head(rest[c]), result |-> result]>>

AttemptResult(c, result) ==
    Append(attempts[c], [position |-> Head(rest[c]), result |-> result])

Answer(c) ==
    /\ Succeed(c)
    /\ phase' = [phase EXCEPT ![c] = "ok"]
    /\ rest' = [rest EXCEPT ![c] = <<>>]
    /\ attempts' = [attempts EXCEPT ![c] = AttemptResult(c, "ok")]
    /\ UNCHANGED <<alias, cursor>>

\* Mutant: the walk tries the position that failed again.
Reject_Retries(c) ==
    /\ Fail(c)
    /\ phase' = [phase EXCEPT ![c] = "rejected"]
    /\ attempts' = [attempts EXCEPT ![c] = AttemptResult(c, "error")]
    /\ UNCHANGED <<alias, rest, cursor>>

Reject(c) ==
    /\ Fail(c)
    /\ phase' = [phase EXCEPT ![c] = "rejected"]
    /\ rest' = [rest EXCEPT ![c] = Tail(@)]
    /\ attempts' = [attempts EXCEPT ![c] = AttemptResult(c, "error")]
    /\ UNCHANGED <<alias, cursor>>

Resume(c) ==
    /\ phase[c] = "rejected"
    /\ WalkOn(c, alias[c], rest[c], attempts[c])
    /\ UNCHANGED <<alias, cursor>>

\* The caller takes the result or the RoutingFailedError and is gone.
Leave(c) ==
    /\ phase[c] \in {"ok", "failed"}
    /\ phase' = [phase EXCEPT ![c] = "idle"]
    /\ alias' = [alias EXCEPT ![c] = NoAlias]
    /\ attempts' = [attempts EXCEPT ![c] = <<>>]
    /\ UNCHANGED <<cbVars, rest, cursor>>

\* The microtasks that carry rejections run before timers and I/O do.
Elapse ==
    /\ \A c \in Call : phase[c] # "rejected"
    /\ Tick
    /\ UNCHANGED <<walk, cursor>>

\* GET /v1/health/llm takes a snapshot: listProviders asks every circuit.
HealthProbe(p) == Observe(p) /\ UNCHANGED <<walk, cursor>>

ProviderFlips(p) ==
    /\ p \notin AlwaysUp
    /\ UpstreamFlips(p)
    /\ UNCHANGED <<walk, cursor>>

RouteNext ==
    \/ \E c \in Call, a \in Alias : Route(c, a)
    \/ \E c \in Call : Answer(c)
    \/ \E c \in Call : Reject(c)
    \/ \E c \in Call : Resume(c)
    \/ \E c \in Call : Leave(c)
    \/ Elapse
    \/ \E p \in Provider : HealthProbe(p)
    \/ \E p \in Provider : ProviderFlips(p)

RouteSpec == RouteInit /\ [][RouteNext]_routeVars

\* A call settles by its timeout, time passes and microtasks are drained.
RouteFairness ==
    /\ WF_routeVars(Elapse)
    /\ \A c \in Call : WF_routeVars(Answer(c) \/ Reject(c))
    /\ \A c \in Call : WF_routeVars(Resume(c))

RouteFairSpec == RouteSpec /\ RouteFairness

(***************************************************************************)
(* Properties                                                              *)
(***************************************************************************)

\* The point of a fallback chain: a request fails only if no provider of its
\* chain was healthy throughout.  However many failures the others pile up and
\* whatever other requests do to the shared circuits, one provider that never
\* fails a call keeps every alias that names it in service.
HealthyFallbackServes ==
    \A c \in Call : phase[c] = "failed" =>
        \A i \in Positions(alias[c]) : ChainOf[alias[c]][i] \notin AlwaysUp

\* RoutingFailedError reports every position of the chain exactly once.
FailureIsComplete ==
    \A c \in Call : phase[c] = "failed" =>
        /\ Len(attempts[c]) = Len(ChainOf[alias[c]])
        /\ {attempts[c][k].position : k \in DOMAIN attempts[c]} = Positions(alias[c])

\* The walk implements the promise of FallbackWalk.
Walk == INSTANCE FallbackWalk WITH
    Caller    <- Call,
    ChainSize <- {Len(ChainOf[a]) : a \in Alias},
    todo      <- [c \in Call |-> ToSet(rest[c])],
    asking    <- [c \in Call |-> IF phase[c] = "waiting" THEN Head(rest[c]) ELSE 0],
    outcome   <- [c \in Call |-> CASE phase[c] = "idle" -> "none"
                                   [] phase[c] \in {"waiting", "rejected"} -> "pending"
                                   [] OTHER -> phase[c]]
ImplementsWalk == Walk!Spec

\* Every request ends, with an answer or a failure: neither a hung provider nor
\* a chain of refusing circuits can hold it.
EveryRequestEnds ==
    \A c \in Call : phase[c] = "waiting" ~> phase[c] \in {"ok", "failed"}
=============================================================================
