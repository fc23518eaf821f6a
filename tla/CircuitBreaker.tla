--------------------------- MODULE CircuitBreaker ---------------------------
(***************************************************************************)
(* The per-provider circuit breaker of resilience/circuit-breaker.service. *)
(*                                                                         *)
(* A call is one use of execute(): its synchronous prefix (Start) decides  *)
(* admission and takes a probe slot, the upstream promise is awaited, and  *)
(* its settlement (Succeed, Fail) gives the slot back and records the      *)
(* outcome.  Calls overlap freely between these two steps: that is the     *)
(* whole concurrency of the breaker, one Node process runs it.             *)
(*                                                                         *)
(* Time is kept as durations.  The code only ever compares now - openedAt  *)
(* with cooldownMs, so an open circuit carries the time since it opened,   *)
(* saturated at Cooldown; a call carries its age, which the AbortSignal of *)
(* the routing service bounds by CallTimeout.  Likewise `failures' is only *)
(* compared with failureThreshold and is saturated there.  lastFailureAt   *)
(* is reported by the health endpoint and read by nothing; it is left out. *)
(***************************************************************************)
EXTENDS Integers, FiniteSets

CONSTANTS
    Provider,          \* provider ids of the registry
    Call,              \* identities for calls of execute() in flight
    NoProvider,        \* the target of a call identity that is not in use
    FailureThreshold,  \* policy.failureThreshold
    Cooldown,          \* policy.cooldownMs
    HalfOpenProbes,    \* policy.halfOpenProbes
    CallTimeout        \* resolved.timeoutMs, in the unit of Cooldown

\* migrations/0001_providers.sql checks that each knob is positive.
ASSUME PolicyAssumption ==
    /\ FailureThreshold \in Nat \ {0}
    /\ Cooldown \in Nat \ {0}
    /\ HalfOpenProbes \in Nat \ {0}
    /\ CallTimeout \in Nat \ {0}

ASSUME IdentityAssumption ==
    /\ IsFiniteSet(Call)
    /\ NoProvider \notin Provider

VARIABLES
    state,           \* ProviderCircuit.state
    failures,        \* ProviderCircuit.failures, at most FailureThreshold
    sinceOpened,     \* now() - ProviderCircuit.openedAt, at most Cooldown
    inFlightProbes,  \* ProviderCircuit.inFlightProbes
    target,          \* the provider a call waits for
    probing,         \* the local `probing' of a call
    age,             \* how long a call has been waiting
    upstream         \* whether the provider itself currently answers

circuits == <<state, failures, sinceOpened, inFlightProbes>>
calls    == <<target, probing, age>>
cbVars   == <<state, failures, sinceOpened, inFlightProbes,
              target, probing, age, upstream>>

CircuitState == {"closed", "open", "half-open"}

\* The type invariant.
TypeOK ==
    /\ state \in [Provider -> CircuitState]
    /\ failures \in [Provider -> 0..FailureThreshold]
    /\ sinceOpened \in [Provider -> 0..Cooldown]
    /\ inFlightProbes \in [Provider -> 0..HalfOpenProbes]
    /\ target \in [Call -> Provider \cup {NoProvider}]
    /\ probing \in [Call -> BOOLEAN]
    /\ age \in [Call -> 0..CallTimeout]
    /\ upstream \in [Provider -> {"up", "down"}]

RunningOn(p) == {c \in Call : target[c] = p}
ProbesOn(p)  == {c \in RunningOn(p) : probing[c]}

\* A circuit the breaker has no entry for behaves as one fresh from ensure().
Init ==
    /\ state = [p \in Provider |-> "closed"]
    /\ failures = [p \in Provider |-> 0]
    /\ sinceOpened = [p \in Provider |-> 0]
    /\ inFlightProbes = [p \in Provider |-> 0]
    /\ target = [c \in Call |-> NoProvider]
    /\ probing = [c \in Call |-> FALSE]
    /\ age = [c \in Call |-> 0]
    /\ upstream \in [Provider -> {"up", "down"}]

(***************************************************************************)
(* Lazy transition and admission                                           *)
(***************************************************************************)

\* Mutant: the cooldown ends one unit early.
CooldownElapsed_Early(p) == state[p] = "open" /\ sinceOpened[p] >= Cooldown - 1

CooldownElapsed(p) == state[p] = "open" /\ sinceOpened[p] >= Cooldown

\* What maybeTransitionFromOpen leaves in the circuit.
StateNow(p)  == IF CooldownElapsed(p) THEN "half-open" ELSE state[p]
ProbesNow(p) == IF CooldownElapsed(p) THEN 0 ELSE inFlightProbes[p]

\* Mutant: an off-by-one in the comparison with halfOpenProbes.
CanRequest_OneTooMany(p) ==
    \/ StateNow(p) = "closed"
    \/ StateNow(p) = "half-open" /\ ProbesNow(p) <= HalfOpenProbes

\* Mutant: an open circuit falls through to `return true'.
CanRequest_AlsoOpen(p) ==
    StateNow(p) # "half-open" \/ ProbesNow(p) < HalfOpenProbes

CanRequest(p) ==
    \/ StateNow(p) = "closed"
    \/ StateNow(p) = "half-open" /\ ProbesNow(p) < HalfOpenProbes

\* getState, canRequest and listProviders: a reader makes the transition too.
Observe(p) ==
    /\ CooldownElapsed(p)
    /\ state' = [state EXCEPT ![p] = StateNow(p)]
    /\ inFlightProbes' = [inFlightProbes EXCEPT ![p] = ProbesNow(p)]
    /\ UNCHANGED <<failures, sinceOpened, target, probing, age, upstream>>

(***************************************************************************)
(* execute()                                                               *)
(***************************************************************************)

\* Mutant: `if (probing)' is missing before the increment.
SlotsFor_Always(isProbe) == 1

SlotsFor(isProbe) == IF isProbe THEN 1 ELSE 0

Start(c, p) ==
    LET isProbe == StateNow(p) = "half-open" IN
    /\ target[c] = NoProvider
    /\ CanRequest(p)
    /\ state' = [state EXCEPT ![p] = StateNow(p)]
    /\ inFlightProbes' = [inFlightProbes EXCEPT ![p] = ProbesNow(p) + SlotsFor(isProbe)]
    /\ target' = [target EXCEPT ![c] = p]
    /\ probing' = [probing EXCEPT ![c] = isProbe]
    /\ age' = [age EXCEPT ![c] = 0]
    /\ UNCHANGED <<failures, sinceOpened, upstream>>

\* Math.max(0, c.inFlightProbes - 1), for a call that took a slot.
ProbesReleased(c, p) ==
    IF probing[c] /\ inFlightProbes[p] > 0 THEN inFlightProbes[p] - 1 ELSE inFlightProbes[p]

Release(c) ==
    /\ target' = [target EXCEPT ![c] = NoProvider]
    /\ probing' = [probing EXCEPT ![c] = FALSE]
    /\ age' = [age EXCEPT ![c] = 0]

\* Mutant: a success clears the failures and leaves the circuit half-open.
RecordSuccess_NeverCloses(p, slots) ==
    /\ failures' = [failures EXCEPT ![p] = 0]
    /\ inFlightProbes' = [inFlightProbes EXCEPT ![p] = slots]
    /\ UNCHANGED <<state, sinceOpened>>

\* recordSuccess: the raw state is tested, without the lazy transition.
RecordSuccess(p, slots) ==
    LET closes == state[p] = "half-open" IN
    /\ failures' = [failures EXCEPT ![p] = 0]
    /\ state' = [state EXCEPT ![p] = IF closes THEN "closed" ELSE @]
    /\ sinceOpened' = [sinceOpened EXCEPT ![p] = IF closes THEN 0 ELSE @]
    /\ inFlightProbes' = [inFlightProbes EXCEPT ![p] = IF closes THEN 0 ELSE slots]

FailuresAfterFailure(p) ==
    IF state[p] = "half-open" \/ failures[p] = FailureThreshold
    THEN failures[p] ELSE failures[p] + 1

\* Whether recordFailure moves the circuit to `open'.
Trips(p) ==
    \/ state[p] = "half-open"
    \/ state[p] = "closed" /\ FailuresAfterFailure(p) >= FailureThreshold

RecordFailure(p, slots) ==
    /\ failures' = [failures EXCEPT ![p] = FailuresAfterFailure(p)]
    /\ state' = [state EXCEPT ![p] = IF Trips(p) THEN "open" ELSE @]
    /\ sinceOpened' = [sinceOpened EXCEPT ![p] = IF Trips(p) THEN 0 ELSE @]
    /\ inFlightProbes' = [inFlightProbes EXCEPT
                            ![p] = IF state[p] = "half-open" THEN 0 ELSE slots]

\* fn() resolved.
Succeed(c) ==
    LET p == target[c] IN
    /\ p # NoProvider
    /\ upstream[p] = "up"
    /\ RecordSuccess(p, ProbesReleased(c, p))
    /\ Release(c)
    /\ UNCHANGED upstream

\* fn() rejected: an upstream error, or the abort signal of the timeout.
Fail(c) ==
    LET p == target[c] IN
    /\ p # NoProvider
    /\ upstream[p] = "down"
    /\ RecordFailure(p, ProbesReleased(c, p))
    /\ Release(c)
    /\ UNCHANGED upstream

(***************************************************************************)
(* The environment                                                         *)
(***************************************************************************)

Tick ==
    /\ \A c \in Call : target[c] # NoProvider => age[c] < CallTimeout
    /\ sinceOpened' = [p \in Provider |->
                         IF state[p] = "open" /\ sinceOpened[p] < Cooldown
                         THEN sinceOpened[p] + 1 ELSE sinceOpened[p]]
    /\ age' = [c \in Call |-> IF target[c] # NoProvider THEN age[c] + 1 ELSE age[c]]
    /\ UNCHANGED <<state, failures, inFlightProbes, target, probing, upstream>>

UpstreamFlips(p) ==
    /\ upstream' = [upstream EXCEPT ![p] = IF @ = "up" THEN "down" ELSE "up"]
    /\ UNCHANGED <<circuits, calls>>

(***************************************************************************)
(* Specification                                                           *)
(***************************************************************************)

Next ==
    \/ \E p \in Provider : Observe(p)
    \/ \E p \in Provider, c \in Call : Start(c, p)
    \/ \E c \in Call : Succeed(c)
    \/ \E c \in Call : Fail(c)
    \/ Tick
    \/ \E p \in Provider : UpstreamFlips(p)

Spec == Init /\ [][Next]_cbVars

\* Clocks advance, a call settles by its timeout, and requests keep arriving.
Fairness ==
    /\ WF_cbVars(Tick)
    /\ \A c \in Call : WF_cbVars(Succeed(c) \/ Fail(c))
    /\ \A p \in Provider : WF_cbVars(\E c \in Call : Start(c, p))

FairSpec == Spec /\ Fairness

(***************************************************************************)
(* Properties                                                              *)
(***************************************************************************)

\* inFlightProbes never counts a slot nobody holds, whatever calls outlive the
\* episode that admitted them: a half-open circuit with nothing in flight can
\* always admit a probe, so no leaked slot can wedge a provider out of service.
SlotsAreHeld ==
    \A p \in Provider : inFlightProbes[p] <= Cardinality(ProbesOn(p))

\* While a circuit is open every call still waiting on the provider was sent
\* before the trip: an open provider gets no new traffic from any caller.
QuietWhileOpen ==
    \A p \in Provider, c \in Call :
        state[p] = "open" /\ target[c] = p => age[c] >= sinceOpened[p]

\* The regime in which the half-open guarantees hold.
PromptCalls == CallTimeout < Cooldown

\* When every call times out before a cooldown ends, a half-open circuit is
\* judged by its own probes only: no success or failure of an earlier episode
\* closes or re-opens it, and inFlightProbes is the exact number of probes.
OnlyProbesJudge ==
    PromptCalls =>
        \A p \in Provider :
            state[p] = "half-open" =>
                /\ RunningOn(p) = ProbesOn(p)
                /\ inFlightProbes[p] = Cardinality(ProbesOn(p))

\* "Max concurrent probes allowed in `half-open`": what the policy's comment
\* promises.  The code keeps it only in the regime of PromptCalls.
ProbeCap ==
    \A p \in Provider :
        state[p] = "half-open" => Cardinality(ProbesOn(p)) <= HalfOpenProbes

\* A provider that answers from some point on is eventually back in service
\* for good, whatever calls of its bad days are still to settle.
Recovers ==
    \A p \in Provider : <>[](upstream[p] = "up") => <>[](state[p] = "closed")
=============================================================================
