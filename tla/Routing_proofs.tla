--------------------------- MODULE Routing_proofs ---------------------------
(***************************************************************************)
(* What holds of the circuit breaker for every set of providers and calls  *)
(* and every policy, and of routing over circuit breakers for every        *)
(* registry, every policy and any number of concurrent requests.           *)
(***************************************************************************)
EXTENDS Routing, FiniteSetTheorems, TLAPS

-----------------------------------------------------------------------------
(* The circuit breaker                                                      *)

\* The breaker starts in its type.
LEMMA TypeInit == Init => TypeOK
  BY PolicyAssumption DEF Init, TypeOK, CircuitState

\* A step of the breaker keeps every variable in its type.
LEMMA TypeStep ==
    ASSUME TypeOK, [Next]_cbVars
    PROVE  TypeOK'
<1> USE PolicyAssumption
<1> USE DEF TypeOK, CircuitState
<1>1. ASSUME NEW p \in Provider, Observe(p)
      PROVE  TypeOK'
  BY <1>1 DEF Observe, StateNow, ProbesNow, CooldownElapsed
<1>2. ASSUME NEW p \in Provider, NEW c \in Call, Start(c, p)
      PROVE  TypeOK'
  BY <1>2 DEF Start, StateNow, ProbesNow, CooldownElapsed, CanRequest, SlotsFor
<1>3. ASSUME NEW c \in Call, Succeed(c)
      PROVE  TypeOK'
  BY <1>3 DEF Succeed, RecordSuccess, ProbesReleased, Release
<1>4. ASSUME NEW c \in Call, Fail(c)
      PROVE  TypeOK'
  BY <1>4 DEF Fail, RecordFailure, ProbesReleased, Release, Trips, FailuresAfterFailure
<1>5. CASE Tick
  BY <1>5 DEF Tick
<1>6. ASSUME NEW p \in Provider, UpstreamFlips(p)
      PROVE  TypeOK'
  BY <1>6 DEF UpstreamFlips, circuits, calls
<1>7. CASE UNCHANGED cbVars
  BY <1>7 DEF cbVars
<1> QED
  BY <1>1, <1>2, <1>3, <1>4, <1>5, <1>6, <1>7 DEF Next

\* Every variable of the breaker keeps its type: the counters never leave the
\* range the policy gives them, and in particular inFlightProbes never exceeds
\* halfOpenProbes.
THEOREM TypeCorrect == Spec => []TypeOK
<1>1. Init => TypeOK
  BY TypeInit
<1>2. TypeOK /\ [Next]_cbVars => TypeOK'
  BY TypeStep
<1> QED
  BY <1>1, <1>2, PTL DEF Spec

-----------------------------------------------------------------------------
(* How one step moves the calls that wait on a provider.                    *)

\* Only finitely many calls wait on a provider.
LEMMA FinitelyManyCalls ==
    ASSUME NEW p
    PROVE  /\ IsFiniteSet(RunningOn(p))
           /\ IsFiniteSet(ProbesOn(p))
           /\ Cardinality(ProbesOn(p)) \in Nat
<1> USE IdentityAssumption
<1>1. IsFiniteSet(RunningOn(p))
  BY FS_Subset DEF RunningOn
<1>2. IsFiniteSet(ProbesOn(p))
  BY <1>1, FS_Subset DEF ProbesOn
<1> QED
  BY <1>1, <1>2, FS_CardinalityType

\* A started call joins the calls of its provider, as a probe iff half-open.
LEMMA StartJoins ==
    ASSUME TypeOK, NEW c \in Call, NEW p \in Provider, Start(c, p)
    PROVE  /\ c \notin ProbesOn(p)
           /\ RunningOn(p)' = RunningOn(p) \cup {c}
           /\ ProbesOn(p)' = IF StateNow(p) = "half-open"
                             THEN ProbesOn(p) \cup {c} ELSE ProbesOn(p)
           /\ \A q \in Provider \ {p} :
                 RunningOn(q)' = RunningOn(q) /\ ProbesOn(q)' = ProbesOn(q)
<1> USE IdentityAssumption
<1>1. /\ target[c] = NoProvider
      /\ target' = [target EXCEPT ![c] = p]
      /\ probing' = [probing EXCEPT ![c] = (StateNow(p) = "half-open")]
  BY DEF Start
<1>2. c \notin ProbesOn(p)
  BY <1>1 DEF RunningOn, ProbesOn
<1>3. RunningOn(p)' = RunningOn(p) \cup {c}
  BY <1>1 DEF TypeOK, RunningOn
<1>4. ProbesOn(p)' = IF StateNow(p) = "half-open" THEN ProbesOn(p) \cup {c} ELSE ProbesOn(p)
  <2>1. CASE StateNow(p) = "half-open"
    <3>1. ProbesOn(p)' = {d \in RunningOn(p)' : probing'[d]}
      BY DEF ProbesOn
    <3>2. \A d \in Call : probing'[d] <=> (d = c \/ probing[d])
      BY <1>1, <2>1 DEF TypeOK
    <3> QED
      BY <1>3, <2>1, <3>1, <3>2 DEF RunningOn, ProbesOn
  <2>2. CASE StateNow(p) # "half-open"
    BY <1>1, <1>3, <2>2 DEF TypeOK, RunningOn, ProbesOn
  <2> QED
    BY <2>1, <2>2
<1>5. ASSUME NEW q \in Provider \ {p}
      PROVE  RunningOn(q)' = RunningOn(q) /\ ProbesOn(q)' = ProbesOn(q)
  BY <1>1 DEF TypeOK, RunningOn, ProbesOn
<1> QED
  BY <1>2, <1>3, <1>4, <1>5

\* A settled call leaves the calls of its provider, and of no other.
LEMMA SettledLeaves ==
    ASSUME TypeOK, NEW c \in Call, target[c] # NoProvider, Release(c)
    PROVE  /\ target[c] \in Provider
           /\ c \in ProbesOn(target[c]) <=> probing[c]
           /\ \A q \in Provider :
                 /\ RunningOn(q)' = RunningOn(q) \ {c}
                 /\ ProbesOn(q)' = ProbesOn(q) \ {c}
                 /\ q # target[c] => ProbesOn(q)' = ProbesOn(q) /\ RunningOn(q)' = RunningOn(q)
<1> USE IdentityAssumption
<1>1. target[c] \in Provider
  BY DEF TypeOK
<1>2. target' = [target EXCEPT ![c] = NoProvider] /\ probing' = [probing EXCEPT ![c] = FALSE]
  BY DEF Release
<1>3. c \in ProbesOn(target[c]) <=> probing[c]
  BY DEF RunningOn, ProbesOn
<1>4. ASSUME NEW q \in Provider
      PROVE  /\ RunningOn(q)' = RunningOn(q) \ {c}
             /\ ProbesOn(q)' = ProbesOn(q) \ {c}
             /\ q # target[c] => c \notin RunningOn(q) /\ c \notin ProbesOn(q)
  <2>1. /\ target'[c] = NoProvider /\ NoProvider # q
        /\ \A d \in Call \ {c} : target'[d] = target[d] /\ probing'[d] = probing[d]
    BY <1>2 DEF TypeOK
  <2>2. RunningOn(q)' = RunningOn(q) \ {c}
    BY <2>1 DEF RunningOn
  <2>3. ProbesOn(q)' = ProbesOn(q) \ {c}
    BY <2>1 DEF ProbesOn, RunningOn
  <2>4. q # target[c] => c \notin RunningOn(q) /\ c \notin ProbesOn(q)
    BY DEF ProbesOn, RunningOn
  <2> QED
    BY <2>2, <2>3, <2>4
<1>5. ASSUME NEW q \in Provider, q # target[c]
      PROVE  ProbesOn(q)' = ProbesOn(q) /\ RunningOn(q)' = RunningOn(q)
  BY <1>4, <1>5
<1> QED
  BY <1>1, <1>3, <1>4, <1>5

\* No other step moves a call.
LEMMA CallsStay ==
    ASSUME UNCHANGED <<target, probing>>
    PROVE  \A q : RunningOn(q)' = RunningOn(q) /\ ProbesOn(q)' = ProbesOn(q)
  BY DEF RunningOn, ProbesOn

\* What joining and leaving do to the number of probes.
LEMMA ProbeCount ==
    ASSUME NEW p, NEW c
    PROVE  /\ c \notin ProbesOn(p) =>
                Cardinality(ProbesOn(p) \cup {c}) = Cardinality(ProbesOn(p)) + 1
           /\ Cardinality(ProbesOn(p) \ {c}) =
                IF c \in ProbesOn(p) THEN Cardinality(ProbesOn(p)) - 1
                                     ELSE Cardinality(ProbesOn(p))
  BY FinitelyManyCalls, FS_AddElement, FS_RemoveElement

-----------------------------------------------------------------------------

\* While a circuit is open, every call that still waits on the provider was
\* sent before the trip.
THEOREM OpenIsQuiet == Spec => []QuietWhileOpen
<1> USE IdentityAssumption
<1>1. Init => QuietWhileOpen
  BY DEF Init, QuietWhileOpen
<1>2. TypeOK /\ QuietWhileOpen /\ [Next]_cbVars => QuietWhileOpen'
  <2> SUFFICES ASSUME TypeOK, QuietWhileOpen, [Next]_cbVars
               PROVE  QuietWhileOpen'
    OBVIOUS
  <2> USE DEF TypeOK, QuietWhileOpen
  <2>1. ASSUME NEW p \in Provider, Observe(p)
        PROVE  QuietWhileOpen'
    BY <2>1 DEF Observe, StateNow
  <2>2. ASSUME NEW p \in Provider, NEW c \in Call, Start(c, p)
        PROVE  QuietWhileOpen'
    BY <2>2 DEF Start, CanRequest
  <2>3. ASSUME NEW c \in Call, Succeed(c)
        PROVE  QuietWhileOpen'
    BY <2>3 DEF Succeed, RecordSuccess, Release
  <2>4. ASSUME NEW c \in Call, Fail(c)
        PROVE  QuietWhileOpen'
    BY <2>4 DEF Fail, RecordFailure, Release
  <2>5. CASE Tick
    BY <2>5 DEF Tick
  <2>6. ASSUME NEW p \in Provider, UpstreamFlips(p)
        PROVE  QuietWhileOpen'
    BY <2>6 DEF UpstreamFlips, circuits, calls
  <2>7. CASE UNCHANGED cbVars
    BY <2>7 DEF cbVars
  <2> QED
    BY <2>1, <2>2, <2>3, <2>4, <2>5, <2>6, <2>7 DEF Next
<1> QED
  BY <1>1, <1>2, TypeCorrect, PTL DEF Spec

\* No probe slot is ever leaked: inFlightProbes counts at most the probes that
\* are really in flight, in every regime of timeouts.
THEOREM NoSlotLeak == Spec => []SlotsAreHeld
<1>1. Init => SlotsAreHeld
  BY FinitelyManyCalls DEF Init, SlotsAreHeld
<1>2. TypeOK /\ SlotsAreHeld /\ [Next]_cbVars => SlotsAreHeld'
  <2> SUFFICES ASSUME TypeOK, SlotsAreHeld, [Next]_cbVars,
                      NEW q \in Provider
               PROVE  inFlightProbes'[q] <= Cardinality(ProbesOn(q)')
    BY DEF SlotsAreHeld, ProbesOn, RunningOn
  <2>0. /\ inFlightProbes[q] \in Nat
        /\ Cardinality(ProbesOn(q)) \in Nat
        /\ inFlightProbes[q] <= Cardinality(ProbesOn(q))
    BY FinitelyManyCalls DEF TypeOK, SlotsAreHeld
  <2>1. ASSUME NEW p \in Provider, Observe(p)
        PROVE  inFlightProbes'[q] <= Cardinality(ProbesOn(q)')
    BY <2>0, <2>1, CallsStay DEF Observe, ProbesNow, TypeOK
  <2>2. ASSUME NEW p \in Provider, NEW c \in Call, Start(c, p)
        PROVE  inFlightProbes'[q] <= Cardinality(ProbesOn(q)')
    <3>1. CASE q # p
      BY <2>0, <2>2, <3>1, StartJoins DEF Start, TypeOK
    <3>2. CASE q = p
      <4>1. c \notin ProbesOn(p) /\
            ProbesOn(p)' = IF StateNow(p) = "half-open"
                           THEN ProbesOn(p) \cup {c} ELSE ProbesOn(p)
        BY <2>2, StartJoins
      <4>2. Cardinality(ProbesOn(p)') =
                Cardinality(ProbesOn(p)) + SlotsFor(StateNow(p) = "half-open")
        BY <2>0, <3>2, <4>1, ProbeCount DEF SlotsFor
      <4>3. ProbesNow(p) \in Nat /\ ProbesNow(p) <= inFlightProbes[p]
        BY <2>0, <3>2 DEF ProbesNow
      <4> QED
        BY <2>0, <2>2, <3>2, <4>2, <4>3 DEF Start, SlotsFor, TypeOK
    <3> QED
      BY <3>1, <3>2
  <2>3. ASSUME NEW c \in Call, Succeed(c)
        PROVE  inFlightProbes'[q] <= Cardinality(ProbesOn(q)')
    <3>1. target[c] # NoProvider /\ Release(c)
      BY <2>3 DEF Succeed
    <3>2. CASE q # target[c]
      BY <2>0, <2>3, <3>1, <3>2, SettledLeaves DEF Succeed, RecordSuccess, TypeOK
    <3>3. CASE q = target[c]
      <4>1. /\ c \in ProbesOn(q) <=> probing[c]
            /\ ProbesOn(q)' = ProbesOn(q) \ {c}
        BY <3>1, <3>3, SettledLeaves
      <4>2. Cardinality(ProbesOn(q)') = IF probing[c] THEN Cardinality(ProbesOn(q)) - 1
                                                     ELSE Cardinality(ProbesOn(q))
        BY <4>1, ProbeCount
      <4>3. probing[c] => Cardinality(ProbesOn(q)) > 0
        BY <2>0, <4>1, FinitelyManyCalls, FS_EmptySet
      <4> QED
        BY <2>0, <2>3, <3>3, <4>2, <4>3 DEF Succeed, RecordSuccess, ProbesReleased, TypeOK
    <3> QED
      BY <3>2, <3>3
  <2>4. ASSUME NEW c \in Call, Fail(c)
        PROVE  inFlightProbes'[q] <= Cardinality(ProbesOn(q)')
    <3>1. target[c] # NoProvider /\ Release(c)
      BY <2>4 DEF Fail
    <3>2. CASE q # target[c]
      BY <2>0, <2>4, <3>1, <3>2, SettledLeaves DEF Fail, RecordFailure, TypeOK
    <3>3. CASE q = target[c]
      <4>1. /\ c \in ProbesOn(q) <=> probing[c]
            /\ ProbesOn(q)' = ProbesOn(q) \ {c}
        BY <3>1, <3>3, SettledLeaves
      <4>2. Cardinality(ProbesOn(q)') = IF probing[c] THEN Cardinality(ProbesOn(q)) - 1
                                                     ELSE Cardinality(ProbesOn(q))
        BY <4>1, ProbeCount
      <4>3. probing[c] => Cardinality(ProbesOn(q)) > 0
        BY <2>0, <4>1, FinitelyManyCalls, FS_EmptySet
      <4> QED
        BY <2>0, <2>4, <3>3, <4>2, <4>3 DEF Fail, RecordFailure, ProbesReleased, TypeOK
    <3> QED
      BY <3>2, <3>3
  <2>5. CASE Tick
    BY <2>0, <2>5, CallsStay DEF Tick
  <2>6. ASSUME NEW p \in Provider, UpstreamFlips(p)
        PROVE  inFlightProbes'[q] <= Cardinality(ProbesOn(q)')
    BY <2>0, <2>6, CallsStay DEF UpstreamFlips, circuits, calls
  <2>7. CASE UNCHANGED cbVars
    BY <2>0, <2>7, CallsStay DEF cbVars
  <2> QED
    BY <2>1, <2>2, <2>3, <2>4, <2>5, <2>6, <2>7 DEF Next
<1> QED
  BY <1>1, <1>2, TypeCorrect, PTL DEF Spec

\* When calls time out within the cooldown, nobody waits on a provider whose
\* cooldown has elapsed: the half-open episode starts with a clean slate.
LEMMA CleanSlate ==
    ASSUME TypeOK, QuietWhileOpen, PromptCalls,
           NEW p \in Provider, CooldownElapsed(p)
    PROVE  RunningOn(p) = {} /\ ProbesOn(p) = {}
<1> USE PolicyAssumption
<1>1. \A c \in Call : target[c] # p
  BY DEF TypeOK, QuietWhileOpen, PromptCalls, CooldownElapsed
<1> QED
  BY <1>1 DEF RunningOn, ProbesOn

\* When calls time out within the cooldown, a half-open circuit is decided by
\* its own probes, and its slot counter is exact.
THEOREM HalfOpenIsExact == Spec => []OnlyProbesJudge
<1>1. Init => OnlyProbesJudge
  BY DEF Init, OnlyProbesJudge
<1>2. TypeOK /\ QuietWhileOpen /\ OnlyProbesJudge /\ [Next]_cbVars => OnlyProbesJudge'
  <2> DEFINE Exact(q) == state[q] = "half-open" =>
                            /\ RunningOn(q) = ProbesOn(q)
                            /\ inFlightProbes[q] = Cardinality(ProbesOn(q))
  <2> SUFFICES ASSUME TypeOK, QuietWhileOpen, OnlyProbesJudge, [Next]_cbVars,
                      PromptCalls, NEW q \in Provider
               PROVE  Exact(q)'
    BY DEF OnlyProbesJudge, PromptCalls
  <2>0. Exact(q)
    BY DEF OnlyProbesJudge
  <2>a. ASSUME UNCHANGED <<state, inFlightProbes, target, probing>>
        PROVE  Exact(q)'
    BY <2>0, <2>a, CallsStay
  <2> HIDE DEF Exact
  <2>1. ASSUME NEW p \in Provider, Observe(p)
        PROVE  Exact(q)'
    <3>1. CASE q # p
      BY <2>0, <2>1, <3>1, CallsStay DEF Observe, TypeOK, Exact
    <3>2. CASE q = p
      BY <2>1, <3>2, CallsStay, CleanSlate, FS_EmptySet
         DEF Observe, StateNow, ProbesNow, TypeOK, Exact
    <3> QED
      BY <3>1, <3>2
  <2>2. ASSUME NEW p \in Provider, NEW c \in Call, Start(c, p)
        PROVE  Exact(q)'
    <3>1. CASE q # p
      <4>1. RunningOn(q)' = RunningOn(q) /\ ProbesOn(q)' = ProbesOn(q)
        BY <2>2, <3>1, StartJoins
      <4>2. state'[q] = state[q] /\ inFlightProbes'[q] = inFlightProbes[q]
        BY <2>2, <3>1 DEF Start, TypeOK
      <4> QED
        BY <2>0, <4>1, <4>2 DEF Exact
    <3>2. CASE q = p /\ StateNow(p) # "half-open"
      BY <2>2, <3>2 DEF Start, TypeOK, Exact
    <3>3. CASE q = p /\ StateNow(p) = "half-open"
      <4>1. /\ RunningOn(p) = ProbesOn(p)
            /\ ProbesNow(p) = Cardinality(ProbesOn(p))
        BY <2>0, <3>3, CleanSlate, FS_EmptySet DEF StateNow, ProbesNow, Exact
      <4>2. /\ c \notin ProbesOn(p)
            /\ RunningOn(p)' = RunningOn(p) \cup {c}
            /\ ProbesOn(p)' = ProbesOn(p) \cup {c}
        BY <2>2, <3>3, StartJoins
      <4>3. inFlightProbes'[p] = ProbesNow(p) + 1
        BY <2>2, <3>3 DEF Start, SlotsFor, TypeOK
      <4>4. Cardinality(ProbesOn(p)') = Cardinality(ProbesOn(p)) + 1
        BY <4>2, ProbeCount
      <4> QED
        BY <3>3, <4>1, <4>2, <4>3, <4>4 DEF Exact
    <3> QED
      BY <3>1, <3>2, <3>3
  <2>3. ASSUME NEW c \in Call, Succeed(c)
        PROVE  Exact(q)'
    <3>1. target[c] # NoProvider /\ Release(c)
      BY <2>3 DEF Succeed
    <3>2. CASE q # target[c]
      BY <2>0, <2>3, <3>1, <3>2, SettledLeaves DEF Succeed, RecordSuccess, TypeOK, Exact
    <3>3. CASE q = target[c]
      BY <2>3, <3>3 DEF Succeed, RecordSuccess, TypeOK, Exact
    <3> QED
      BY <3>2, <3>3
  <2>4. ASSUME NEW c \in Call, Fail(c)
        PROVE  Exact(q)'
    <3>1. target[c] # NoProvider /\ Release(c)
      BY <2>4 DEF Fail
    <3>2. CASE q # target[c]
      BY <2>0, <2>4, <3>1, <3>2, SettledLeaves DEF Fail, RecordFailure, TypeOK, Exact
    <3>3. CASE q = target[c]
      BY <2>4, <3>3 DEF Fail, RecordFailure, Trips, TypeOK, Exact
    <3> QED
      BY <3>2, <3>3
  <2>5. CASE Tick
    BY <2>a, <2>5 DEF Tick
  <2>6. ASSUME NEW p \in Provider, UpstreamFlips(p)
        PROVE  Exact(q)'
    BY <2>a, <2>6 DEF UpstreamFlips, circuits, calls
  <2>7. CASE UNCHANGED cbVars
    BY <2>a, <2>7 DEF cbVars
  <2> QED
    BY <2>1, <2>2, <2>3, <2>4, <2>5, <2>6, <2>7 DEF Next
<1> QED
  BY <1>1, <1>2, TypeCorrect, OpenIsQuiet, PTL DEF Spec

\* "Max concurrent probes allowed in `half-open`" is kept by every deployment
\* whose request timeout is shorter than its cooldown.
THEOREM PromptProbeCap == PromptCalls => (Spec => []ProbeCap)
<1> SUFFICES ASSUME PromptCalls PROVE Spec => []ProbeCap
  OBVIOUS
<1>1. TypeOK /\ OnlyProbesJudge => ProbeCap
  BY DEF TypeOK, OnlyProbesJudge, ProbeCap
<1> QED
  BY <1>1, TypeCorrect, HalfOpenIsExact, PTL

-----------------------------------------------------------------------------
(* Routing                                                                  *)

\* One sequence after another.
LEMMA Concatenation ==
    ASSUME NEW S, NEW s \in Seq(S), NEW t \in Seq(S)
    PROVE  /\ s \o t \in Seq(S)
           /\ Len(s \o t) = Len(s) + Len(t)
           /\ \A k \in 1..Len(s) : (s \o t)[k] = s[k]
           /\ \A k \in 1..Len(t) : (s \o t)[Len(s) + k] = t[k]
OBVIOUS

\* Appending one element is concatenating a sequence of one.
LEMMA AppendIsConcat ==
    ASSUME NEW S, NEW s \in Seq(S), NEW e \in S
    PROVE  Append(s, e) = s \o <<e>>
OBVIOUS

USE RegistryAssumption

-----------------------------------------------------------------------------
(* pickOrder                                                                *)

\* A function on 1..n is a sequence whose elements are its values.
LEMMA SequenceOfFunction ==
    ASSUME NEW n \in Nat, NEW S, NEW w \in [1..n -> S]
    PROVE  /\ w \in Seq(S)
           /\ ToSet(w) = {w[i] : i \in 1..n}
<1>1. w \in Seq(S)
  OBVIOUS
<1>2. DOMAIN w = 1..n
  OBVIOUS
<1> QED
  BY <1>1, <1>2 DEF ToSet

\* A walk from any start visits every position.
LEMMA WalkForwardCovers ==
    ASSUME NEW n \in Nat \ {0}, NEW start \in 0..n - 1
    PROVE  /\ WalkForwardFrom(start, n) \in Seq(1..n)
           /\ ToSet(WalkForwardFrom(start, n)) = 1..n
<1> DEFINE w == WalkForwardFrom(start, n)
<1>1. w \in [1..n -> 1..n]
  BY DEF WalkForwardFrom
<1>2. ASSUME NEW j \in 1..n
      PROVE  \E i \in 1..n : w[i] = j
  <2>1. CASE j > start
    <3>1. j - start \in 1..n /\ start + (j - start) <= n
      BY <2>1
    <3>2. w[j - start] = j
      BY <3>1 DEF WalkForwardFrom
    <3> QED
      BY <3>1, <3>2
  <2>2. CASE j <= start
    <3>1. j - start + n \in 1..n /\ ~(start + (j - start + n) <= n)
      BY <2>2
    <3>2. w[j - start + n] = j
      BY <3>1 DEF WalkForwardFrom
    <3> QED
      BY <3>1, <3>2
  <2> QED
    BY <2>1, <2>2
<1> HIDE DEF w
<1>3. {w[i] : i \in 1..n} = 1..n
  BY <1>1, <1>2
<1> QED
  BY <1>1, <1>3, SequenceOfFunction DEF w

\* Every strategy orders all the positions of the chain.
LEMMA PickOrderCovers ==
    ASSUME RouteTypeOK, NEW a \in Alias, NEW order \in PickOrder(a)
    PROVE  /\ order \in Seq(Positions(a))
           /\ ToSet(order) = Positions(a)
<1> DEFINE n == Len(ChainOf[a])
<1>1. n \in Nat \ {0} /\ Positions(a) = 1..n
  BY DEF Positions
<1> HIDE DEF n
<1>2. CASE n = 1 /\ order = <<1>>
  <2>1. order \in [1..1 -> {1}] /\ {1} = 1..1
    BY <1>2
  <2>2. order \in Seq({1}) /\ ToSet(order) = {order[i] : i \in 1..1}
    <3>1. order \in [1..1 -> {1}] /\ 1 \in Nat
      BY <2>1
    <3> QED
      BY <3>1, SequenceOfFunction, Zenon
  <2>3. {order[i] : i \in 1..1} = 1..1
    BY <2>1
  <2> QED
    BY <1>1, <1>2, <2>1, <2>2, <2>3
<1>3. CASE order \in ByPriority(a)
  <2>1. order \in Bijection(1..n, 1..n)
    BY <1>1, <1>3 DEF ByPriority
  <2>2. /\ order \in [1..n -> 1..n]
        /\ \A t \in 1..n : \E s \in 1..n : order[s] = t
    BY <2>1 DEF Bijection, Injection, Surjection
  <2>3. {order[i] : i \in 1..n} = 1..n
    BY <2>2
  <2>4. order \in Seq(1..n) /\ ToSet(order) = {order[i] : i \in 1..n}
    <3>1. n \in Nat /\ order \in [1..n -> 1..n] /\ DOMAIN order = 1..n
      BY <1>1, <2>2
    <3>2. order \in Seq(1..n)
      BY <3>1
    <3> QED
      BY <3>1, <3>2 DEF ToSet
  <2> QED
    BY <1>1, <2>3, <2>4
<1>4. CASE \E start \in 0..n - 1 : order = WalkForwardFrom(start, n)
  BY <1>1, <1>4, WalkForwardCovers
<1> QED
  <2>1. cursor[a] \in 0..n - 1 /\ 0 \in 0..n - 1
    BY <1>1 DEF RouteTypeOK, n
  <2> QED
    BY <1>1, <1>2, <1>3, <1>4, <2>1 DEF PickOrder, n

-----------------------------------------------------------------------------
(* The inductive invariant                                                  *)

\* A request holds a call of the breaker exactly while it waits, and the call
\* is on the provider of the position it visits.
CallsMatch ==
    \A c \in Call :
        /\ phase[c] = "waiting" =>
              /\ alias[c] \in Alias
              /\ rest[c] # <<>>
              /\ target[c] = ChainOf[alias[c]][Head(rest[c])]
        /\ phase[c] = "rejected" => alias[c] \in Alias
        /\ phase[c] # "waiting" => target[c] = NoProvider
        /\ phase[c] \notin {"waiting", "rejected"} => rest[c] = <<>>

\* A provider that never fails a call is never refused one.
HealthyStaysClosed ==
    \A p \in AlwaysUp : upstream[p] = "up" /\ state[p] = "closed"

NoHealthyAmong(a, positions) ==
    \A i \in positions : ChainOf[a][i] \notin AlwaysUp

\* The positions a request has left behind without an answer are unhealthy.
LeftBehindUnhealthy ==
    \A c \in Call :
        phase[c] \in {"waiting", "rejected", "failed"} =>
            NoHealthyAmong(alias[c], Positions(alias[c]) \ ToSet(rest[c]))

RouteInv ==
    /\ TypeOK
    /\ RouteTypeOK
    /\ CallsMatch
    /\ HealthyStaysClosed
    /\ LeftBehindUnhealthy

Attempt == [position : Nat, result : Result]

\* The tail of a walk from its i-th position.
LEMMA TailOfWalk ==
    ASSUME NEW S, NEW s \in Seq(S), NEW i \in 1..Len(s)
    PROVE  /\ SubSeq(s, i, Len(s)) \in Seq(S)
           /\ SubSeq(s, i, Len(s)) # <<>>
           /\ Head(SubSeq(s, i, Len(s))) = s[i]
           /\ ToSet(SubSeq(s, i, Len(s))) = {s[k] : k \in i..Len(s)}
<1> DEFINE r == SubSeq(s, i, Len(s))
<1>1. /\ r \in Seq(S)
      /\ Len(r) = Len(s) - i + 1
      /\ DOMAIN r = 1..Len(r)
      /\ \A k \in 1..Len(r) : r[k] = s[i + k - 1]
  OBVIOUS
<1> HIDE DEF r
<1>2. ToSet(r) = {r[k] : k \in 1..Len(r)}
  BY <1>1 DEF ToSet
<1>3. \A k \in i..Len(s) : k - i + 1 \in 1..Len(r) /\ r[k - i + 1] = s[k]
  BY <1>1
<1>4. {r[k] : k \in 1..Len(r)} = {s[k] : k \in i..Len(s)}
  <2>1. \A k \in 1..Len(r) : i + k - 1 \in i..Len(s) /\ r[k] = s[i + k - 1]
    BY <1>1
  <2>2. {r[k] : k \in 1..Len(r)} \subseteq {s[k] : k \in i..Len(s)}
    BY <2>1
  <2>3. {s[k] : k \in i..Len(s)} \subseteq {r[k] : k \in 1..Len(r)}
    BY <1>3
  <2> QED
    BY <2>2, <2>3
<1>5. r # <<>> /\ Head(r) = s[i]
  BY <1>1
<1> QED
  BY <1>1, <1>2, <1>4, <1>5 DEF r

\* The positions of a walk are its first one and those of its tail.
LEMMA HeadAndTail ==
    ASSUME NEW S, NEW s \in Seq(S), s # <<>>
    PROVE  /\ Head(s) \in S
           /\ Tail(s) \in Seq(S)
           /\ ToSet(s) = {Head(s)} \cup ToSet(Tail(s))
<1> DEFINE t == Tail(s)
<1>1. /\ t \in Seq(S) /\ Head(s) = s[1] /\ Head(s) \in S
      /\ DOMAIN s = 1..Len(s) /\ DOMAIN t = 1..Len(t)
      /\ Len(s) = Len(t) + 1 /\ Len(t) \in Nat
      /\ \A k \in 1..Len(t) : t[k] = s[k + 1]
  OBVIOUS
<1> HIDE DEF t
<1>2. ToSet(s) = {s[k] : k \in 1..Len(s)} /\ ToSet(t) = {t[k] : k \in 1..Len(t)}
  BY <1>1 DEF ToSet
<1>3. ASSUME NEW k \in 1..Len(s)
      PROVE  s[k] \in {Head(s)} \cup {t[l] : l \in 1..Len(t)}
  <2>1. CASE k = 1
    BY <1>1, <2>1
  <2>2. CASE k # 1
    <3>1. k - 1 \in 1..Len(t) /\ t[k - 1] = s[k]
      BY <1>1, <2>2
    <3> QED
      BY <3>1
  <2> QED
    BY <2>1, <2>2
<1>4. Head(s) \in {s[k] : k \in 1..Len(s)}
  BY <1>1
<1>5. ASSUME NEW l \in 1..Len(t)
      PROVE  t[l] \in {s[k] : k \in 1..Len(s)}
  <2>1. l + 1 \in 1..Len(s) /\ t[l] = s[l + 1]
    BY <1>1
  <2> QED
    BY <2>1
<1>6. {s[k] : k \in 1..Len(s)} = {Head(s)} \cup {t[l] : l \in 1..Len(t)}
  BY <1>3, <1>4, <1>5
<1> QED
  BY <1>1, <1>2, <1>6 DEF t

\* A walk types its attempts.
LEMMA AttemptsTyped ==
    ASSUME NEW order \in Seq(Nat), NEW tried \in Seq(Attempt), NEW result \in Result
    PROVE  tried \o Visited(order, result) \in Seq(Attempt)
<1>1. Visited(order, result) \in Seq(Attempt)
  BY DEF Visited, Attempt
<1> QED
  BY <1>1

\* What the synchronous walk does: it starts a call on a position of the
\* chain, or it ends, and what it leaves behind is unhealthy either way.
LEMMA WalkEffect ==
    ASSUME TypeOK, HealthyStaysClosed,
           NEW c \in Call, NEW a \in Alias, NEW tried \in Seq(Attempt),
           NEW order \in Seq(Positions(a)),
           NoHealthyAmong(a, Positions(a) \ ToSet(order)),
           WalkOn(c, a, order, tried)
    PROVE  /\ \E t \in Seq(Attempt) : attempts' = [attempts EXCEPT ![c] = t]
           /\ \/ \E left \in Seq(Positions(a)) :
                    /\ left # <<>>
                    /\ NoHealthyAmong(a, Positions(a) \ ToSet(left))
                    /\ rest' = [rest EXCEPT ![c] = left]
                    /\ phase' = [phase EXCEPT ![c] = "waiting"]
                    /\ ChainOf[a][Head(left)] \in Provider
                    /\ Start(c, ChainOf[a][Head(left)])
              \/ /\ NoHealthyAmong(a, Positions(a))
                 /\ rest' = [rest EXCEPT ![c] = <<>>]
                 /\ phase' = [phase EXCEPT ![c] = "failed"]
                 /\ UNCHANGED cbVars
<1>0. /\ Positions(a) = 1..Len(ChainOf[a])
      /\ \A i \in Positions(a) : ChainOf[a][i] \in Provider
      /\ order \in Seq(Nat)
  BY DEF Positions
<1>1. ASSUME NEW j \in 1..Len(order), Refuses(a, order, j)
      PROVE  ChainOf[a][order[j]] \notin AlwaysUp
  BY <1>1 DEF Refuses, CanRequest, StateNow, CooldownElapsed, HealthyStaysClosed
<1>2. ASSUME NEW i \in 1..Len(order),
             \A j \in 1..i - 1 : Refuses(a, order, j),
             Start(c, ChainOf[a][order[i]]),
             phase' = [phase EXCEPT ![c] = "waiting"],
             rest' = [rest EXCEPT ![c] = SubSeq(order, i, Len(order))],
             attempts' = [attempts EXCEPT
                ![c] = tried \o Visited(SubSeq(order, 1, i - 1), "circuit-open")]
      PROVE  /\ \E t \in Seq(Attempt) : attempts' = [attempts EXCEPT ![c] = t]
             /\ \E left \in Seq(Positions(a)) :
                    /\ left # <<>>
                    /\ NoHealthyAmong(a, Positions(a) \ ToSet(left))
                    /\ rest' = [rest EXCEPT ![c] = left]
                    /\ phase' = [phase EXCEPT ![c] = "waiting"]
                    /\ ChainOf[a][Head(left)] \in Provider
                    /\ Start(c, ChainOf[a][Head(left)])
  <2> DEFINE left == SubSeq(order, i, Len(order))
  <2>1. /\ left \in Seq(Positions(a)) /\ left # <<>>
        /\ Head(left) = order[i]
        /\ ToSet(left) = {order[k] : k \in i..Len(order)}
    BY TailOfWalk
  <2>2. NoHealthyAmong(a, Positions(a) \ ToSet(left))
    <3> SUFFICES ASSUME NEW x \in Positions(a), x \notin ToSet(left)
                 PROVE  ChainOf[a][x] \notin AlwaysUp
      BY DEF NoHealthyAmong
    <3>1. CASE x \notin ToSet(order)
      BY <3>1 DEF NoHealthyAmong
    <3>2. CASE x \in ToSet(order)
      <4>1. PICK k \in 1..Len(order) : order[k] = x
        BY <3>2 DEF ToSet
      <4>2. k \in 1..i - 1
        BY <2>1, <4>1
      <4> QED
        BY <1>1, <1>2, <4>1, <4>2
    <3> QED
      BY <3>1, <3>2
  <2>3. SubSeq(order, 1, i - 1) \in Seq(Nat)
    BY <1>0
  <2>4. tried \o Visited(SubSeq(order, 1, i - 1), "circuit-open") \in Seq(Attempt)
    BY <2>3, AttemptsTyped DEF Result
  <2>5. order[i] \in Positions(a)
    OBVIOUS
  <2> QED
    BY <1>0, <1>2, <2>1, <2>2, <2>4, <2>5
<1>3. ASSUME \A j \in 1..Len(order) : Refuses(a, order, j),
             attempts' = [attempts EXCEPT ![c] = tried \o Visited(order, "circuit-open")]
      PROVE  /\ \E t \in Seq(Attempt) : attempts' = [attempts EXCEPT ![c] = t]
             /\ NoHealthyAmong(a, Positions(a))
  <2>1. tried \o Visited(order, "circuit-open") \in Seq(Attempt)
    BY <1>0, AttemptsTyped DEF Result
  <2>2. NoHealthyAmong(a, Positions(a))
    BY <1>1, <1>3 DEF NoHealthyAmong, ToSet
  <2> QED
    BY <1>3, <2>1, <2>2
<1> QED
  BY <1>2, <1>3 DEF WalkOn

\* A provider that never fails a call keeps its circuit closed.
LEMMA HealthyStep ==
    ASSUME TypeOK, HealthyStaysClosed, [Next]_cbVars,
           \A p \in AlwaysUp : upstream'[p] = "up"
    PROVE  HealthyStaysClosed'
<1> SUFFICES ASSUME NEW q \in AlwaysUp PROVE state'[q] = "closed"
  BY DEF HealthyStaysClosed
<1> USE DEF TypeOK, HealthyStaysClosed
<1>1. ASSUME NEW p \in Provider, Observe(p)
      PROVE  state'[q] = "closed"
  BY <1>1 DEF Observe, CooldownElapsed
<1>2. ASSUME NEW p \in Provider, NEW c \in Call, Start(c, p)
      PROVE  state'[q] = "closed"
  BY <1>2 DEF Start, StateNow, CooldownElapsed
<1>3. ASSUME NEW c \in Call, Succeed(c)
      PROVE  state'[q] = "closed"
  BY <1>3 DEF Succeed, RecordSuccess
<1>4. ASSUME NEW c \in Call, Fail(c)
      PROVE  state'[q] = "closed"
  BY <1>4 DEF Fail, RecordFailure
<1>5. CASE UNCHANGED state
  BY <1>5
<1> QED
  BY <1>1, <1>2, <1>3, <1>4, <1>5 DEF Next, Tick, UpstreamFlips, circuits, cbVars

-----------------------------------------------------------------------------

\* The invariant is initially true.
LEMMA RouteInvInit == RouteInit => RouteInv
<1> SUFFICES ASSUME RouteInit PROVE RouteInv
  OBVIOUS
<1>1. TypeOK
  BY TypeInit DEF RouteInit
<1>2. HealthyStaysClosed
  BY DEF RouteInit, Init, HealthyStaysClosed
<1>3. RouteTypeOK
  BY DEF RouteInit, RouteTypeOK, Phase, ToSet
<1>4. CallsMatch /\ LeftBehindUnhealthy
  BY DEF RouteInit, Init, CallsMatch, LeftBehindUnhealthy
<1> QED
  BY <1>1, <1>2, <1>3, <1>4 DEF RouteInv

\* A walk that request c of alias a makes over `order' keeps the invariant.
LEMMA WalkKeeps ==
    ASSUME RouteInv, NEW c \in Call, NEW a \in Alias, NEW tried \in Seq(Attempt),
           NEW order \in Seq(Positions(a)),
           NoHealthyAmong(a, Positions(a) \ ToSet(order)),
           WalkOn(c, a, order, tried),
           phase[c] # "waiting",
           alias' = [alias EXCEPT ![c] = a],
           cursor' \in [Alias -> Nat],
           \A b \in Alias : cursor'[b] < Len(ChainOf[b])
    PROVE  RouteInv' /\ [Next]_cbVars
<1> DEFINE starts(left) == /\ left # <<>>
                           /\ NoHealthyAmong(a, Positions(a) \ ToSet(left))
                           /\ rest' = [rest EXCEPT ![c] = left]
                           /\ phase' = [phase EXCEPT ![c] = "waiting"]
                           /\ ChainOf[a][Head(left)] \in Provider
                           /\ Start(c, ChainOf[a][Head(left)])
           ends == /\ NoHealthyAmong(a, Positions(a))
                   /\ rest' = [rest EXCEPT ![c] = <<>>]
                   /\ phase' = [phase EXCEPT ![c] = "failed"]
                   /\ UNCHANGED cbVars
<1>0. TypeOK /\ RouteTypeOK /\ CallsMatch /\ HealthyStaysClosed /\ LeftBehindUnhealthy
  BY DEF RouteInv
<1>1. /\ \E t \in Seq(Attempt) : attempts' = [attempts EXCEPT ![c] = t]
      /\ (\E left \in Seq(Positions(a)) : starts(left)) \/ ends
  BY <1>0, WalkEffect
<1>2. [Next]_cbVars
  BY <1>1 DEF Next
<1>3. target[c] = NoProvider /\ upstream' = upstream
  BY <1>0, <1>1 DEF CallsMatch, Start, cbVars
<1>4. TypeOK' /\ HealthyStaysClosed'
  <2>1. \A p \in AlwaysUp : upstream'[p] = "up"
    BY <1>0, <1>3 DEF HealthyStaysClosed
  <2> QED
    BY <1>0, <1>2, <2>1, TypeStep, HealthyStep
<1>5. \E left \in Seq(Positions(a)) : rest' = [rest EXCEPT ![c] = left]
  <2>1. <<>> \in Seq(Positions(a))
    OBVIOUS
  <2> QED
    BY <1>1, <2>1
<1>6. alias'[c] = a /\ Positions(a) \subseteq Nat
  BY <1>0 DEF RouteTypeOK, Positions
<1>7. RouteTypeOK'
  <2>1. phase' \in [Call -> Phase]
    BY <1>0, <1>1 DEF RouteTypeOK, Phase
  <2>2. alias' \in [Call -> Alias \cup {NoAlias}]
    BY <1>0 DEF RouteTypeOK
  <2>3. PICK left \in Seq(Positions(a)) : rest' = [rest EXCEPT ![c] = left]
    BY <1>5
  <2>4. left \in Seq(Nat)
    BY <1>6
  <2>5. rest' \in [Call -> Seq(Nat)]
    BY <1>0, <2>3, <2>4 DEF RouteTypeOK
  <2>6. attempts' \in [Call -> Seq(Attempt)]
    BY <1>0, <1>1 DEF RouteTypeOK, Attempt
  <2>7. ASSUME NEW d \in Call PROVE ToSet(rest'[d]) \subseteq Positions(alias'[d])
    <3>1. CASE d = c
      <4>1. rest'[d] = left /\ alias'[d] = a
        BY <1>0, <1>6, <2>3, <3>1 DEF RouteTypeOK
      <4> QED
        BY <4>1 DEF ToSet
    <3>2. CASE d # c
      <4>1. rest'[d] = rest[d] /\ alias'[d] = alias[d]
        BY <1>0, <2>3, <3>2 DEF RouteTypeOK
      <4> QED
        BY <1>0, <4>1 DEF RouteTypeOK
    <3> QED
      BY <3>1, <3>2
  <2> QED
    BY <2>1, <2>2, <2>5, <2>6, <2>7 DEF RouteTypeOK, Attempt
<1>8. ASSUME NEW d \in Call \ {c}
      PROVE  /\ phase'[d] = phase[d] /\ alias'[d] = alias[d]
             /\ rest'[d] = rest[d] /\ target'[d] = target[d]
  BY <1>0, <1>1 DEF RouteTypeOK, TypeOK, Start, cbVars
<1>9. CallsMatch' /\ LeftBehindUnhealthy'
  <2> SUFFICES ASSUME NEW d \in Call
               PROVE  /\ phase'[d] = "waiting" =>
                            /\ alias'[d] \in Alias
                            /\ rest'[d] # <<>>
                            /\ target'[d] = ChainOf[alias'[d]][Head(rest'[d])]
                      /\ phase'[d] = "rejected" => alias'[d] \in Alias
                      /\ phase'[d] # "waiting" => target'[d] = NoProvider
                      /\ phase'[d] \notin {"waiting", "rejected"} => rest'[d] = <<>>
                      /\ phase'[d] \in {"waiting", "rejected", "failed"} =>
                            NoHealthyAmong(alias'[d], Positions(alias'[d]) \ ToSet(rest'[d]))
    BY DEF CallsMatch, LeftBehindUnhealthy, NoHealthyAmong, Positions, ToSet
  <2>1. CASE d # c
    BY <1>0, <1>8, <2>1 DEF CallsMatch, LeftBehindUnhealthy
  <2>2. CASE d = c /\ \E left \in Seq(Positions(a)) : starts(left)
    <3>1. PICK left \in Seq(Positions(a)) : starts(left)
      BY <2>2
    <3>2. /\ phase'[c] = "waiting" /\ rest'[c] = left
          /\ target'[c] = ChainOf[a][Head(left)]
      BY <1>0, <3>1 DEF RouteTypeOK, TypeOK, Start
    <3> QED
      BY <1>6, <2>2, <3>1, <3>2
  <2>3. CASE d = c /\ ends
    <3>1. phase'[c] = "failed" /\ rest'[c] = <<>> /\ target'[c] = NoProvider
      BY <1>0, <1>3, <2>3 DEF RouteTypeOK, cbVars
    <3> QED
      BY <1>6, <2>3, <3>1 DEF NoHealthyAmong
  <2> QED
    BY <1>1, <2>1, <2>2, <2>3
<1> QED
  BY <1>2, <1>4, <1>7, <1>9 DEF RouteInv

\* A step in which request c stops waiting: its call settles and leaves.
LEMMA SettleKeeps ==
    ASSUME RouteInv, NEW c \in Call, NEW newPhase \in {"ok", "rejected"},
           Answer(c) \/ Reject(c),
           phase' = [phase EXCEPT ![c] = newPhase],
           newPhase = "rejected" => Reject(c),
           newPhase = "ok" => Answer(c)
    PROVE  RouteInv'
<1>0. TypeOK /\ RouteTypeOK /\ CallsMatch /\ HealthyStaysClosed /\ LeftBehindUnhealthy
  BY DEF RouteInv
<1>1. /\ target[c] # NoProvider
      /\ target' = [target EXCEPT ![c] = NoProvider]
      /\ UNCHANGED <<upstream, alias, cursor>>
  BY DEF Answer, Reject, Succeed, Fail, Release
<1>2. /\ phase[c] = "waiting" /\ alias[c] \in Alias /\ rest[c] # <<>>
      /\ target[c] = ChainOf[alias[c]][Head(rest[c])]
  BY <1>0, <1>1 DEF CallsMatch
<1>3. TypeOK' /\ HealthyStaysClosed'
  <2>1. [Next]_cbVars
    BY DEF Answer, Reject, Next
  <2>2. \A p \in AlwaysUp : upstream'[p] = "up"
    BY <1>0, <1>1 DEF HealthyStaysClosed
  <2> QED
    BY <1>0, <2>1, <2>2, TypeStep, HealthyStep
<1>4. /\ rest[c] \in Seq(Nat) /\ Head(rest[c]) \in Nat
      /\ Tail(rest[c]) \in Seq(Nat)
      /\ ToSet(rest[c]) = {Head(rest[c])} \cup ToSet(Tail(rest[c]))
      /\ ToSet(rest[c]) \subseteq Positions(alias[c])
  <2>1. rest[c] \in Seq(Nat) /\ ToSet(rest[c]) \subseteq Positions(alias[c])
    BY <1>0 DEF RouteTypeOK
  <2>2. rest[c] # <<>>
    BY <1>2
  <2> QED
    BY <2>1, <2>2, HeadAndTail
<1>5. \/ newPhase = "ok" /\ rest' = [rest EXCEPT ![c] = <<>>]
      \/ newPhase = "rejected" /\ rest' = [rest EXCEPT ![c] = Tail(rest[c])]
  BY DEF Answer, Reject
<1>6. RouteTypeOK'
  <2>1. phase' \in [Call -> Phase]
    BY <1>0 DEF RouteTypeOK, Phase
  <2>2. rest' \in [Call -> Seq(Nat)]
    <3>1. <<>> \in Seq(Nat) /\ Tail(rest[c]) \in Seq(Nat) /\ rest \in [Call -> Seq(Nat)]
      BY <1>0, <1>4 DEF RouteTypeOK
    <3>2. \E s \in Seq(Nat) : rest' = [rest EXCEPT ![c] = s]
      BY <1>5, <3>1
    <3> QED
      BY <3>1, <3>2
  <2>3. attempts' \in [Call -> Seq(Attempt)]
    <3>1. ASSUME NEW result \in Result
          PROVE  AttemptResult(c, result) \in Seq(Attempt)
      <4>1. attempts[c] \in Seq(Attempt)
        BY <1>0 DEF RouteTypeOK, Attempt
      <4>2. [position |-> Head(rest[c]), result |-> result] \in Attempt
        BY <1>4 DEF Attempt
      <4> QED
        BY <4>1, <4>2 DEF AttemptResult
    <3>2. \E result \in Result :
              attempts' = [attempts EXCEPT ![c] = AttemptResult(c, result)]
      BY DEF Answer, Reject, Result
    <3> QED
      BY <1>0, <3>1, <3>2 DEF RouteTypeOK, Attempt
  <2>4. ASSUME NEW d \in Call
        PROVE  ToSet(rest'[d]) \subseteq Positions(alias'[d])
    <3>1. CASE d # c
      BY <1>0, <1>1, <1>5, <3>1 DEF RouteTypeOK
    <3>2. CASE d = c
      <4>1. ToSet(rest'[c]) \subseteq ToSet(rest[c])
        <5>1. ToSet(<<>>) = {}
          BY DEF ToSet
        <5> QED
          BY <1>0, <1>4, <1>5, <5>1 DEF RouteTypeOK
      <4> QED
        BY <1>1, <1>4, <3>2, <4>1
    <3> QED
      BY <3>1, <3>2
  <2> QED
    BY <1>0, <1>1, <2>1, <2>2, <2>3, <2>4 DEF RouteTypeOK, Attempt
<1>7. CallsMatch'
  BY <1>0, <1>1, <1>2, <1>5 DEF CallsMatch, RouteTypeOK, TypeOK
<1>8. LeftBehindUnhealthy'
  <2> SUFFICES ASSUME NEW d \in Call, phase'[d] \in {"waiting", "rejected", "failed"}
               PROVE  NoHealthyAmong(alias'[d], Positions(alias'[d]) \ ToSet(rest'[d]))
    BY DEF LeftBehindUnhealthy, NoHealthyAmong, Positions, ToSet
  <2>1. CASE d # c
    BY <1>0, <1>1, <1>5, <2>1 DEF LeftBehindUnhealthy, RouteTypeOK
  <2>2. CASE d = c
    <3>1. newPhase = "rejected" /\ rest'[c] = Tail(rest[c])
      BY <1>0, <1>5, <2>2 DEF RouteTypeOK
    <3>2. upstream[target[c]] = "down"
      BY <3>1 DEF Reject, Fail
    <3>3. ChainOf[alias[c]][Head(rest[c])] \notin AlwaysUp
      BY <1>0, <1>2, <3>2 DEF HealthyStaysClosed
    <3>4. NoHealthyAmong(alias[c], Positions(alias[c]) \ ToSet(rest[c]))
      BY <1>0, <1>2 DEF LeftBehindUnhealthy
    <3> QED
      BY <1>1, <1>4, <2>2, <3>1, <3>3, <3>4 DEF NoHealthyAmong
  <2> QED
    BY <2>1, <2>2
<1> QED
  BY <1>3, <1>6, <1>7, <1>8 DEF RouteInv

\* A step that leaves requests alone keeps the invariant.
LEMMA BackgroundKeeps ==
    ASSUME RouteInv, [Next]_cbVars, UNCHANGED <<walk, cursor, target>>,
           \A p \in AlwaysUp : upstream'[p] = "up"
    PROVE  RouteInv'
<1>1. TypeOK' /\ HealthyStaysClosed'
  BY TypeStep, HealthyStep DEF RouteInv
<1>2. /\ phase' = phase /\ alias' = alias /\ rest' = rest
      /\ attempts' = attempts /\ cursor' = cursor /\ target' = target
  BY DEF walk
<1>3. RouteTypeOK'
  <2>1. RouteTypeOK
    BY DEF RouteInv
  <2>2. \A c \in Call : ToSet(rest'[c]) \subseteq Positions(alias'[c])
    BY <1>2, <2>1 DEF RouteTypeOK
  <2> QED
    BY <1>2, <2>1, <2>2 DEF RouteTypeOK
<1>4. CallsMatch'
  BY <1>2 DEF RouteInv, CallsMatch
<1>5. LeftBehindUnhealthy'
  BY <1>2 DEF RouteInv, LeftBehindUnhealthy, NoHealthyAmong, Positions, ToSet
<1> QED
  BY <1>1, <1>3, <1>4, <1>5 DEF RouteInv

\* Every step of routing is a step of the breaker and keeps the invariant.
LEMMA RouteStep ==
    ASSUME RouteInv, [RouteNext]_routeVars
    PROVE  RouteInv' /\ [Next]_cbVars
<1>0. TypeOK /\ RouteTypeOK /\ CallsMatch /\ HealthyStaysClosed /\ LeftBehindUnhealthy
  BY DEF RouteInv
<1>a. \A p \in AlwaysUp : upstream[p] = "up"
  BY <1>0 DEF HealthyStaysClosed
<1>1. ASSUME NEW c \in Call, NEW a \in Alias, Route(c, a)
      PROVE  RouteInv' /\ [Next]_cbVars
  <2>1. PICK order \in PickOrder(a) : WalkOn(c, a, order, <<>>)
    BY <1>1 DEF Route
  <2>2. order \in Seq(Positions(a)) /\ ToSet(order) = Positions(a)
    BY <1>0, PickOrderCovers
  <2>3. NoHealthyAmong(a, Positions(a) \ ToSet(order))
    BY <2>2 DEF NoHealthyAmong
  <2>4. /\ phase[c] # "waiting"
        /\ alias' = [alias EXCEPT ![c] = a]
        /\ cursor' = CursorAfter(a)
    BY <1>1 DEF Route
  <2>5. /\ CursorAfter(a) \in [Alias -> Nat]
        /\ \A b \in Alias : CursorAfter(a)[b] < Len(ChainOf[b])
    <3>1. Len(ChainOf[a]) \in Nat \ {0}
      OBVIOUS
    <3>2. /\ (cursor[a] + 1) % Len(ChainOf[a]) \in Nat
          /\ (cursor[a] + 1) % Len(ChainOf[a]) < Len(ChainOf[a])
      BY <1>0, <3>1 DEF RouteTypeOK
    <3> QED
      BY <1>0, <3>2 DEF RouteTypeOK, CursorAfter
  <2>6. <<>> \in Seq(Attempt)
    OBVIOUS
  <2> QED
    BY <2>1, <2>2, <2>3, <2>4, <2>5, <2>6, WalkKeeps
<1>2. ASSUME NEW c \in Call, Answer(c)
      PROVE  RouteInv' /\ [Next]_cbVars
  BY <1>2, SettleKeeps DEF Answer, Next
<1>3. ASSUME NEW c \in Call, Reject(c)
      PROVE  RouteInv' /\ [Next]_cbVars
  BY <1>3, SettleKeeps DEF Reject, Next
<1>4. ASSUME NEW c \in Call, Resume(c)
      PROVE  RouteInv' /\ [Next]_cbVars
  <2>1. /\ phase[c] = "rejected" /\ alias[c] \in Alias
        /\ WalkOn(c, alias[c], rest[c], attempts[c])
        /\ alias' = alias /\ cursor' = cursor
    BY <1>0, <1>4 DEF Resume, CallsMatch
  <2>2. alias' = [alias EXCEPT ![c] = alias[c]]
    BY <1>0, <2>1 DEF RouteTypeOK
  <2>3. rest[c] \in Seq(Positions(alias[c]))
    <3>1. rest[c] \in Seq(Nat) /\ ToSet(rest[c]) \subseteq Positions(alias[c])
      BY <1>0 DEF RouteTypeOK
    <3>2. \A k \in 1..Len(rest[c]) : rest[c][k] \in Positions(alias[c])
      BY <3>1 DEF ToSet
    <3> QED
      BY <3>1, <3>2
  <2>4. NoHealthyAmong(alias[c], Positions(alias[c]) \ ToSet(rest[c]))
    BY <1>0, <2>1 DEF LeftBehindUnhealthy
  <2>5. attempts[c] \in Seq(Attempt)
    BY <1>0 DEF RouteTypeOK, Attempt
  <2>6. cursor' \in [Alias -> Nat] /\ \A b \in Alias : cursor'[b] < Len(ChainOf[b])
    BY <1>0, <2>1 DEF RouteTypeOK
  <2> QED
    BY <2>1, <2>2, <2>3, <2>4, <2>5, <2>6, WalkKeeps
<1>5. ASSUME NEW c \in Call, Leave(c)
      PROVE  RouteInv' /\ [Next]_cbVars
  <2>1. UNCHANGED cbVars
    BY <1>5 DEF Leave
  <2>2. TypeOK' /\ HealthyStaysClosed'
    BY <1>0, <1>a, <2>1, TypeStep, HealthyStep DEF cbVars
  <2>3. /\ phase[c] \in {"ok", "failed"} /\ rest[c] = <<>>
        /\ phase' = [phase EXCEPT ![c] = "idle"]
        /\ alias' = [alias EXCEPT ![c] = NoAlias]
        /\ attempts' = [attempts EXCEPT ![c] = <<>>]
        /\ rest' = rest /\ cursor' = cursor /\ target' = target
    BY <1>0, <1>5 DEF Leave, CallsMatch, cbVars
  <2>4. RouteTypeOK'
    <3>1. phase' \in [Call -> Phase] /\ alias' \in [Call -> Alias \cup {NoAlias}]
      BY <1>0, <2>3 DEF RouteTypeOK, Phase
    <3>2. attempts' \in [Call -> Seq(Attempt)]
      <4>1. <<>> \in Seq(Attempt)
        OBVIOUS
      <4> QED
        BY <1>0, <2>3, <4>1 DEF RouteTypeOK, Attempt
    <3>3. ASSUME NEW d \in Call PROVE ToSet(rest'[d]) \subseteq Positions(alias'[d])
      <4>1. CASE d = c
        BY <2>3, <4>1 DEF ToSet
      <4>2. CASE d # c
        BY <1>0, <2>3, <4>2 DEF RouteTypeOK
      <4> QED
        BY <4>1, <4>2
    <3> QED
      BY <1>0, <2>3, <3>1, <3>2, <3>3 DEF RouteTypeOK, Attempt
  <2>5. CallsMatch'
    BY <1>0, <2>3 DEF CallsMatch, RouteTypeOK
  <2>6. LeftBehindUnhealthy'
    <3> SUFFICES ASSUME NEW d \in Call, phase'[d] \in {"waiting", "rejected", "failed"}
                 PROVE  NoHealthyAmong(alias'[d], Positions(alias'[d]) \ ToSet(rest'[d]))
      BY DEF LeftBehindUnhealthy, NoHealthyAmong, Positions, ToSet
    <3>1. d # c
      BY <1>0, <2>3 DEF RouteTypeOK
    <3> QED
      BY <1>0, <2>3, <3>1 DEF LeftBehindUnhealthy, RouteTypeOK
  <2> QED
    BY <2>1, <2>2, <2>4, <2>5, <2>6 DEF RouteInv
<1>6. CASE Elapse
  <2>1. Tick /\ UNCHANGED <<walk, cursor>>
    BY <1>6 DEF Elapse
  <2>2. [Next]_cbVars /\ UNCHANGED <<upstream, target>>
    BY <2>1 DEF Next, Tick
  <2> QED
    BY <1>a, <2>1, <2>2, BackgroundKeeps
<1>7. ASSUME NEW p \in Provider, HealthProbe(p)
      PROVE  RouteInv' /\ [Next]_cbVars
  <2>1. Observe(p) /\ UNCHANGED <<walk, cursor>>
    BY <1>7 DEF HealthProbe
  <2>2. [Next]_cbVars /\ UNCHANGED <<upstream, target>>
    BY <2>1 DEF Next, Observe
  <2> QED
    BY <1>a, <2>1, <2>2, BackgroundKeeps
<1>8. ASSUME NEW p \in Provider, ProviderFlips(p)
      PROVE  RouteInv' /\ [Next]_cbVars
  <2>1. p \notin AlwaysUp /\ UpstreamFlips(p) /\ UNCHANGED <<walk, cursor>>
    BY <1>8 DEF ProviderFlips
  <2>2. [Next]_cbVars /\ UNCHANGED target
    BY <2>1 DEF Next, UpstreamFlips, calls
  <2>3. \A q \in AlwaysUp : upstream'[q] = "up"
    BY <1>0, <1>a, <2>1 DEF UpstreamFlips, TypeOK
  <2> QED
    BY <2>1, <2>2, <2>3, BackgroundKeeps
<1>9. CASE UNCHANGED routeVars
  <2>1. UNCHANGED <<cbVars, walk, cursor>>
    BY <1>9 DEF routeVars, walk
  <2>2. [Next]_cbVars /\ UNCHANGED <<upstream, target>>
    BY <2>1 DEF cbVars
  <2> QED
    BY <1>a, <2>1, <2>2, BackgroundKeeps
<1> QED
  BY <1>1, <1>2, <1>3, <1>4, <1>5, <1>6, <1>7, <1>8, <1>9 DEF RouteNext

-----------------------------------------------------------------------------
(* The report of a failed walk                                              *)

\* The positions a list of attempts names.
Reported(t) == {t[k].position : k \in DOMAIN t}

\* What was tried and what is left make up the chain, and nothing twice.
Accounts(a, t, left) ==
    /\ Len(t) + Len(left) = Len(ChainOf[a])
    /\ Reported(t) \cup ToSet(left) = Positions(a)

\* Until a request is answered its attempts account for what it has visited.
Accounted ==
    \A c \in Call : phase[c] \in {"waiting", "rejected", "failed"} =>
        Accounts(alias[c], attempts[c], rest[c])

\* Every strategy orders as many positions as the chain has.
LEMMA PickOrderLength ==
    ASSUME RouteTypeOK, NEW a \in Alias, NEW order \in PickOrder(a)
    PROVE  Len(order) = Len(ChainOf[a])
<1> DEFINE n == Len(ChainOf[a])
<1>1. n \in Nat \ {0} /\ Positions(a) = 1..n
  BY DEF Positions
<1> HIDE DEF n
<1>2. ASSUME NEW f \in [1..n -> Nat] PROVE Len(f) = n
  BY <1>1
<1>3. CASE n = 1 /\ order = <<1>>
  BY <1>3 DEF n
<1>4. CASE order \in ByPriority(a)
  <2>1. order \in [1..n -> 1..n]
    BY <1>1, <1>4 DEF ByPriority, Bijection, Injection
  <2>2. order \in [1..n -> Nat]
    BY <1>1, <2>1
  <2> QED
    BY <1>2, <2>2 DEF n
<1>5. CASE \E start \in 0..n - 1 : order = WalkForwardFrom(start, n)
  <2>1. order \in [1..n -> Nat]
    BY <1>1, <1>5 DEF WalkForwardFrom
  <2> QED
    BY <1>2, <2>1 DEF n
<1> QED
  <2>1. cursor[a] \in 0..n - 1 /\ 0 \in 0..n - 1
    BY <1>1 DEF RouteTypeOK, n
  <2> QED
    BY <1>1, <1>3, <1>4, <1>5, <2>1 DEF PickOrder, n

\* Visiting positions adds one attempt for each.
LEMMA VisitedAdds ==
    ASSUME NEW order \in Seq(Nat), NEW tried \in Seq(Attempt), NEW result \in Result
    PROVE  LET t == tried \o Visited(order, result)
           IN  /\ t \in Seq(Attempt)
               /\ Len(t) = Len(tried) + Len(order)
               /\ Reported(t) = Reported(tried) \cup ToSet(order)
<1> DEFINE v == Visited(order, result)
           t == tried \o v
<1>1. /\ v \in Seq(Attempt) /\ Len(v) = Len(order)
      /\ \A k \in 1..Len(order) : v[k].position = order[k]
  BY DEF Visited, Attempt
<1> HIDE DEF v
<1>2. /\ t \in Seq(Attempt) /\ Len(t) = Len(tried) + Len(order)
      /\ DOMAIN t = 1..Len(t) /\ DOMAIN tried = 1..Len(tried)
      /\ DOMAIN order = 1..Len(order)
      /\ Len(tried) \in Nat /\ Len(order) \in Nat
      /\ \A k \in 1..Len(tried) : t[k] = tried[k]
      /\ \A k \in 1..Len(order) : t[Len(tried) + k] = v[k]
  <2>1. Len(tried) \in Nat /\ Len(order) \in Nat
    OBVIOUS
  <2>2. /\ t \in Seq(Attempt) /\ Len(t) = Len(tried) + Len(v)
        /\ \A k \in 1..Len(tried) : t[k] = tried[k]
        /\ \A k \in 1..Len(v) : t[Len(tried) + k] = v[k]
    <3>1. tried \in Seq(Attempt) /\ v \in Seq(Attempt)
      BY <1>1
    <3> QED
      BY ONLY <3>1, Concatenation
  <2>3. /\ DOMAIN t = 1..Len(t) /\ DOMAIN tried = 1..Len(tried)
        /\ DOMAIN order = 1..Len(order)
    BY <2>2
  <2> HIDE DEF t
  <2> QED
    BY <1>1, <2>1, <2>2, <2>3
<1> HIDE DEF t
<1>3. ASSUME NEW k \in DOMAIN t
      PROVE  t[k].position \in Reported(tried) \cup ToSet(order)
  <2>1. CASE k \in 1..Len(tried)
    BY <1>2, <2>1 DEF Reported
  <2>2. CASE k \notin 1..Len(tried)
    <3>1. k - Len(tried) \in 1..Len(order) /\ k = Len(tried) + (k - Len(tried))
      BY <1>2, <2>2
    <3>2. t[k].position = order[k - Len(tried)]
      BY <1>1, <1>2, <3>1
    <3> QED
      BY <1>2, <3>1, <3>2 DEF ToSet
  <2> QED
    BY <2>1, <2>2
<1>4. ASSUME NEW k \in DOMAIN tried
      PROVE  tried[k].position \in Reported(t)
  <2>1. k \in DOMAIN t /\ t[k] = tried[k]
    BY <1>2
  <2> QED
    BY <2>1 DEF Reported
<1>5. ASSUME NEW k \in DOMAIN order
      PROVE  order[k] \in Reported(t)
  <2>1. k \in 1..Len(order) /\ Len(tried) + k \in 1..Len(t)
    BY <1>2
  <2>2. t[Len(tried) + k].position = order[k]
    BY <1>1, <1>2, <2>1, Zenon
  <2> QED
    BY <1>2, <2>1, <2>2 DEF Reported
<1>6. Reported(t) = Reported(tried) \cup ToSet(order)
  <2>1. Reported(t) \subseteq Reported(tried) \cup ToSet(order)
    BY <1>3 DEF Reported
  <2>2. Reported(tried) \subseteq Reported(t) /\ ToSet(order) \subseteq Reported(t)
    BY <1>4, <1>5 DEF Reported, ToSet
  <2> QED
    BY <2>1, <2>2
<1> QED
  BY <1>2, <1>6 DEF t, v

\* A walk is what comes before its i-th position and what comes from there on.
LEMMA SplitOfWalk ==
    ASSUME NEW s \in Seq(Nat), NEW i \in 1..Len(s)
    PROVE  LET before == SubSeq(s, 1, i - 1)
               from == SubSeq(s, i, Len(s))
           IN  /\ before \in Seq(Nat) /\ from \in Seq(Nat)
               /\ Len(before) + Len(from) = Len(s)
               /\ ToSet(before) \cup ToSet(from) = ToSet(s)
<1> DEFINE before == SubSeq(s, 1, i - 1)
           from == SubSeq(s, i, Len(s))
<1>1. /\ before \in Seq(Nat) /\ Len(before) = i - 1 /\ DOMAIN before = 1..i - 1
      /\ \A k \in 1..i - 1 : before[k] = s[k]
      /\ DOMAIN s = 1..Len(s) /\ Len(s) \in Nat
  OBVIOUS
<1>2. from \in Seq(Nat) /\ Len(from) = Len(s) - i + 1
  OBVIOUS
<1>3. ToSet(from) = {s[k] : k \in i..Len(s)}
  BY TailOfWalk
<1> HIDE DEF before, from
<1>4. ToSet(before) = {s[k] : k \in 1..i - 1}
  BY <1>1 DEF ToSet
<1>5. {s[k] : k \in 1..i - 1} \cup {s[k] : k \in i..Len(s)} = {s[k] : k \in 1..Len(s)}
  BY <1>1
<1>6. ToSet(before) \cup ToSet(from) = ToSet(s)
  BY <1>1, <1>3, <1>4, <1>5 DEF ToSet
<1>7. Len(before) + Len(from) = Len(s)
  BY <1>1, <1>2
<1> QED
  BY <1>1, <1>2, <1>6, <1>7 DEF before, from

\* The synchronous walk keeps the account of the request that makes it.
LEMMA WalkAccounts ==
    ASSUME NEW c \in Call, NEW a \in Alias, NEW tried \in Seq(Attempt),
           NEW order \in Seq(Nat), Accounts(a, tried, order),
           WalkOn(c, a, order, tried)
    PROVE  \E t \in Seq(Attempt), left \in Seq(Nat), now \in Phase :
              /\ Accounts(a, t, left)
              /\ attempts' = [attempts EXCEPT ![c] = t]
              /\ rest' = [rest EXCEPT ![c] = left]
              /\ phase' = [phase EXCEPT ![c] = now]
<1>1. "circuit-open" \in Result /\ "waiting" \in Phase /\ "failed" \in Phase
  BY DEF Result, Phase
<1>2. Len(tried) \in Nat /\ Len(order) \in Nat
  OBVIOUS
<1>3. ASSUME NEW i \in 1..Len(order)
      PROVE  LET t == tried \o Visited(SubSeq(order, 1, i - 1), "circuit-open")
                 left == SubSeq(order, i, Len(order))
             IN  t \in Seq(Attempt) /\ left \in Seq(Nat) /\ Accounts(a, t, left)
  <2> DEFINE before == SubSeq(order, 1, i - 1)
             left == SubSeq(order, i, Len(order))
             t == tried \o Visited(before, "circuit-open")
  <2>1. /\ before \in Seq(Nat) /\ left \in Seq(Nat)
        /\ Len(before) + Len(left) = Len(order)
        /\ ToSet(before) \cup ToSet(left) = ToSet(order)
    BY SplitOfWalk
  <2> HIDE DEF before, left
  <2>2. /\ t \in Seq(Attempt) /\ Len(t) = Len(tried) + Len(before)
        /\ Reported(t) = Reported(tried) \cup ToSet(before)
    BY <1>1, <2>1, VisitedAdds
  <2>3. Len(before) \in Nat /\ Len(left) \in Nat
    BY <2>1
  <2> HIDE DEF t
  <2>4. Len(t) + Len(left) = Len(ChainOf[a])
    <3>1. Len(tried) + Len(order) = Len(ChainOf[a])
      BY DEF Accounts
    <3>2. Len(t) + Len(left) = Len(tried) + (Len(before) + Len(left))
      BY <1>2, <2>2, <2>3
    <3> QED
      BY <2>1, <3>1, <3>2
  <2>5. Reported(t) \cup ToSet(left) = Positions(a)
    <3>1. Reported(tried) \cup ToSet(order) = Positions(a)
      BY DEF Accounts
    <3> QED
      BY <2>1, <2>2, <3>1, Zenon
  <2> QED
    BY <2>1, <2>2, <2>4, <2>5 DEF Accounts, t, before, left
<1>4. LET t == tried \o Visited(order, "circuit-open")
      IN  t \in Seq(Attempt) /\ Accounts(a, t, <<>>)
  <2> DEFINE t == tried \o Visited(order, "circuit-open")
  <2>1. /\ t \in Seq(Attempt) /\ Len(t) = Len(tried) + Len(order)
        /\ Reported(t) = Reported(tried) \cup ToSet(order)
    BY <1>1, VisitedAdds
  <2>2. Len(<<>>) = 0 /\ ToSet(<<>>) = {}
    BY DEF ToSet
  <2> HIDE DEF t
  <2>3. Accounts(a, t, <<>>)
    BY <1>2, <2>1, <2>2 DEF Accounts
  <2> QED
    BY <2>1, <2>3 DEF t
<1>5. <<>> \in Seq(Nat)
  OBVIOUS
<1> QED
  BY <1>1, <1>3, <1>4, <1>5 DEF WalkOn

\* A request whose own record a step replaces by one that accounts for its
\* chain, the records of the others being left alone.
LEMMA OneRecord ==
    ASSUME RouteTypeOK, Accounted, NEW c \in Call, NEW a \in Alias,
           NEW t, NEW left, NEW now,
           Accounts(a, t, left) \/ now \notin {"waiting", "rejected", "failed"},
           alias'[c] = a,
           \A d \in Call \ {c} : alias'[d] = alias[d],
           attempts' = [attempts EXCEPT ![c] = t],
           rest' = [rest EXCEPT ![c] = left],
           phase' = [phase EXCEPT ![c] = now]
    PROVE  Accounted'
<1> SUFFICES ASSUME NEW d \in Call, phase'[d] \in {"waiting", "rejected", "failed"}
             PROVE  Accounts(alias'[d], attempts'[d], rest'[d])
  BY DEF Accounted, Accounts, Reported, Positions, ToSet
<1>1. CASE d = c
  <2>1. attempts'[c] = t /\ rest'[c] = left /\ phase'[c] = now
    BY DEF RouteTypeOK
  <2> QED
    BY <1>1, <2>1
<1>2. CASE d # c
  <2>1. /\ attempts'[d] = attempts[d] /\ rest'[d] = rest[d]
        /\ phase'[d] = phase[d] /\ alias'[d] = alias[d]
    BY <1>2 DEF RouteTypeOK
  <2> QED
    BY <2>1 DEF Accounted
<1> QED
  BY <1>1, <1>2

\* Every step keeps the accounts.
LEMMA AccountStep ==
    ASSUME RouteInv, Accounted, [RouteNext]_routeVars
    PROVE  Accounted'
<1>0. RouteTypeOK /\ CallsMatch
  BY DEF RouteInv
<1>1. ASSUME NEW c \in Call, NEW a \in Alias, Route(c, a)
      PROVE  Accounted'
  <2>1. PICK order \in PickOrder(a) : WalkOn(c, a, order, <<>>)
    BY <1>1 DEF Route
  <2>2. order \in Seq(Positions(a)) /\ ToSet(order) = Positions(a)
    BY <1>0, PickOrderCovers
  <2>3. order \in Seq(Nat) /\ Len(order) = Len(ChainOf[a])
    BY <1>0, <2>2, PickOrderLength DEF Positions
  <2>4. /\ <<>> \in Seq(Attempt) /\ Len(<<>>) = 0 /\ Reported(<<>>) = {}
    BY DEF Reported
  <2>5. Accounts(a, <<>>, order)
    BY <2>2, <2>3, <2>4 DEF Accounts
  <2>6. PICK t \in Seq(Attempt), left \in Seq(Nat), now \in Phase :
              /\ Accounts(a, t, left)
              /\ attempts' = [attempts EXCEPT ![c] = t]
              /\ rest' = [rest EXCEPT ![c] = left]
              /\ phase' = [phase EXCEPT ![c] = now]
    BY <2>1, <2>3, <2>4, <2>5, WalkAccounts
  <2>7. alias'[c] = a /\ \A d \in Call \ {c} : alias'[d] = alias[d]
    BY <1>0, <1>1 DEF Route, RouteTypeOK
  <2> QED
    BY <1>0, <2>6, <2>7, OneRecord
<1>2. ASSUME NEW c \in Call, Answer(c)
      PROVE  Accounted'
  <2>1. target[c] # NoProvider
    BY <1>2 DEF Answer, Succeed, Release
  <2>2. alias[c] \in Alias /\ alias' = alias
    BY <1>0, <1>2, <2>1 DEF CallsMatch, Answer
  <2>3. /\ attempts' = [attempts EXCEPT ![c] = AttemptResult(c, "ok")]
        /\ rest' = [rest EXCEPT ![c] = <<>>]
        /\ phase' = [phase EXCEPT ![c] = "ok"]
    BY <1>2 DEF Answer
  <2> QED
    BY <1>0, <2>2, <2>3, OneRecord
<1>3. ASSUME NEW c \in Call, Reject(c)
      PROVE  Accounted'
  <2> DEFINE t == AttemptResult(c, "error")
             left == Tail(rest[c])
  <2>1. target[c] # NoProvider
    BY <1>3 DEF Reject, Fail, Release
  <2>2. alias[c] \in Alias /\ alias' = alias /\ rest[c] # <<>> /\ phase[c] = "waiting"
    BY <1>0, <1>3, <2>1 DEF CallsMatch, Reject
  <2>3. rest[c] \in Seq(Nat) /\ attempts[c] \in Seq(Attempt)
    BY <1>0 DEF RouteTypeOK, Attempt
  <2>4. /\ Head(rest[c]) \in Nat /\ left \in Seq(Nat)
        /\ Len(rest[c]) = Len(left) + 1 /\ Len(left) \in Nat
        /\ ToSet(rest[c]) = {Head(rest[c])} \cup ToSet(left)
    BY <2>2, <2>3, HeadAndTail
  <2>5. t = attempts[c] \o Visited(<<Head(rest[c])>>, "error")
    <3>1. Visited(<<Head(rest[c])>>, "error")
              = <<[position |-> Head(rest[c]), result |-> "error"]>>
      BY DEF Visited
    <3>2. [position |-> Head(rest[c]), result |-> "error"] \in Attempt
      BY <2>4 DEF Attempt, Result
    <3> QED
      BY <2>3, <3>1, <3>2, AppendIsConcat DEF AttemptResult
  <2>6. /\ Len(t) = Len(attempts[c]) + 1 /\ Len(attempts[c]) \in Nat
        /\ Reported(t) = Reported(attempts[c]) \cup {Head(rest[c])}
    <3>1. <<Head(rest[c])>> \in Seq(Nat) /\ Len(<<Head(rest[c])>>) = 1
      BY <2>4
    <3>2. ToSet(<<Head(rest[c])>>) = {Head(rest[c])}
      BY DEF ToSet
    <3>3. "error" \in Result /\ Len(attempts[c]) \in Nat
      BY <2>3 DEF Result
    <3> HIDE DEF t
    <3>4. /\ Len(t) = Len(attempts[c]) + Len(<<Head(rest[c])>>)
          /\ Reported(t) = Reported(attempts[c]) \cup ToSet(<<Head(rest[c])>>)
      BY <2>3, <2>5, <3>1, <3>3, VisitedAdds, Zenon
    <3> QED
      BY <3>1, <3>2, <3>3, <3>4
  <2>7. Accounts(alias[c], attempts[c], rest[c])
    BY <2>2 DEF Accounted
  <2>8. /\ attempts' = [attempts EXCEPT ![c] = t]
        /\ rest' = [rest EXCEPT ![c] = left]
        /\ phase' = [phase EXCEPT ![c] = "rejected"]
    BY <1>3 DEF Reject
  <2> HIDE DEF t, left
  <2>9. Len(t) + Len(left) = Len(ChainOf[alias[c]])
    <3>1. Len(attempts[c]) + Len(rest[c]) = Len(ChainOf[alias[c]])
      BY <2>7 DEF Accounts
    <3>2. Len(rest[c]) = Len(left) + 1 /\ Len(left) \in Nat
      BY <2>4
    <3>3. Len(t) = Len(attempts[c]) + 1 /\ Len(attempts[c]) \in Nat
      BY <2>6
    <3>4. \A x, y \in Nat : (x + 1) + y = x + (y + 1)
      OBVIOUS
    <3>5. (Len(attempts[c]) + 1) + Len(left) = Len(attempts[c]) + (Len(left) + 1)
      BY <3>2, <3>3, <3>4, Zenon
    <3> QED
      BY <3>1, <3>2, <3>3, <3>5, Zenon
  <2>10. Reported(t) \cup ToSet(left) = Positions(alias[c])
    <3>1. Reported(attempts[c]) \cup ToSet(rest[c]) = Positions(alias[c])
      BY <2>7 DEF Accounts
    <3> QED
      BY <2>4, <2>6, <3>1, Zenon
  <2>11. Accounts(alias[c], t, left)
    BY <2>9, <2>10 DEF Accounts
  <2> QED
    BY <1>0, <2>2, <2>8, <2>11, OneRecord
<1>4. ASSUME NEW c \in Call, Resume(c)
      PROVE  Accounted'
  <2>1. /\ phase[c] = "rejected" /\ alias[c] \in Alias /\ alias' = alias
        /\ WalkOn(c, alias[c], rest[c], attempts[c])
    BY <1>0, <1>4 DEF Resume, CallsMatch
  <2>2. /\ rest[c] \in Seq(Nat) /\ attempts[c] \in Seq(Attempt)
        /\ Accounts(alias[c], attempts[c], rest[c])
    BY <1>0, <2>1 DEF RouteTypeOK, Attempt, Accounted
  <2>3. PICK t \in Seq(Attempt), left \in Seq(Nat), now \in Phase :
              /\ Accounts(alias[c], t, left)
              /\ attempts' = [attempts EXCEPT ![c] = t]
              /\ rest' = [rest EXCEPT ![c] = left]
              /\ phase' = [phase EXCEPT ![c] = now]
    BY <2>1, <2>2, WalkAccounts
  <2> QED
    BY <1>0, <2>1, <2>3, OneRecord
<1>5. ASSUME NEW c \in Call, Leave(c)
      PROVE  Accounted'
  <2> SUFFICES ASSUME NEW d \in Call, phase'[d] \in {"waiting", "rejected", "failed"}
               PROVE  Accounts(alias'[d], attempts'[d], rest'[d])
    BY DEF Accounted, Accounts, Reported, Positions, ToSet
  <2>1. d # c
    BY <1>0, <1>5 DEF Leave, RouteTypeOK
  <2>2. /\ attempts'[d] = attempts[d] /\ rest'[d] = rest[d]
        /\ phase'[d] = phase[d] /\ alias'[d] = alias[d]
    BY <1>0, <1>5, <2>1 DEF Leave, RouteTypeOK
  <2> QED
    BY <2>2 DEF Accounted
<1>6. CASE UNCHANGED <<phase, alias, rest, attempts>>
  <2> SUFFICES ASSUME NEW d \in Call, phase'[d] \in {"waiting", "rejected", "failed"}
               PROVE  Accounts(alias'[d], attempts'[d], rest'[d])
    BY DEF Accounted, Accounts, Reported, Positions, ToSet
  <2>1. /\ attempts'[d] = attempts[d] /\ rest'[d] = rest[d]
        /\ phase'[d] = phase[d] /\ alias'[d] = alias[d]
    BY <1>6
  <2> QED
    BY <2>1 DEF Accounted
<1>7. ASSUME Elapse \/ (\E p \in Provider : HealthProbe(p) \/ ProviderFlips(p))
                 \/ UNCHANGED routeVars
      PROVE  UNCHANGED <<phase, alias, rest, attempts>>
  BY <1>7 DEF Elapse, HealthProbe, ProviderFlips, routeVars, walk
<1> QED
  BY <1>1, <1>2, <1>3, <1>4, <1>5, <1>6, <1>7 DEF RouteNext

-----------------------------------------------------------------------------
(* The theorems                                                             *)

\* The inductive invariant holds of every behaviour of routing.
THEOREM RouteInvariant == RouteSpec => []RouteInv
<1>1. RouteInv /\ [RouteNext]_routeVars => RouteInv'
  BY RouteStep
<1> QED
  BY RouteInvInit, <1>1, PTL DEF RouteSpec

\* The state of a request is well typed, and what is left of its walk stays
\* within the chain of its alias.
THEOREM RouteTypeCorrect == RouteSpec => []RouteTypeOK
<1>1. RouteInv => RouteTypeOK
  BY DEF RouteInv
<1> QED
  BY RouteInvariant, <1>1, PTL

\* One provider that never fails a call serves every request whose chain names
\* it: the walk of routing.service.ts never fails past it, for any chain, any
\* strategy, any policy and any number of concurrent requests.
THEOREM FallbackServes == RouteSpec => []HealthyFallbackServes
<1>1. RouteInv => HealthyFallbackServes
  <2> SUFFICES ASSUME RouteInv, NEW c \in Call, phase[c] = "failed"
               PROVE  NoHealthyAmong(alias[c], Positions(alias[c]))
    BY DEF HealthyFallbackServes, NoHealthyAmong
  <2>1. rest[c] = <<>> /\ ToSet(rest[c]) = {}
    BY DEF RouteInv, CallsMatch, ToSet
  <2>2. NoHealthyAmong(alias[c], Positions(alias[c]) \ ToSet(rest[c]))
    BY DEF RouteInv, LeftBehindUnhealthy
  <2> QED
    BY <2>1, <2>2
<1> QED
  BY RouteInvariant, <1>1, PTL

\* A failed request reports every position of its chain exactly once: the
\* `attempts' of RoutingFailedError miss no provider and name none twice, for
\* any chain, any strategy and any interleaving with other requests.
THEOREM FailuresReported == RouteSpec => []FailureIsComplete
<1>1. RouteInit => Accounted
  BY DEF RouteInit, Accounted
<1>2. RouteInv /\ Accounted /\ [RouteNext]_routeVars => Accounted'
  BY AccountStep
<1>3. RouteInv /\ Accounted => FailureIsComplete
  <2> SUFFICES ASSUME RouteInv, Accounted, NEW c \in Call, phase[c] = "failed"
               PROVE  /\ Len(attempts[c]) = Len(ChainOf[alias[c]])
                      /\ Reported(attempts[c]) = Positions(alias[c])
    BY DEF FailureIsComplete, Reported
  <2>1. rest[c] = <<>> /\ ToSet(rest[c]) = {} /\ Len(rest[c]) = 0
    BY DEF RouteInv, CallsMatch, ToSet
  <2>2. Accounts(alias[c], attempts[c], rest[c])
    BY DEF Accounted
  <2>3. Len(attempts[c]) \in Nat
    BY DEF RouteInv, RouteTypeOK
  <2>4. /\ Len(attempts[c]) + Len(rest[c]) = Len(ChainOf[alias[c]])
        /\ Reported(attempts[c]) \cup ToSet(rest[c]) = Positions(alias[c])
    BY <2>2 DEF Accounts
  <2>5. Len(attempts[c]) = Len(ChainOf[alias[c]])
    BY <2>1, <2>3, <2>4
  <2> QED
    BY <2>1, <2>4, <2>5, Zenon
<1> QED
  BY RouteInvariant, <1>1, <1>2, <1>3, PTL DEF RouteSpec

\* Routing only ever uses the breaker through its own operations: every
\* behaviour of routing is one of the circuit breaker, whose theorems
\* therefore hold of the composed system.
THEOREM RoutingUsesBreaker == RouteSpec => Spec
<1>1. RouteInit => Init
  BY DEF RouteInit
<1>2. RouteInv /\ [RouteNext]_routeVars => [Next]_cbVars
  BY RouteStep
<1> QED
  BY RouteInvariant, <1>1, <1>2, PTL DEF RouteSpec, Spec

\* In the composed system, too, a half-open circuit is judged by its probes.
THEOREM RoutedHalfOpenIsExact == RouteSpec => []OnlyProbesJudge
BY RoutingUsesBreaker, HalfOpenIsExact, PTL

-----------------------------------------------------------------------------
(* Routing implements FallbackWalk: the refinement mapping, by name         *)

Todo == [c \in Call |-> ToSet(rest[c])]

Asking == [c \in Call |-> IF phase[c] = "waiting" THEN Head(rest[c]) ELSE 0]

Outcome == [c \in Call |-> CASE phase[c] = "idle" -> "none"
                             [] phase[c] \in {"waiting", "rejected"} -> "pending"
                             [] OTHER -> phase[c]]

\* A step that moves request c to (ask, result) with the positions `left'.
Moves(c, left, ask, result) ==
    /\ Todo' = [Todo EXCEPT ![c] = left]
    /\ Asking' = [Asking EXCEPT ![c] = ask]
    /\ Outcome' = [Outcome EXCEPT ![c] = result]

\* What a request shows of its state is what its own variables say.
LEMMA MapsAre ==
    ASSUME NEW c \in Call
    PROVE  /\ Todo[c] = ToSet(rest[c])
           /\ phase[c] = "waiting" => Asking[c] = Head(rest[c])
           /\ phase[c] # "waiting" => Asking[c] = 0
           /\ phase[c] = "idle" => Outcome[c] = "none"
           /\ phase[c] \in {"waiting", "rejected"} => Outcome[c] = "pending"
           /\ phase[c] \in {"ok", "failed"} => Outcome[c] = phase[c]
<1>1. Todo[c] = ToSet(rest[c])
  BY DEF Todo
<1>2. Asking[c] = IF phase[c] = "waiting" THEN Head(rest[c]) ELSE 0
  BY DEF Asking
<1>3. Outcome[c] = CASE phase[c] = "idle" -> "none"
                     [] phase[c] \in {"waiting", "rejected"} -> "pending"
                     [] OTHER -> phase[c]
  BY DEF Outcome
<1> QED
  BY <1>1, <1>2, <1>3

\* A step that replaces the phase and the walk of one request moves that
\* request and leaves what the others show alone.
LEMMA MapsChange ==
    ASSUME RouteTypeOK, NEW c \in Call, NEW left, NEW now \in Phase,
           rest' = [rest EXCEPT ![c] = left],
           phase' = [phase EXCEPT ![c] = now],
           NEW result,
           now = "idle" => result = "none",
           now \in {"waiting", "rejected"} => result = "pending",
           now \in {"ok", "failed"} => result = now,
           NEW ask,
           now = "waiting" => ask = Head(left),
           now # "waiting" => ask = 0
    PROVE  Moves(c, ToSet(left), ask, result)
<1>1. /\ rest'[c] = left /\ phase'[c] = now
      /\ \A d \in Call \ {c} : rest'[d] = rest[d] /\ phase'[d] = phase[d]
  BY DEF RouteTypeOK
<1>2. Todo' = [Todo EXCEPT ![c] = ToSet(left)]
  <2>1. \A d \in Call \ {c} : ToSet(rest'[d]) = ToSet(rest[d])
    BY <1>1
  <2>2. ToSet(rest'[c]) = ToSet(left)
    BY <1>1
  <2> QED
    BY <2>1, <2>2 DEF Todo
<1>3. Asking' = [Asking EXCEPT ![c] = ask]
  <2>1. Asking' = [d \in Call |-> IF phase'[d] = "waiting" THEN Head(rest'[d]) ELSE 0]
    BY DEF Asking
  <2>2. (IF phase'[c] = "waiting" THEN Head(rest'[c]) ELSE 0) = ask
    BY <1>1
  <2>3. \A d \in Call \ {c} :
           (IF phase'[d] = "waiting" THEN Head(rest'[d]) ELSE 0) = Asking[d]
    BY <1>1 DEF Asking
  <2>4. DOMAIN Asking = Call
    BY DEF Asking
  <2> QED
    BY <2>1, <2>2, <2>3, <2>4
<1>4. Outcome' = [Outcome EXCEPT ![c] = result]
  BY <1>1 DEF Outcome, Phase
<1> QED
  BY <1>2, <1>3, <1>4 DEF Moves

-----------------------------------------------------------------------------
(* The actions of FallbackWalk, over the mapping                            *)

\* A request that walks on from `left' may ask one position of those it keeps.
LEMMA MayAsk ==
    ASSUME NEW c \in Call, NEW left, NEW after \in SUBSET left, NEW next \in after,
           Moves(c, after, next, "pending")
    PROVE  Walk!Proceed(c, left)
<1>1. /\ next \in left /\ left \ after \in SUBSET left /\ next \notin left \ after
      /\ left \ (left \ after) = after
  OBVIOUS
<1>2. Moves(c, left \ (left \ after), next, "pending")
  BY <1>1
<1> QED
  BY <1>1, <1>2 DEF Walk!Proceed, Moves, Todo, Asking, Outcome

\* A request that walks on may find no position usable.
LEMMA MayFail ==
    ASSUME NEW c \in Call, NEW left, Moves(c, {}, 0, "failed")
    PROVE  Walk!Proceed(c, left)
BY DEF Walk!Proceed, Moves, Todo, Asking, Outcome

\* The synchronous walk over `order' proceeds from the positions in it.
LEMMA WalkProceeds ==
    ASSUME RouteTypeOK, NEW c \in Call, NEW a \in Alias, NEW tried,
           NEW order \in Seq(Nat), WalkOn(c, a, order, tried)
    PROVE  Walk!Proceed(c, ToSet(order))
<1>1. ASSUME NEW i \in 1..Len(order),
             phase' = [phase EXCEPT ![c] = "waiting"],
             rest' = [rest EXCEPT ![c] = SubSeq(order, i, Len(order))]
      PROVE  Walk!Proceed(c, ToSet(order))
  <2> DEFINE left == SubSeq(order, i, Len(order))
  <2>1. Head(left) = order[i] /\ ToSet(left) = {order[k] : k \in i..Len(order)}
    BY TailOfWalk
  <2>2. order[i] \in ToSet(left)
    BY <2>1
  <2>3. ToSet(left) \subseteq ToSet(order)
    <3>1. ToSet(order) = {order[k] : k \in 1..Len(order)}
      BY DEF ToSet
    <3>2. i..Len(order) \subseteq 1..Len(order)
      OBVIOUS
    <3> HIDE DEF left
    <3> QED
      BY <2>1, <3>1, <3>2
  <2> HIDE DEF left
  <2>4. rest' = [rest EXCEPT ![c] = left]
    BY <1>1 DEF left
  <2>5. "waiting" \in Phase
    BY DEF Phase
  <2>6. Moves(c, ToSet(left), order[i], "pending")
    BY <1>1, <2>1, <2>4, <2>5, MapsChange
  <2> QED
    BY <2>2, <2>3, <2>6, MayAsk
<1>2. ASSUME phase' = [phase EXCEPT ![c] = "failed"],
             rest' = [rest EXCEPT ![c] = <<>>]
      PROVE  Walk!Proceed(c, ToSet(order))
  <2>1. "failed" \in Phase /\ ToSet(<<>>) = {}
    BY DEF Phase, ToSet
  <2>2. Moves(c, ToSet(<<>>), 0, "failed")
    BY <1>2, <2>1, MapsChange
  <2> QED
    BY <2>1, <2>2, MayFail
<1> QED
  BY <1>1, <1>2 DEF WalkOn

-----------------------------------------------------------------------------
(* A position that failed is not left to visit                              *)

\* Fewer attempts than positions cannot account for a chain.
LEMMA TooFewToAccount ==
    ASSUME NEW n \in Nat, NEW t \in Seq(Attempt), NEW left \in Seq(Nat),
           Reported(t) \cup ToSet(left) = 1..n
    PROVE  n <= Len(t) + Len(left)
<1> DEFINE m == Len(t) + Len(left)
           named == [k \in 1..m |-> IF k <= Len(t) THEN t[k].position
                                                   ELSE left[k - Len(t)]]
<1>1. /\ Len(t) \in Nat /\ DOMAIN t = 1..Len(t)
      /\ Len(left) \in Nat /\ DOMAIN left = 1..Len(left)
  OBVIOUS
<1>2. m \in Nat
  BY <1>1
<1>3. ASSUME NEW k \in 1..m
      PROVE  named[k] \in 1..n
  <2>1. CASE k <= Len(t)
    <3>1. k \in DOMAIN t /\ named[k] = t[k].position
      BY <1>1, <2>1
    <3> QED
      BY <3>1 DEF Reported
  <2>2. CASE ~(k <= Len(t))
    <3>1. k - Len(t) \in DOMAIN left /\ named[k] = left[k - Len(t)]
      BY <1>1, <2>2
    <3> QED
      BY <3>1 DEF ToSet
  <2> QED
    BY <2>1, <2>2
<1>4. ASSUME NEW i \in 1..n
      PROVE  \E k \in 1..m : named[k] = i
  <2>1. CASE i \in Reported(t)
    <3>1. PICK k \in DOMAIN t : t[k].position = i
      BY <2>1 DEF Reported
    <3>2. k \in 1..m /\ k <= Len(t)
      BY <1>1, <3>1
    <3> QED
      BY <3>1, <3>2
  <2>2. CASE i \in ToSet(left)
    <3>1. PICK k \in DOMAIN left : left[k] = i
      BY <2>2 DEF ToSet
    <3>2. k + Len(t) \in 1..m /\ ~(k + Len(t) <= Len(t)) /\ (k + Len(t)) - Len(t) = k
      BY <1>1, <3>1
    <3>3. named[k + Len(t)] = i
      BY <3>1, <3>2
    <3> QED
      BY <3>2, <3>3
  <2> QED
    BY <2>1, <2>2
<1>5. ExistsSurjection(1..m, 1..n)
  <2> HIDE DEF m
  <2>1. named \in [1..m -> 1..n]
    BY <1>3
  <2> HIDE DEF named
  <2> QED
    BY <1>4, <2>1 DEF ExistsSurjection, Surjection
<1>6. Cardinality(1..n) <= m
  <2> HIDE DEF m, named
  <2> QED
    BY <1>2, <1>5, FS_SurjCardinalityBound
<1>7. Cardinality(1..n) = n
  BY FS_Interval
<1> QED
  BY <1>6, <1>7

\* No position is left twice: the one a request visits is not visited again.
LEMMA VisitedOnce ==
    ASSUME NEW a \in Alias, NEW t \in Seq(Attempt), NEW left \in Seq(Nat),
           left # <<>>, Accounts(a, t, left)
    PROVE  Head(left) \notin ToSet(Tail(left))
<1> SUFFICES ASSUME Head(left) \in ToSet(Tail(left))
             PROVE  FALSE
  OBVIOUS
<1>1. /\ Tail(left) \in Seq(Nat)
      /\ ToSet(left) = {Head(left)} \cup ToSet(Tail(left))
  BY HeadAndTail
<1>2. Len(left) = Len(Tail(left)) + 1 /\ Len(Tail(left)) \in Nat /\ Len(t) \in Nat
  OBVIOUS
<1>3. Positions(a) = 1..Len(ChainOf[a]) /\ Len(ChainOf[a]) \in Nat
  BY RegistryAssumption DEF Positions
<1>4. Reported(t) \cup ToSet(Tail(left)) = 1..Len(ChainOf[a])
  BY <1>1, <1>3 DEF Accounts
<1>5. Len(ChainOf[a]) <= Len(t) + Len(Tail(left))
  BY <1>1, <1>3, <1>4, TooFewToAccount
<1>6. Len(t) + Len(left) = Len(ChainOf[a])
  BY DEF Accounts
<1> QED
  BY <1>2, <1>3, <1>5, <1>6

-----------------------------------------------------------------------------
(* The refinement                                                           *)

\* A step that changes neither phases nor walks shows nothing.
LEMMA Unseen ==
    ASSUME UNCHANGED <<phase, rest>>
    PROVE  UNCHANGED Walk!walkVars
BY DEF Walk!walkVars

\* The initial states map to the initial state.
LEMMA WalkInit ==
    ASSUME RouteInit
    PROVE  Walk!Init
<1>1. ToSet(<<>>) = {}
  BY DEF ToSet
<1>2. phase = [c \in Call |-> "idle"] /\ rest = [c \in Call |-> <<>>]
  BY DEF RouteInit
<1>3. /\ Todo = [c \in Call |-> {}]
      /\ Asking = [c \in Call |-> 0]
      /\ Outcome = [c \in Call |-> "none"]
  BY <1>1, <1>2 DEF Todo, Asking, Outcome
<1> QED
  BY <1>3 DEF Walk!Init, Todo, Asking, Outcome

\* Every step maps to a step of the promise or to a stutter.
LEMMA WalkStep ==
    ASSUME RouteInv, Accounted, [RouteNext]_routeVars
    PROVE  [Walk!Next]_Walk!walkVars
<1>0. RouteTypeOK /\ CallsMatch
  BY DEF RouteInv
<1>p. {"idle", "waiting", "rejected", "ok", "failed"} \subseteq Phase
  BY DEF Phase
<1>w. ASSUME NEW c \in Call, target[c] # NoProvider
      PROVE  /\ phase[c] = "waiting" /\ alias[c] \in Alias /\ rest[c] # <<>>
             /\ Todo[c] = ToSet(rest[c]) /\ Asking[c] = Head(rest[c])
             /\ Outcome[c] = "pending" /\ Asking[c] # 0
  <2>1. phase[c] = "waiting" /\ alias[c] \in Alias /\ rest[c] # <<>>
    BY <1>0, <1>w DEF CallsMatch
  <2>2. rest[c] \in Seq(Nat) /\ ToSet(rest[c]) \subseteq 1..Len(ChainOf[alias[c]])
    BY <1>0, <2>1, RegistryAssumption DEF RouteTypeOK, Positions
  <2>3. Head(rest[c]) \in ToSet(rest[c])
    BY <2>1, <2>2, HeadAndTail
  <2>4. Head(rest[c]) # 0
    BY <2>2, <2>3
  <2> QED
    BY <2>1, <2>4, MapsAre
<1>1. ASSUME NEW c \in Call, NEW a \in Alias, Route(c, a)
      PROVE  Walk!Begin(c)
  <2>1. PICK order \in PickOrder(a) : WalkOn(c, a, order, <<>>)
    BY <1>1 DEF Route
  <2>2. /\ order \in Seq(Positions(a)) /\ ToSet(order) = Positions(a)
        /\ Positions(a) = 1..Len(ChainOf[a])
    BY <1>0, PickOrderCovers, RegistryAssumption DEF Positions
  <2>3. order \in Seq(Nat)
    BY <2>2
  <2>4. Walk!Proceed(c, 1..Len(ChainOf[a]))
    BY <1>0, <2>1, <2>2, <2>3, WalkProceeds
  <2>5. Outcome[c] = "none"
    BY <1>1, MapsAre DEF Route
  <2>6. Len(ChainOf[a]) \in {Len(ChainOf[b]) : b \in Alias}
    OBVIOUS
  <2> QED
    BY <2>4, <2>5, <2>6 DEF Walk!Begin, Outcome
<1>2. ASSUME NEW c \in Call, Answer(c)
      PROVE  Walk!Answer(c)
  <2>1. target[c] # NoProvider
    BY <1>2 DEF Answer, Succeed
  <2>2. /\ rest' = [rest EXCEPT ![c] = <<>>] /\ phase' = [phase EXCEPT ![c] = "ok"]
        /\ "ok" \in Phase
    BY <1>2, <1>p DEF Answer
  <2>3. Moves(c, ToSet(<<>>), 0, "ok")
    BY <1>0, <2>2, MapsChange
  <2>4. ToSet(<<>>) = {} /\ Asking[c] # 0
    BY <1>w, <2>1 DEF ToSet
  <2> QED
    BY <2>3, <2>4 DEF Walk!Answer, Moves, Todo, Asking, Outcome
<1>3. ASSUME NEW c \in Call, Reject(c)
      PROVE  Walk!Reject(c)
  <2>1. target[c] # NoProvider
    BY <1>3 DEF Reject, Fail
  <2>2. /\ phase[c] = "waiting" /\ alias[c] \in Alias /\ rest[c] # <<>>
        /\ Todo[c] = ToSet(rest[c]) /\ Asking[c] = Head(rest[c])
        /\ Outcome[c] = "pending" /\ Asking[c] # 0
    BY <1>w, <2>1
  <2>3. /\ rest' = [rest EXCEPT ![c] = Tail(rest[c])]
        /\ phase' = [phase EXCEPT ![c] = "rejected"] /\ "rejected" \in Phase
    BY <1>3, <1>p DEF Reject
  <2>4. Moves(c, ToSet(Tail(rest[c])), 0, "pending")
    BY <1>0, <2>3, MapsChange
  <2>5. /\ rest[c] \in Seq(Nat) /\ attempts[c] \in Seq(Attempt)
        /\ Accounts(alias[c], attempts[c], rest[c])
    BY <1>0, <2>2 DEF RouteTypeOK, Attempt, Accounted
  <2>6. ToSet(Tail(rest[c])) = Todo[c] \ {Asking[c]}
    <3>1. Head(rest[c]) \notin ToSet(Tail(rest[c]))
      BY <2>2, <2>5, VisitedOnce
    <3>2. ToSet(rest[c]) = {Head(rest[c])} \cup ToSet(Tail(rest[c]))
      BY <2>2, <2>5, HeadAndTail
    <3> QED
      BY <2>2, <3>1, <3>2
  <2>7. Outcome' = Outcome
    <3>1. Outcome' = [Outcome EXCEPT ![c] = Outcome[c]]
      BY <2>2, <2>4 DEF Moves
    <3>2. Outcome = [Outcome EXCEPT ![c] = Outcome[c]]
      BY DEF Outcome
    <3> QED
      BY <3>1, <3>2
  <2>8. /\ Todo' = [Todo EXCEPT ![c] = Todo[c] \ {Asking[c]}]
        /\ Asking' = [Asking EXCEPT ![c] = 0]
    BY <2>4, <2>6 DEF Moves
  <2> QED
    BY <2>2, <2>7, <2>8 DEF Walk!Reject, Todo, Asking, Outcome
<1>4. ASSUME NEW c \in Call, Resume(c)
      PROVE  Walk!Resume(c)
  <2>1. /\ phase[c] = "rejected" /\ alias[c] \in Alias
        /\ WalkOn(c, alias[c], rest[c], attempts[c])
    BY <1>0, <1>4 DEF Resume, CallsMatch
  <2>2. PICK order \in Seq(Nat), a \in Alias, tried \in Seq(Attempt) :
              order = rest[c] /\ a = alias[c] /\ tried = attempts[c]
    BY <1>0, <2>1 DEF RouteTypeOK, Attempt
  <2>3. WalkOn(c, a, order, tried)
    BY <2>1, <2>2 DEF WalkOn, Refuses, Start
  <2>4. Walk!Proceed(c, ToSet(order))
    BY <1>0, <2>3, WalkProceeds
  <2>5. Outcome[c] = "pending" /\ Asking[c] = 0 /\ Todo[c] = ToSet(order)
    BY <2>1, <2>2, MapsAre
  <2>6. Walk!Proceed(c, Todo[c])
    BY <2>4, <2>5, ZenonT(60) DEF Walk!Proceed
  <2> QED
    BY <2>5, <2>6 DEF Walk!Resume, Todo, Asking, Outcome
<1>5. ASSUME NEW c \in Call, Leave(c)
      PROVE  Walk!Leave(c)
  <2>1. /\ phase[c] \in {"ok", "failed"} /\ rest[c] = <<>> /\ rest' = rest
        /\ phase' = [phase EXCEPT ![c] = "idle"] /\ "idle" \in Phase
    BY <1>0, <1>5, <1>p DEF Leave, CallsMatch
  <2>2. rest' = [rest EXCEPT ![c] = <<>>]
    BY <1>0, <2>1 DEF RouteTypeOK
  <2>3. Moves(c, ToSet(<<>>), 0, "none")
    BY <1>0, <2>1, <2>2, MapsChange
  <2>4. Todo[c] = ToSet(<<>>) /\ Asking[c] = 0 /\ Outcome[c] \in {"ok", "failed"}
    BY <2>1, MapsAre
  <2>5. Todo' = Todo /\ Asking' = Asking
    <3>1. /\ Todo' = [Todo EXCEPT ![c] = Todo[c]]
          /\ Asking' = [Asking EXCEPT ![c] = Asking[c]]
      BY <2>3, <2>4 DEF Moves
    <3>2. /\ Todo = [Todo EXCEPT ![c] = Todo[c]]
          /\ Asking = [Asking EXCEPT ![c] = Asking[c]]
      BY DEF Todo, Asking
    <3> QED
      BY <3>1, <3>2
  <2>6. Outcome' = [Outcome EXCEPT ![c] = "none"]
    BY <2>3 DEF Moves
  <2> QED
    BY <2>4, <2>5, <2>6 DEF Walk!Leave, Todo, Asking, Outcome
<1>6. CASE UNCHANGED <<phase, rest>>
  BY <1>6, Unseen
<1> QED
  BY <1>1, <1>2, <1>3, <1>4, <1>5, <1>6
     DEF RouteNext, Elapse, HealthProbe, ProviderFlips, routeVars, walk, Walk!Next

\* Routing implements FallbackWalk: for any chains, strategies and policy and
\* any interleaving, a request visits each position at most once, waits for one
\* provider at a time, stops at the first answer, and fails only when route()
\* has no position of the chain left.
THEOREM WalkImplemented == RouteSpec => ImplementsWalk
<1>1. RouteInit => Accounted /\ Walk!Init
  BY WalkInit DEF RouteInit, Accounted
<1>2. RouteInv /\ Accounted /\ [RouteNext]_routeVars => Accounted'
  BY AccountStep
<1>3. RouteInv /\ Accounted /\ [RouteNext]_routeVars => [Walk!Next]_Walk!walkVars
  BY WalkStep
<1> QED
  BY RouteInvariant, <1>1, <1>2, <1>3, PTL DEF RouteSpec, ImplementsWalk, Walk!Spec
=============================================================================
