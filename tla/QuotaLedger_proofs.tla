------------------------- MODULE QuotaLedger_proofs -------------------------
(***************************************************************************)
(* What holds of the quota for any number of clients, aliases, requests in *)
(* flight and months, and any limits.                                      *)
(***************************************************************************)
EXTENDS QuotaLedger, FiniteSetTheorems, TLAPS

USE TokenAssumption, NameAssumption

-----------------------------------------------------------------------------
(* The effect of a settling request, in one form for all the ways it ends.  *)

\* Request r is over: it added `cost' to its counter and `total' to its log,
\* or missed the former, and left everything else alone.
SettleEffect(r, cost, total, miss) ==
    LET e == EntryOf(r) IN
    /\ phase[r] # "idle"
    /\ tokens' = [tokens EXCEPT ![e] = @ + cost]
    /\ logTokens' = [logTokens EXCEPT ![e] = @ + total]
    /\ missed' = [missed EXCEPT ![e] = @ + miss]
    /\ Release(r)
    /\ UNCHANGED <<store, month>>

Settled(r) ==
    \E cost, total \in 0..MaxTokens, miss \in {0, 1} :
        /\ SettleEffect(r, cost, total, miss)
        /\ limitOf[<<client[r], served[r]>>] # 0 => total <= cost \/ miss = 1

\* The entry of a request in flight is one of the ledger's.
LEMMA EntryInLedger ==
    ASSUME TypeOK, NEW r \in Request, phase[r] # "idle"
    PROVE  /\ EntryOf(r) \in Entry
           /\ client[r] \in Client /\ served[r] \in Alias
  BY DEF TypeOK, EntryOf, Entry

\* Adding nothing to an entry is leaving the ledger alone.
LEMMA AddNothing ==
    ASSUME NEW f \in [Entry -> Nat], NEW e \in Entry
    PROVE  f = [f EXCEPT ![e] = @ + 0]
  OBVIOUS

LEMMA UsageEffect ==
    ASSUME TypeOK, NEW r \in Request, phase[r] # "idle",
           NEW cost \in 0..MaxTokens, NEW written \in BOOLEAN,
           RecordUsage(r, cost, written)
    PROVE  \E c \in 0..MaxTokens, miss \in {0, 1} :
              /\ tokens' = [tokens EXCEPT ![EntryOf(r)] = @ + c]
              /\ missed' = [missed EXCEPT ![EntryOf(r)] = @ + miss]
              /\ limitOf[<<client[r], served[r]>>] # 0 => c = cost \/ miss = 1
<1> DEFINE gated == limitOf[<<client[r], served[r]>>] # 0
           c == IF gated /\ written THEN cost ELSE 0
           miss == IF gated /\ ~written THEN 1 ELSE 0
<1>1. /\ tokens' = [tokens EXCEPT ![EntryOf(r)] = @ + c]
      /\ missed' = [missed EXCEPT ![EntryOf(r)] = @ + miss]
  BY DEF RecordUsage, HasQuota, addUsage
<1>2. c \in 0..MaxTokens /\ miss \in {0, 1} /\ (gated => c = cost \/ miss = 1)
  OBVIOUS
<1> HIDE DEF c, miss
<1> QED
  BY <1>1, <1>2

\* However a request ends, it settles.
LEMMA EveryEndSettles ==
    ASSUME TypeOK, NEW r \in Request, Settle(r)
    PROVE  Settled(r) /\ phase[r] # "idle"
<1>0. phase[r] # "idle"
  BY DEF Settle, RouteFails, Answer, StreamEnds, StreamBreaks, PostProcessingFails
<1>1. /\ EntryOf(r) \in Entry
      /\ logTokens \in [Entry -> Nat] /\ tokens \in [Entry -> Nat] /\ missed \in [Entry -> Nat]
  BY <1>0, EntryInLedger DEF TypeOK
<1>2. /\ 0 \in 0..MaxTokens /\ PromptEstimate \in 0..MaxTokens
      /\ 1..MaxTokens \subseteq 0..MaxTokens
      /\ Writes \subseteq BOOLEAN
  OBVIOUS
<1>3. ASSUME NEW model \in Alias, NEW kept \in Writes, RouteFails(r, model, kept)
      PROVE  Settled(r)
  <2>1. /\ tokens' = [tokens EXCEPT ![EntryOf(r)] = @ + 0]
        /\ logTokens' = [logTokens EXCEPT ![EntryOf(r)] = @ + 0]
        /\ missed' = [missed EXCEPT ![EntryOf(r)] = @ + 0]
    BY <1>1, <1>3, AddNothing DEF RouteFails
  <2>2. SettleEffect(r, 0, 0, 0)
    BY <1>0, <1>3, <2>1 DEF SettleEffect, RouteFails, Finish
  <2> QED
    BY <1>2, <2>2 DEF Settled
<1>4. ASSUME NEW cost \in 0..MaxTokens, NEW total \in 0..MaxTokens, NEW written \in Writes,
             Release(r), UNCHANGED <<store, month>>,
             RecordUsage(r, cost, written),
             total <= cost,
             \/ logTokens' = [logTokens EXCEPT ![EntryOf(r)] = @ + total]
             \/ logTokens' = [logTokens EXCEPT ![EntryOf(r)] = @ + 0]
      PROVE  Settled(r)
  <2>1. PICK c \in 0..MaxTokens, miss \in {0, 1} :
              /\ tokens' = [tokens EXCEPT ![EntryOf(r)] = @ + c]
              /\ missed' = [missed EXCEPT ![EntryOf(r)] = @ + miss]
              /\ limitOf[<<client[r], served[r]>>] # 0 => c = cost \/ miss = 1
    BY <1>0, <1>2, <1>4, UsageEffect
  <2>2. PICK t \in {0, total} : logTokens' = [logTokens EXCEPT ![EntryOf(r)] = @ + t]
    BY <1>4
  <2>3. SettleEffect(r, c, t, miss)
    BY <1>0, <1>4, <2>1, <2>2 DEF SettleEffect
  <2>4. t \in 0..MaxTokens /\ t <= cost
    BY <1>4
  <2> QED
    BY <2>1, <2>3, <2>4 DEF Settled
<1>5. ASSUME NEW total \in 0..MaxTokens, NEW kept \in Writes, LogTokens(r, total, kept)
      PROVE  \/ logTokens' = [logTokens EXCEPT ![EntryOf(r)] = @ + total]
             \/ logTokens' = [logTokens EXCEPT ![EntryOf(r)] = @ + 0]
  BY <1>1, <1>5 DEF LogTokens
<1>6. ASSUME NEW failures \in BOOLEAN, NEW kept \in Writes, NEW written \in Writes,
             NEW total \in 0..MaxTokens, Answer(r, failures, total, kept, written)
      PROVE  Settled(r)
  <2>1. /\ Release(r) /\ UNCHANGED <<store, month>>
        /\ LogTokens(r, total, kept) /\ RecordUsage(r, total, written)
    BY <1>6 DEF Answer, Finish
  <2> QED
    BY <2>1, <1>4, <1>5
<1>7. ASSUME NEW total \in 1..MaxTokens, NEW kept \in Writes, NEW written \in Writes,
             StreamEnds(r, total, kept, written)
      PROVE  Settled(r)
  <2>1. /\ Release(r) /\ UNCHANGED <<store, month>>
        /\ LogTokens(r, total, kept) /\ RecordUsage(r, total, written)
    BY <1>7 DEF StreamEnds, Finish
  <2>2. total \in 0..MaxTokens
    BY <1>2
  <2> QED
    BY <2>1, <2>2, <1>4, <1>5
<1>8. ASSUME NEW written \in Writes, Release(r), UNCHANGED <<store, month>>,
             RecordUsage(r, PromptEstimate, written), UNCHANGED logTokens
      PROVE  Settled(r)
  <2>1. logTokens' = [logTokens EXCEPT ![EntryOf(r)] = @ + 0]
    BY <1>1, <1>8, AddNothing
  <2>2. 0 <= PromptEstimate
    OBVIOUS
  <2> QED
    BY <1>2, <1>4, <1>8, <2>1, <2>2
<1>9. ASSUME NEW kept \in Writes, NEW written \in Writes, StreamBreaks(r, kept, written)
      PROVE  Settled(r)
  BY <1>8, <1>9 DEF StreamBreaks, Finish
<1>10. ASSUME NEW written \in Writes, PostProcessingFails(r, written)
       PROVE  Settled(r)
  BY <1>8, <1>10 DEF PostProcessingFails, Finish
<1> QED
  BY <1>0, <1>3, <1>6, <1>7, <1>9, <1>10 DEF Settle

-----------------------------------------------------------------------------
(* The type invariant.                                                      *)

\* A fresh ledger is well typed.
LEMMA TypeInit == Init => TypeOK
  BY DEF Init, TypeOK, Limits, Month, Phase

\* The rows a request appends are rows.
LEMMA RowsTyped ==
    ASSUME TypeOK, NEW r \in Request, phase[r] # "idle",
           NEW model \in Alias, NEW s \in Alias \cup {NoAlias}, NEW kept
    PROVE  Appends(r, model, s, kept) \subseteq Row
<1>1. asked[r] \in Alias /\ served[r] \in Alias
  BY DEF TypeOK
<1> QED
  BY <1>1 DEF Appends, Event, Row

\* The rows of a settling request are rows.
LEMMA SettleRowsTyped ==
    ASSUME TypeOK, NEW r \in Request, Settle(r)
    PROVE  appended' \subseteq Row
<1>0. phase[r] # "idle" /\ asked[r] \in Alias /\ served[r] \in Alias
  BY DEF TypeOK, Settle, RouteFails, Answer, StreamEnds, StreamBreaks, PostProcessingFails
<1>1. ASSUME NEW kept PROVE SuccessRow(r, kept) \subseteq Row
  BY <1>0, RowsTyped DEF SuccessRow
<1>2. ASSUME NEW kept PROVE AttemptRows(r, kept) \subseteq Row
  BY <1>0, RowsTyped DEF AttemptRows
<1>3. ASSUME NEW model \in Alias, NEW kept \in Writes, RouteFails(r, model, kept)
      PROVE  appended' \subseteq Row
  <2>1. appended' = Appends(r, model, served[r], kept)
    BY <1>3 DEF RouteFails, Finish
  <2> QED
    BY <1>0, <2>1, RowsTyped
<1>4. ASSUME NEW failures, NEW total, NEW kept, NEW written,
             Answer(r, failures, total, kept, written)
      PROVE  appended' \subseteq Row
  BY <1>1, <1>2, <1>4 DEF Answer, Finish
<1>5. ASSUME NEW total, NEW kept, NEW written, StreamEnds(r, total, kept, written)
      PROVE  appended' \subseteq Row
  BY <1>1, <1>5 DEF StreamEnds, Finish
<1>6. ASSUME NEW kept, NEW written, StreamBreaks(r, kept, written)
      PROVE  appended' \subseteq Row
  BY <1>1, <1>6 DEF StreamBreaks, Finish
<1>7. ASSUME NEW written, PostProcessingFails(r, written)
      PROVE  appended' \subseteq Row
  BY <1>7 DEF PostProcessingFails, Finish
<1> QED
  BY <1>3, <1>4, <1>5, <1>6, <1>7 DEF Settle

\* A settling request keeps every variable in its type.
LEMMA SettleTyped ==
    ASSUME TypeOK, NEW r \in Request, Settle(r)
    PROVE  TypeOK'
<1>1. Settled(r)
  BY EveryEndSettles
<1>2. PICK cost \in 0..MaxTokens, total \in 0..MaxTokens, miss \in {0, 1} :
          SettleEffect(r, cost, total, miss)
  BY <1>1 DEF Settled
<1>3. EntryOf(r) \in Entry
  BY <1>2, EntryInLedger DEF SettleEffect
<1>4. /\ cost \in Nat /\ total \in Nat /\ miss \in Nat
      /\ 1 \in Month
  BY DEF Month
<1>5. tokens' \in [Entry -> Nat] /\ logTokens' \in [Entry -> Nat] /\ missed' \in [Entry -> Nat]
  BY <1>2, <1>3, <1>4 DEF SettleEffect, TypeOK
<1>6. appended' \subseteq Row
  BY SettleRowsTyped
<1>7. UNCHANGED <<limitOf, divertOf, allowed, month>>
  BY <1>2 DEF SettleEffect, store
<1>8. /\ phase' \in [Request -> Phase]
      /\ client' \in [Request -> Client \cup {NoClient}]
      /\ asked' \in [Request -> Alias \cup {NoAlias}]
      /\ served' \in [Request -> Alias \cup {NoAlias}]
      /\ since' \in [Request -> Month]
      /\ \A q \in Request : phase'[q] # "idle" =>
            client'[q] \in Client /\ asked'[q] \in Alias /\ served'[q] \in Alias
  BY <1>2, <1>4 DEF SettleEffect, Release, TypeOK, Phase
<1> QED
  BY <1>5, <1>6, <1>7, <1>8 DEF TypeOK

\* A step of the system keeps every variable in its type.
LEMMA TypeStep ==
    ASSUME TypeOK, [Next]_vars
    PROVE  TypeOK'
<1>1. ASSUME NEW r \in Request, NEW k \in Client, NEW a \in Alias, Admit(r, k, a)
      PROVE  TypeOK'
  <2>1. PICK target \in Target(k, a) : served' = [served EXCEPT ![r] = target]
    BY <1>1 DEF Admit
  <2>2. target \in Alias
    BY <2>1 DEF Target, TypeOK, Pair
  <2> QED
    BY <1>1, <2>1, <2>2 DEF Admit, TypeOK, Phase, store
<1>2. ASSUME NEW k \in Client, NEW a \in Alias, NEW kept \in Writes, Refuse(k, a, kept)
      PROVE  TypeOK'
  <2>1. appended' \subseteq Row
    BY <1>2 DEF Refuse, Event, Row
  <2> QED
    BY <1>2, <2>1 DEF Refuse, TypeOK, store, requests
<1>3. ASSUME NEW r \in Request, Settle(r)
      PROVE  TypeOK'
  BY <1>3, SettleTyped
<1>4. ASSUME NEW r \in Request, NEW failures \in BOOLEAN, OpenStream(r, failures)
      PROVE  TypeOK'
  <2>1. phase[r] # "idle" /\ asked[r] \in Alias
    BY <1>4 DEF OpenStream, TypeOK
  <2>2. appended' \subseteq Row
    BY <1>4, <2>1, RowsTyped DEF OpenStream, AttemptRows
  <2> QED
    BY <1>4, <2>1, <2>2 DEF OpenStream, TypeOK, Phase, store
<1>5. ASSUME NEW k \in Client, NEW a \in Alias, NEW limit \in Limits,
             NEW divert \in Alias \cup {NoAlias}, PutQuota(k, a, limit, divert)
      PROVE  TypeOK'
  BY <1>5 DEF PutQuota, WriteQuota, assertAliasesExist, TypeOK, requests, Pair
<1>6. ASSUME NEW k \in Client, NEW a \in Alias, DeleteQuota(k, a)
      PROVE  TypeOK'
  BY <1>6 DEF DeleteQuota, WriteQuota, HasQuota, TypeOK, requests, Pair
<1>7. ASSUME NEW k \in Client, NEW aliases \in Allowlists \cup {{}}, SetAllowlist(k, aliases)
      PROVE  TypeOK'
  BY <1>7 DEF SetAllowlist, TypeOK, requests
<1>8. ASSUME NEW m \in Month, Reconcile(m)
      PROVE  TypeOK'
  <2>1. tokens' \in [Entry -> Nat]
    BY <1>8 DEF Reconcile, setUsage, TypeOK
  <2> QED
    BY <1>8, <2>1 DEF Reconcile, TypeOK, store, requests
<1>9. CASE MonthTurns
  BY <1>9 DEF MonthTurns, TypeOK, store, requests, Month
<1>10. CASE Restart
  BY <1>10 DEF Restart, TypeOK, store, Phase, Month
<1>11. CASE UNCHANGED vars
  BY <1>11 DEF vars, TypeOK
<1> QED
  BY <1>1, <1>2, <1>3, <1>4, <1>5, <1>6, <1>7, <1>8, <1>9, <1>10, <1>11 DEF Next

\* Every variable of the ledger keeps its type; in particular a request in
\* flight always knows its client, the alias asked for and the alias served.
THEOREM LedgerTyped == Spec => []TypeOK
<1>1. Init => TypeOK
  BY TypeInit
<1>2. TypeOK /\ [Next]_vars => TypeOK'
  BY TypeStep
<1> QED
  BY <1>1, <1>2, PTL DEF Spec

-----------------------------------------------------------------------------
(* Operators keep the gated aliases gated.                                  *)

\* A gated alias has a limit, and no diversion leads to one.
GatesStand ==
    /\ \A k \in Client, a \in Gated : limitOf[<<k, a>>] # 0
    /\ \A p \in Pair : divertOf[p] \notin Gated

LEMMA GatesInit == Init => GatesStand
<1> SUFFICES ASSUME Init PROVE GatesStand
  OBVIOUS
<1>1. \A k \in Client, a \in Gated : limitOf[<<k, a>>] # 0
  BY DEF Init
<1>2. \A p \in Pair : divertOf[p] \notin Gated
  BY DEF Init
<1> QED
  BY <1>1, <1>2 DEF GatesStand

\* Nobody but PutQuota and DeleteQuota touches the quota rows.
LEMMA RowsUntouched ==
    ASSUME [Next]_vars,
           ~ \E k \in Client, a \in Alias, limit \in Limits, divert \in Alias \cup {NoAlias} :
                PutQuota(k, a, limit, divert),
           ~ \E k \in Client, a \in Alias : DeleteQuota(k, a)
    PROVE  UNCHANGED <<limitOf, divertOf>>
  BY DEF Next, vars, store, Admit, Refuse, Settle, RouteFails, Answer, OpenStream, StreamEnds,
         StreamBreaks, PostProcessingFails, Finish, SetAllowlist, Reconcile, MonthTurns, Restart

LEMMA GatesStep ==
    ASSUME TypeOK, GatesStand, [Next]_vars
    PROVE  GatesStand'
<1>0. /\ limitOf \in [Pair -> Limits \cup {0}]
      /\ divertOf \in [Pair -> Alias \cup {NoAlias}]
      /\ \A k \in Client, a \in Gated : <<k, a>> \in Pair
      /\ \A l \in Limits : l # 0
      /\ NoAlias \notin Gated
  BY DEF TypeOK, Pair, Limits
<1>1. ASSUME NEW k \in Client, NEW a \in Alias, NEW limit \in Limits,
             NEW divert \in Alias \cup {NoAlias}, PutQuota(k, a, limit, divert)
      PROVE  GatesStand'
  <2>1. divert \notin Gated
    BY <1>0, <1>1 DEF PutQuota, WriteQuota, assertAliasesExist
  <2>2. \A j \in Client, b \in Gated : limitOf'[<<j, b>>] # 0
    BY <1>0, <1>1 DEF PutQuota, WriteQuota, assertAliasesExist, GatesStand
  <2>3. \A p \in Pair : divertOf'[p] \notin Gated
    BY <1>0, <1>1, <2>1 DEF PutQuota, WriteQuota, assertAliasesExist, GatesStand
  <2> QED
    BY <2>2, <2>3 DEF GatesStand
<1>2. ASSUME NEW k \in Client, NEW a \in Alias, DeleteQuota(k, a)
      PROVE  GatesStand'
  <2>1. \A j \in Client, b \in Gated : limitOf'[<<j, b>>] # 0
    BY <1>0, <1>2 DEF DeleteQuota, WriteQuota, HasQuota, GatesStand
  <2>2. \A p \in Pair : divertOf'[p] \notin Gated
    BY <1>0, <1>2 DEF DeleteQuota, WriteQuota, HasQuota, GatesStand
  <2> QED
    BY <2>1, <2>2 DEF GatesStand
<1>3. ASSUME UNCHANGED <<limitOf, divertOf>>
      PROVE  GatesStand'
  BY <1>3 DEF GatesStand
<1> QED
  BY <1>1, <1>2, <1>3, RowsUntouched

-----------------------------------------------------------------------------
(* Requests in flight on an entry, and multiples of MaxTokens.              *)

\* How many requests are in flight on an entry.
Flying(e) == Cardinality(InFlightOn(e))

LEMMA FlyingBound ==
    ASSUME NEW e
    PROVE  /\ IsFiniteSet(InFlightOn(e))
           /\ Flying(e) \in Nat /\ Cardinality(Request) \in Nat
           /\ Flying(e) <= Cardinality(Request)
<1>1. InFlightOn(e) \in SUBSET Request
  BY DEF InFlightOn
<1>2. IsFiniteSet(Request)
  OBVIOUS
<1> QED
  BY <1>1, <1>2, FS_Subset, FS_CardinalityType DEF Flying

\* Multiplication by the constant MaxTokens.
LEMMA Multiples ==
    ASSUME NEW x \in Int, NEW y \in Int
    PROVE  /\ MaxTokens * x \in Int
           /\ MaxTokens * (x + 1) = MaxTokens * x + MaxTokens
           /\ MaxTokens * (x - 1) = MaxTokens * x - MaxTokens
           /\ MaxTokens * (x + y) = MaxTokens * x + MaxTokens * y
           /\ x <= y => MaxTokens * x <= MaxTokens * y
<1> DEFINE M == MaxTokens
<1>1. M \in Nat
  OBVIOUS
<1> HIDE DEF M
<1>2. /\ M * x \in Int /\ M * (x + 1) = M * x + M /\ M * (x - 1) = M * x - M
      /\ M * (x + y) = M * x + M * y
  BY <1>1
<1>3. x <= y => M * x <= M * y
  <2> SUFFICES ASSUME x <= y PROVE M * x <= M * y
    OBVIOUS
  <2>1. PICK d \in Nat : y = x + d
    BY <1>1
  <2>2. M * y = M * x + M * d /\ M * d \in Nat
    BY <1>1, <2>1
  <2> QED
    BY <1>1, <1>2, <2>2
<1> QED
  BY <1>2, <1>3 DEF M

\* A settling request leaves its entry and no other.
LEMMA FlyingAfterSettle ==
    ASSUME NEW r \in Request, phase[r] # "idle", TypeOK, Release(r), NEW e
    PROVE  Flying(e)' = IF e = EntryOf(r) THEN Flying(e) - 1 ELSE Flying(e)
<1>1. /\ phase'[r] = "idle"
      /\ \A q \in Request \ {r} :
            phase'[q] = phase[q] /\ client'[q] = client[q]
            /\ served'[q] = served[q] /\ since'[q] = since[q]
  BY DEF Release, TypeOK
<1>2. InFlightOn(e)' = InFlightOn(e) \ {r}
  BY <1>1 DEF InFlightOn, EntryOf
<1>3. r \in InFlightOn(e) <=> e = EntryOf(r)
  BY DEF InFlightOn
<1>4. IsFiniteSet(InFlightOn(e))
  BY FlyingBound
<1>5. Cardinality(InFlightOn(e) \ {r}) =
          IF r \in InFlightOn(e) THEN Flying(e) - 1 ELSE Flying(e)
  BY <1>4, FS_RemoveElement DEF Flying
<1> QED
  BY <1>2, <1>3, <1>5 DEF Flying

\* An admitted request enters one entry; the requests before it stay.
LEMMA FlyingAfterAdmit ==
    ASSUME TypeOK, NEW r \in Request, NEW k \in Client, NEW a \in Alias, Admit(r, k, a), NEW e
    PROVE  \/ e = <<k, served'[r], month>>
           \/ Flying(e)' = Flying(e)
<1> SUFFICES ASSUME e # <<k, served'[r], month>>
             PROVE  Flying(e)' = Flying(e)
  OBVIOUS
<1>1. /\ phase[r] = "idle"
      /\ client'[r] = k /\ since'[r] = month
      /\ \A q \in Request \ {r} :
            phase'[q] = phase[q] /\ client'[q] = client[q]
            /\ served'[q] = served[q] /\ since'[q] = since[q]
  BY DEF Admit, TypeOK
<1>2. InFlightOn(e)' = InFlightOn(e)
  BY <1>1 DEF InFlightOn, EntryOf
<1> QED
  BY <1>2 DEF Flying

-----------------------------------------------------------------------------
(* The overshoot is bounded and the counter covers the log.                 *)

GatedEntry == Client \X Gated \X Month

Covered(e) == logTokens[e] <= tokens[e] + MaxTokens * missed[e]

\* The bound of BoundedOvershoot for one of the two sums of an entry.
Within(cost, e) ==
    cost + MaxTokens * Flying(e) <= HighestLimit - 1 + MaxTokens * (Cardinality(Request) + missed[e])

LedgerInv ==
    /\ TypeOK
    /\ GatesStand
    /\ \A e \in GatedEntry : Covered(e) /\ Within(tokens[e], e) /\ Within(logTokens[e], e)

LEMMA GatedEntryIsEntry == ASSUME NEW e \in GatedEntry
                           PROVE  e \in Entry
  BY DEF GatedEntry, Entry

\* The numbers of an entry, and what MaxTokens times them is.
LEMMA EntryNumbers ==
    ASSUME TypeOK, NEW e \in Entry
    PROVE  /\ tokens[e] \in Nat /\ logTokens[e] \in Nat /\ missed[e] \in Nat
           /\ Flying(e) \in Nat /\ Cardinality(Request) \in Nat
           /\ MaxTokens * missed[e] \in Nat
           /\ MaxTokens * Flying(e) \in Nat
           /\ MaxTokens * Cardinality(Request) \in Nat
           /\ MaxTokens * (Cardinality(Request) + missed[e])
                 = MaxTokens * Cardinality(Request) + MaxTokens * missed[e]
<1>1. /\ tokens[e] \in Nat /\ logTokens[e] \in Nat /\ missed[e] \in Nat
      /\ Flying(e) \in Nat /\ Cardinality(Request) \in Nat
  BY FlyingBound DEF TypeOK
<1>2. ASSUME NEW n \in Nat PROVE MaxTokens * n \in Nat
  BY SMT
<1> QED
  BY <1>1, <1>2, Multiples

LEMMA LedgerInit == Init => LedgerInv
<1> SUFFICES ASSUME Init PROVE LedgerInv
  OBVIOUS
<1>1. TypeOK /\ GatesStand
  BY TypeInit, GatesInit
<1>2. ASSUME NEW e \in GatedEntry
      PROVE  Covered(e) /\ Within(tokens[e], e) /\ Within(logTokens[e], e)
  <2>1. e \in Entry
    BY GatedEntryIsEntry
  <2>2. tokens[e] = 0 /\ logTokens[e] = 0
    BY <2>1 DEF Init
  <2>3. InFlightOn(e) = {}
    BY DEF Init, InFlightOn
  <2>4. Flying(e) = 0
    BY <2>3, FS_EmptySet DEF Flying
  <2> QED
    BY <1>1, <2>1, <2>2, <2>4, EntryNumbers DEF Covered, Within
<1> QED
  BY <1>1, <1>2 DEF LedgerInv

\* A settling request: one fewer in flight pays for what it adds.
LEMMA SettleKeepsBounds ==
    ASSUME LedgerInv, NEW r \in Request, Settle(r), NEW e \in GatedEntry, TypeOK'
    PROVE  (Covered(e) /\ Within(tokens[e], e) /\ Within(logTokens[e], e))'
<1>0. TypeOK /\ GatesStand /\ e \in Entry
      /\ Covered(e) /\ Within(tokens[e], e) /\ Within(logTokens[e], e)
  BY GatedEntryIsEntry DEF LedgerInv
<1>1. Settled(r) /\ phase[r] # "idle"
  BY <1>0, EveryEndSettles
<1>2. PICK cost \in 0..MaxTokens, total \in 0..MaxTokens, miss \in {0, 1} :
          /\ SettleEffect(r, cost, total, miss)
          /\ limitOf[<<client[r], served[r]>>] # 0 => total <= cost \/ miss = 1
  BY <1>1 DEF Settled
<1>3. /\ Release(r)
      /\ tokens' = [tokens EXCEPT ![EntryOf(r)] = @ + cost]
      /\ logTokens' = [logTokens EXCEPT ![EntryOf(r)] = @ + total]
      /\ missed' = [missed EXCEPT ![EntryOf(r)] = @ + miss]
  BY <1>2 DEF SettleEffect
<1>4. Flying(e)' = IF e = EntryOf(r) THEN Flying(e) - 1 ELSE Flying(e)
  BY <1>0, <1>1, <1>3, FlyingAfterSettle
<1>5. CASE e # EntryOf(r)
  <2>1. tokens'[e] = tokens[e] /\ logTokens'[e] = logTokens[e] /\ missed'[e] = missed[e]
    BY <1>0, <1>3, <1>5 DEF TypeOK
  <2> QED
    BY <1>0, <1>4, <1>5, <2>1 DEF Covered, Within
<1>6. CASE e = EntryOf(r)
  <2>1. /\ tokens'[e] = tokens[e] + cost
        /\ logTokens'[e] = logTokens[e] + total
        /\ missed'[e] = missed[e] + miss
    BY <1>0, <1>3, <1>6 DEF TypeOK
  <2>2. total <= cost \/ miss = 1
    <3>1. client[r] \in Client /\ served[r] \in Gated
      BY <1>6 DEF GatedEntry, EntryOf
    <3> QED
      BY <1>0, <1>2, <3>1 DEF GatesStand
  <2>3. /\ Flying(e) \in Nat /\ missed[e] \in Nat /\ Cardinality(Request) \in Nat
        /\ tokens[e] \in Nat /\ logTokens[e] \in Nat
    BY <1>0, EntryNumbers
  <2>4. /\ MaxTokens * (Flying(e) - 1) = MaxTokens * Flying(e) - MaxTokens
        /\ MaxTokens * Flying(e) \in Int /\ MaxTokens * missed[e] \in Int
        /\ MaxTokens * (missed[e] + 1) = MaxTokens * missed[e] + MaxTokens
    BY <2>3, Multiples
  <2>5. MaxTokens * (missed[e] + miss) = MaxTokens * missed[e] + (IF miss = 1 THEN MaxTokens ELSE 0)
    <3>1. CASE miss = 0
      BY <2>3, <2>4, <3>1
    <3>2. CASE miss = 1
      BY <2>4, <3>2
    <3> QED
      BY <3>1, <3>2
  <2>6. /\ MaxTokens * (Cardinality(Request) + missed[e]) \in Int
        /\ MaxTokens * (Cardinality(Request) + (missed[e] + miss))
              >= MaxTokens * (Cardinality(Request) + missed[e])
        /\ MaxTokens * (Cardinality(Request) + (missed[e] + miss)) \in Int
    <3>1. /\ Cardinality(Request) + missed[e] \in Int
          /\ Cardinality(Request) + (missed[e] + miss) \in Int
          /\ Cardinality(Request) + missed[e] <= Cardinality(Request) + (missed[e] + miss)
      BY <2>3
    <3> QED
      BY <3>1, Multiples
  <2>7. Covered(e)'
    <3>1. logTokens[e] <= tokens[e] + MaxTokens * missed[e]
      BY <1>0 DEF Covered
    <3>2. logTokens[e] + total <= tokens[e] + cost + MaxTokens * (missed[e] + miss)
      BY <2>2, <2>3, <2>4, <2>5, <3>1
    <3> QED
      BY <2>1, <3>2 DEF Covered
  <2>8. ASSUME NEW sum \in Nat, NEW added \in 0..MaxTokens, Within(sum, e)
        PROVE  sum + added + MaxTokens * Flying(e)'
                  <= HighestLimit - 1 + MaxTokens * (Cardinality(Request) + missed'[e])
    <3>1. sum + MaxTokens * Flying(e) <= HighestLimit - 1 + MaxTokens * (Cardinality(Request) + missed[e])
      BY <2>8 DEF Within
    <3>2. MaxTokens * Flying(e)' = MaxTokens * Flying(e) - MaxTokens
      BY <1>4, <1>6, <2>4
    <3>3. missed'[e] = missed[e] + miss
      BY <2>1
    <3> QED
      BY <2>4, <2>6, <3>1, <3>2, <3>3
  <2>9. Within(tokens[e], e)' /\ Within(logTokens[e], e)'
    BY <1>0, <2>1, <2>3, <2>8 DEF Within
  <2> QED
    BY <2>7, <2>9
<1> QED
  BY <1>5, <1>6

\* An admitted request: its counter is below the limit, and the bound has room
\* for every request slot above that.
LEMMA AdmitKeepsBounds ==
    ASSUME LedgerInv, NEW r \in Request, NEW k \in Client, NEW a \in Alias, Admit(r, k, a),
           NEW e \in GatedEntry, TypeOK'
    PROVE  (Covered(e) /\ Within(tokens[e], e) /\ Within(logTokens[e], e))'
<1>0. TypeOK /\ GatesStand /\ e \in Entry
      /\ Covered(e) /\ Within(tokens[e], e) /\ Within(logTokens[e], e)
  BY GatedEntryIsEntry DEF LedgerInv
<1>1. UNCHANGED <<tokens, logTokens, missed>>
  BY DEF Admit
<1>2. Covered(e)'
  BY <1>0, <1>1 DEF Covered
<1>3. CASE Flying(e)' = Flying(e)
  BY <1>0, <1>1, <1>2, <1>3 DEF Within
<1>4. CASE e = <<k, served'[r], month>>
  <2>1. PICK target \in Target(k, a) : served' = [served EXCEPT ![r] = target]
    BY DEF Admit
  <2>2. served'[r] = target /\ target \in Gated
    BY <1>0, <1>4, <2>1 DEF TypeOK, GatedEntry
  <2>3. target = a /\ ~Exhausted(k, a)
    <3>1. <<k, a>> \in Pair
      BY DEF Pair
    <3>2. divertOf[<<k, a>>] \notin Gated
      BY <1>0, <3>1 DEF GatesStand
    <3> QED
      BY <2>1, <2>2, <3>2 DEF Target
  <2>4. tokens[e] <= HighestLimit - 1
    <3>1. limitOf[<<k, a>>] # 0 /\ limitOf[<<k, a>>] \in Limits \cup {0}
      BY <1>0, <2>2, <2>3 DEF GatesStand, TypeOK, Pair
    <3>2. ~(tokens[e] >= limitOf[<<k, a>>])
      BY <1>4, <2>2, <2>3, <3>1 DEF Exhausted
    <3>3. tokens[e] \in Nat
      BY <1>0, EntryNumbers
    <3> QED
      BY <3>1, <3>2, <3>3 DEF Limits
  <2>5. /\ Flying(e)' \in Nat /\ Cardinality(Request) \in Nat
        /\ Flying(e)' <= Cardinality(Request)
    <3>1. InFlightOn(e)' \in SUBSET Request
      BY DEF InFlightOn
    <3> QED
      BY <3>1, FS_Subset, FS_CardinalityType DEF Flying
  <2>6. MaxTokens * Flying(e)' \in Int /\ MaxTokens * Flying(e)' <= MaxTokens * Cardinality(Request)
    <3> DEFINE n == Flying(e)'
               N == Cardinality(Request)
    <3>1. n \in Int /\ N \in Int /\ n <= N
      BY <2>5
    <3> HIDE DEF n, N
    <3>2. MaxTokens * n \in Int /\ MaxTokens * n <= MaxTokens * N
      BY <3>1, Multiples
    <3> QED
      BY <3>2 DEF n, N
  <2>7. /\ logTokens[e] <= tokens[e] + MaxTokens * missed[e]
        /\ tokens[e] \in Nat /\ logTokens[e] \in Nat
        /\ MaxTokens * missed[e] \in Nat /\ MaxTokens * Cardinality(Request) \in Nat
        /\ MaxTokens * (Cardinality(Request) + missed[e])
              = MaxTokens * Cardinality(Request) + MaxTokens * missed[e]
    BY <1>0, EntryNumbers DEF Covered
  <2>8. ASSUME NEW sum \in {tokens[e], logTokens[e]}
        PROVE  sum + MaxTokens * Flying(e)'
                  <= HighestLimit - 1 + MaxTokens * (Cardinality(Request) + missed[e])
    BY <2>4, <2>6, <2>7
  <2>9. Within(tokens[e], e)' /\ Within(logTokens[e], e)'
    BY <1>1, <2>8 DEF Within
  <2> QED
    BY <1>2, <2>9
<1> QED
  BY <1>0, <1>3, <1>4, FlyingAfterAdmit

\* Reconciliation: the counter becomes the log, which is within the bound too.
LEMMA ReconcileKeepsBounds ==
    ASSUME LedgerInv, NEW m \in Month, Reconcile(m), NEW e \in GatedEntry
    PROVE  (Covered(e) /\ Within(tokens[e], e) /\ Within(logTokens[e], e))'
<1>0. TypeOK /\ e \in Entry
      /\ Covered(e) /\ Within(tokens[e], e) /\ Within(logTokens[e], e)
  BY GatedEntryIsEntry DEF LedgerInv
<1>1. /\ tokens'[e] \in {tokens[e], logTokens[e]}
      /\ UNCHANGED <<logTokens, missed, phase, client, served, since>>
  BY <1>0 DEF Reconcile, setUsage, HasQuota, requests
<1>2. InFlightOn(e)' = InFlightOn(e)
  BY <1>1 DEF InFlightOn, EntryOf
<1>3. Flying(e)' = Flying(e)
  BY <1>2 DEF Flying
<1>4. logTokens[e] \in Nat /\ MaxTokens * missed[e] \in Nat
  BY <1>0, EntryNumbers
<1> QED
  BY <1>0, <1>1, <1>3, <1>4 DEF Covered, Within

\* A crash takes requests out of flight and leaves the ledger as it is.
LEMMA RestartKeepsBounds ==
    ASSUME LedgerInv, Restart, NEW e \in GatedEntry
    PROVE  (Covered(e) /\ Within(tokens[e], e) /\ Within(logTokens[e], e))'
<1>0. TypeOK /\ e \in Entry
      /\ Covered(e) /\ Within(tokens[e], e) /\ Within(logTokens[e], e)
  BY GatedEntryIsEntry DEF LedgerInv
<1>1. UNCHANGED <<tokens, logTokens, missed>>
  BY DEF Restart
<1>2. InFlightOn(e)' = {}
  BY DEF Restart, InFlightOn
<1>3. Flying(e)' = 0
  BY <1>2, FS_EmptySet DEF Flying
<1>4. /\ tokens[e] \in Nat /\ logTokens[e] \in Nat /\ MaxTokens * Flying(e) \in Nat
      /\ MaxTokens * (Cardinality(Request) + missed[e]) \in Int
  BY <1>0, EntryNumbers
<1> QED
  BY <1>0, <1>1, <1>3, <1>4 DEF Covered, Within

\* The other steps move neither the ledger nor a request between entries.
LEMMA OthersKeepBounds ==
    ASSUME LedgerInv, [Next]_vars,
           ~ \E r \in Request : Settle(r),
           ~ \E r \in Request, k \in Client, a \in Alias : Admit(r, k, a),
           ~ \E m \in Month : Reconcile(m),
           ~ Restart,
           NEW e \in GatedEntry
    PROVE  (Covered(e) /\ Within(tokens[e], e) /\ Within(logTokens[e], e))'
<1>0. TypeOK /\ Covered(e) /\ Within(tokens[e], e) /\ Within(logTokens[e], e)
  BY DEF LedgerInv
<1>1. UNCHANGED <<tokens, logTokens, missed, client, served, since>>
  BY DEF Next, vars, requests, Refuse, OpenStream, PutQuota, DeleteQuota, SetAllowlist, MonthTurns
<1>2. \A r \in Request : phase'[r] = "idle" <=> phase[r] = "idle"
  <2>1. CASE \E r \in Request, failures \in BOOLEAN : OpenStream(r, failures)
    BY <1>0, <2>1 DEF OpenStream, TypeOK
  <2>2. CASE UNCHANGED phase
    BY <2>2
  <2> QED
    BY <2>1, <2>2 DEF Next, vars, requests, Refuse, PutQuota, DeleteQuota, SetAllowlist, MonthTurns
<1>3. InFlightOn(e)' = InFlightOn(e)
  BY <1>1, <1>2 DEF InFlightOn, EntryOf
<1>4. Flying(e)' = Flying(e)
  BY <1>3 DEF Flying
<1> QED
  BY <1>0, <1>1, <1>4 DEF Covered, Within

\* The invariant the two properties rest on.
THEOREM LedgerInvariant == Spec => []LedgerInv
<1>1. Init => LedgerInv
  BY LedgerInit
<1>2. LedgerInv /\ [Next]_vars => LedgerInv'
  <2> SUFFICES ASSUME LedgerInv, [Next]_vars PROVE LedgerInv'
    OBVIOUS
  <2>1. TypeOK' /\ GatesStand'
    BY TypeStep, GatesStep DEF LedgerInv
  <2>2. ASSUME NEW e \in GatedEntry
        PROVE  (Covered(e) /\ Within(tokens[e], e) /\ Within(logTokens[e], e))'
    BY <2>1, SettleKeepsBounds, AdmitKeepsBounds, ReconcileKeepsBounds, RestartKeepsBounds,
       OthersKeepBounds
  <2> QED
    BY <2>1, <2>2 DEF LedgerInv, GatedEntry
<1> QED
  BY <1>1, <1>2, PTL DEF Spec

\* Whatever operators, reconciliation, crashes and the calendar do, a gated
\* alias never costs more than its highest allowance and one request per slot,
\* and one more per accounting write that failed.
THEOREM OvershootIsBounded == Spec => []BoundedOvershoot
<1>1. LedgerInv => BoundedOvershoot
  BY DEF LedgerInv, BoundedOvershoot, Within, Flying, GatedEntry
<1> QED
  BY <1>1, LedgerInvariant, PTL

\* The counter the gate reads is behind the log by no more than the accounting
\* writes that failed.
THEOREM CounterKeepsUp == Spec => []CounterCoversLog
<1>1. LedgerInv => CounterCoversLog
  BY DEF LedgerInv, CounterCoversLog, Covered, GatedEntry
<1> QED
  BY <1>1, LedgerInvariant, PTL

-----------------------------------------------------------------------------
(* Each month pays its own requests.                                        *)

\* Only a settling request moves counters and requests in one step.
LEMMA OnlySettlingMovesBoth ==
    ASSUME [Next]_vars, phase' # phase, tokens' # tokens
    PROVE  \E r \in Request : Settle(r)
  BY DEF Next, vars, requests, Admit, Refuse, OpenStream, PutQuota, DeleteQuota, SetAllowlist,
         Reconcile, MonthTurns, Restart

\* Tokens come into the log with the row of a success.
LEMMA LoggedUnderPayer ==
    ASSUME TypeOK, [Next]_vars, NEW e \in Entry, logTokens'[e] # logTokens[e]
    PROVE  \E row \in appended' : Payer(row) = e[2]
<1>1. PICK r \in Request : Settle(r)
  BY DEF Next, vars, requests, Admit, Refuse, OpenStream, PutQuota, DeleteQuota, SetAllowlist,
         Reconcile, MonthTurns, Restart
<1>2. PICK total, kept : /\ phase[r] # "idle" /\ LogTokens(r, total, kept)
                         /\ SuccessRow(r, kept) \subseteq appended'
  BY <1>1 DEF Settle, RouteFails, Answer, StreamEnds, StreamBreaks, PostProcessingFails, Finish
<1>3. served[r] \in Alias
  BY <1>2 DEF TypeOK
<1>4. e = EntryOf(r)
  BY <1>2 DEF LogTokens, TypeOK
<1>5. kept
  BY <1>2, <1>4 DEF LogTokens, TypeOK
<1>6. Event(asked[r], served[r], asked[r], served[r]) \in appended'
  BY <1>2, <1>5 DEF SuccessRow, Appends
<1>7. Payer(Event(asked[r], served[r], asked[r], served[r])) = e[2]
  BY <1>3, <1>4, NameAssumption DEF Payer, Event, EntryOf
<1> QED
  BY <1>6, <1>7

\* A settling request moves the counter of the alias that served it, in the
\* month it was admitted in, and no other; reconciliation finds its tokens under
\* that alias.
THEOREM MonthsAreSeparate == Spec => EachMonthPaysItsOwn
<1> DEFINE Pays(r) ==
              /\ phase[r] # "idle" /\ phase'[r] = "idle"
              /\ \A e \in Entry :
                    tokens'[e] # tokens[e] => e = <<client[r], served[r], since[r]>>
           Step == /\ phase' # phase /\ tokens' # tokens => \E r \in Request : Pays(r)
                   /\ \A e \in Entry :
                         logTokens'[e] # logTokens[e] => \E row \in appended' : Payer(row) = e[2]
<1>1. TypeOK /\ [Next]_vars => [Step]_vars
  <2> SUFFICES ASSUME TypeOK, [Next]_vars
               PROVE  Step
    OBVIOUS
  <2>1. ASSUME phase' # phase, tokens' # tokens
        PROVE  \E r \in Request : Pays(r)
    <3>1. PICK r \in Request : Settle(r)
      BY <2>1, OnlySettlingMovesBoth
    <3>2. phase[r] # "idle" /\ Settled(r)
      BY <3>1, EveryEndSettles
    <3>3. PICK cost \in 0..MaxTokens, total \in 0..MaxTokens, miss \in {0, 1} :
              SettleEffect(r, cost, total, miss)
      BY <3>2 DEF Settled
    <3>4. phase'[r] = "idle"
      BY <3>3 DEF SettleEffect, Release, TypeOK
    <3>5. ASSUME NEW e \in Entry, tokens'[e] # tokens[e]
          PROVE  e = <<client[r], served[r], since[r]>>
      BY <3>3, <3>5 DEF SettleEffect, EntryOf, TypeOK
    <3> QED
      BY <3>2, <3>4, <3>5
  <2>2. ASSUME NEW e \in Entry, logTokens'[e] # logTokens[e]
        PROVE  \E row \in appended' : Payer(row) = e[2]
    BY <2>2, LoggedUnderPayer
  <2> QED
    BY <2>1, <2>2
<1>2. Spec => []TypeOK
  BY LedgerTyped
<1>3. Spec => [][Step]_vars
  BY <1>1, <1>2, PTL DEF Spec
<1> QED
  BY <1>3 DEF EachMonthPaysItsOwn
=============================================================================
