---------------------------- MODULE QuotaLedger ----------------------------
(***************************************************************************)
(* The monthly token quota: the gate and the accounting of ChatService,    *)
(* QuotaService, the request log the accounting is rebuilt from, and the   *)
(* reconciliation that rebuilds it.                                        *)
(*                                                                         *)
(* The gate is pre-flight and the accounting post-hoc: between the two a   *)
(* request waits for its provider, and for a stream until its last chunk,  *)
(* while other requests, operators and the calendar move on.               *)
(*                                                                         *)
(* A quota row is a positive limit; limitOf = 0 stands for no row.  Of the *)
(* request log the quota reads sums of total_tokens only; they are kept    *)
(* per entry (client, alias, month), beside the rows the last step added.  *)
(* The `requests' column is counted and read by nothing but reports; it is *)
(* left out.                                                               *)
(***************************************************************************)
EXTENDS Integers, FiniteSets

CONSTANTS
    Client,          \* client ids; every route is behind the API key guard
    Alias,           \* aliases of the registry
    NoClient, NoAlias,
    Request,         \* identities for requests in flight
    LastMonth,       \* bound on the calendar
    MaxTokens,       \* the most one request can cost
    PromptEstimate,  \* estimateTokens([], messages).promptTokens
    HighestLimit,    \* the highest allowance operators set
    Allowlists,      \* the alias lists operators restrict clients to
    Writes,          \* how an INSERT or UPDATE ends: TRUE, or FALSE where the
                     \* database may fail
    Gated            \* aliases whose allowance operators keep in force: the
                     \* row is never removed and no diversion leads there

ASSUME TokenAssumption ==
    /\ LastMonth \in Nat \ {0}
    /\ MaxTokens \in Nat \ {0}
    /\ PromptEstimate \in 1..MaxTokens
    /\ HighestLimit \in Nat \ {0}
    /\ TRUE \in Writes /\ Writes \subseteq BOOLEAN

ASSUME NameAssumption ==
    /\ NoClient \notin Client
    /\ NoAlias \notin Alias
    /\ Gated \subseteq Alias
    /\ Allowlists \subseteq SUBSET Alias
    /\ IsFiniteSet(Request)

VARIABLES
    limitOf,    \* client_alias_quotas.monthly_token_limit
    divertOf,   \* client_alias_quotas.divert_alias_key
    allowed,    \* client_alias_access: no rows means unrestricted
    tokens,     \* client_alias_usage.tokens
    logTokens,  \* request_logs: SUM(total_tokens) by the alias that pays
    month,      \* the UTC month of now()
    phase,      \* where a request is in completions()
    client,     \* whose request it is
    asked,      \* body.model
    served,     \* quotaOutcome.servedAlias, NoAlias while undefined
    since,      \* the month of requestedAt
    appended,   \* the rows the last step added to request_logs
    missed      \* history: accounting writes that failed, per entry

store    == <<limitOf, divertOf, allowed>>
requests == <<phase, client, asked, served, since>>
vars     == <<limitOf, divertOf, allowed, tokens, logTokens, month,
              phase, client, asked, served, since, appended, missed>>

Month == 1..LastMonth

\* PutQuotasDto: a positive number of tokens.
Limits == 1..HighestLimit
Pair  == Client \X Alias
Entry == Client \X Alias \X Month
Phase == {"idle", "routing", "streaming"}

\* model_requested and served_alias of a row, and whose traffic it is about.
Row == [model : Alias, served : Alias \cup {NoAlias},
        asked : Alias, routed : Alias \cup {NoAlias}]

\* The type invariant.
TypeOK ==
    /\ limitOf \in [Pair -> Limits \cup {0}]
    /\ divertOf \in [Pair -> Alias \cup {NoAlias}]
    /\ allowed \in [Client -> SUBSET Alias]
    /\ tokens \in [Entry -> Nat]
    /\ logTokens \in [Entry -> Nat]
    /\ month \in Month
    /\ phase \in [Request -> Phase]
    /\ client \in [Request -> Client \cup {NoClient}]
    /\ asked \in [Request -> Alias \cup {NoAlias}]
    /\ served \in [Request -> Alias \cup {NoAlias}]
    /\ since \in [Request -> Month]
    /\ appended \subseteq Row
    /\ missed \in [Entry -> Nat]
    /\ \A r \in Request :
          phase[r] # "idle" =>
              client[r] \in Client /\ asked[r] \in Alias /\ served[r] \in Alias

\* Operators have put the Gated aliases under quota; the rest starts open.
Init ==
    /\ limitOf \in [Pair -> Limits \cup {0}]
    /\ \A k \in Client, a \in Alias : limitOf[<<k, a>>] # 0 <=> a \in Gated
    /\ divertOf = [e \in Pair |-> NoAlias]
    /\ allowed = [k \in Client |-> {}]
    /\ tokens = [e \in Entry |-> 0]
    /\ logTokens = [e \in Entry |-> 0]
    /\ month = 1
    /\ phase = [r \in Request |-> "idle"]
    /\ client = [r \in Request |-> NoClient]
    /\ asked = [r \in Request |-> NoAlias]
    /\ served = [r \in Request |-> NoAlias]
    /\ since = [r \in Request |-> 1]
    /\ appended = {}
    /\ missed = [e \in Entry |-> 0]

(***************************************************************************)
(* The gates                                                               *)
(***************************************************************************)

IsPermitted(k, a) == allowed[k] = {} \/ a \in allowed[k]

Exhausted(k, a) ==
    limitOf[<<k, a>>] # 0 /\ tokens[<<k, a, month>>] >= limitOf[<<k, a>>]

\* Mutant: the diversion is returned without asking whether there is one.
Target_NoThrow(k, a) == IF Exhausted(k, a) THEN {divertOf[<<k, a>>]} ELSE {a}

\* resolveTarget: the alias to route to, or none for a QuotaExhaustedError.
Target(k, a) ==
    IF Exhausted(k, a) THEN {divertOf[<<k, a>>]} \ {NoAlias} ELSE {a}

(***************************************************************************)
(* The request log and the counters                                        *)
(***************************************************************************)

\* COALESCE(served_alias, model_requested)
Payer(row) == IF row.served = NoAlias THEN row.model ELSE row.served

\* Mutant: usage is recorded for the alias the client asked for.
EntryOf_Asked(r) == <<client[r], asked[r], since[r]>>

\* Mutant: the period is the month of the write.
EntryOf_WriteTime(r) == <<client[r], served[r], month>>

\* What a request is billed to: the alias routed, in the month it came in.
EntryOf(r) == <<client[r], served[r], since[r]>>

\* buildEvent, for traffic that asked for one alias and was routed to another.
Event(model, servedAlias, ask, routed) ==
    [model |-> model, served |-> servedAlias, asked |-> ask, routed |-> routed]

\* A row, when its append works: tryAppend swallows failures.
Appends(r, model, servedAlias, kept) ==
    IF kept THEN {Event(model, servedAlias, asked[r], served[r])} ELSE {}

\* recordFailedAttempts: its rows carry no served_alias.
AttemptRows(r, failures) == Appends(r, asked[r], NoAlias, failures)

\* One total_tokens is added to the log if the row was kept, and recordUsage
\* counts `cost' if the pair has a quota row and the write works.
LogTokens(r, total, kept) ==
    logTokens' = [logTokens EXCEPT ![EntryOf(r)] = @ + IF kept THEN total ELSE 0]

\* recordUsage returns early for a pair without a quota row.
HasQuota(k, a) == limitOf[<<k, a>>] # 0

\* Both write the counter: one adds to it, one replaces it.
addUsage(e, cost)        == tokens' = [tokens EXCEPT ![e] = @ + cost]
setUsage(counted, total) == tokens' = [e \in Entry |-> IF e \in counted THEN total[e] ELSE tokens[e]]

RecordUsage(r, cost, written) ==
    LET gated == HasQuota(client[r], served[r]) IN
    /\ addUsage(EntryOf(r), IF gated /\ written THEN cost ELSE 0)
    /\ missed' = [missed EXCEPT ![EntryOf(r)] = @ + IF gated /\ ~written THEN 1 ELSE 0]

Release(r) ==
    /\ phase' = [phase EXCEPT ![r] = "idle"]
    /\ client' = [client EXCEPT ![r] = NoClient]
    /\ asked' = [asked EXCEPT ![r] = NoAlias]
    /\ served' = [served EXCEPT ![r] = NoAlias]
    /\ since' = [since EXCEPT ![r] = 1]

Finish(r, newRows) ==
    /\ Release(r)
    /\ appended' = newRows
    /\ UNCHANGED <<store, month>>

(***************************************************************************)
(* completions()                                                           *)
(***************************************************************************)

\* The allowlist and the quota gate, up to the first await of route().
Admit(r, k, a) ==
    /\ phase[r] = "idle"
    /\ IsPermitted(k, a)
    /\ \E target \in Target(k, a) : served' = [served EXCEPT ![r] = target]
    /\ client' = [client EXCEPT ![r] = k]
    /\ asked' = [asked EXCEPT ![r] = a]
    /\ since' = [since EXCEPT ![r] = month]
    /\ phase' = [phase EXCEPT ![r] = "routing"]
    /\ appended' = {}
    /\ UNCHANGED <<store, tokens, logTokens, month, missed>>

\* AliasNotPermittedError or QuotaExhaustedError: a failure row, no usage.
Refuse(k, a, kept) ==
    /\ ~IsPermitted(k, a) \/ Target(k, a) = {}
    /\ appended' = IF kept THEN {Event(a, NoAlias, a, NoAlias)} ELSE {}
    /\ UNCHANGED <<store, tokens, logTokens, month, requests, missed>>

\* RoutingFailedError names the alias routed as the model; any other error
\* leaves body.model.
RouteFails(r, model, kept) ==
    /\ phase[r] = "routing"
    /\ model \in {asked[r], served[r]}
    /\ Finish(r, Appends(r, model, served[r], kept))
    /\ UNCHANGED <<tokens, logTokens, missed>>

\* Mutant: the row of a success does not say which alias served it.
SuccessRow_NoServed(r, kept) == Appends(r, asked[r], NoAlias, kept)

SuccessRow(r, kept) == Appends(r, asked[r], served[r], kept)

\* A whole completion: attempts rows, success row, accounting, in one go.
\* No usage in the answer is a NULL total and counts nothing.
Answer(r, failures, total, kept, written) ==
    /\ phase[r] = "routing"
    /\ Finish(r, AttemptRows(r, failures) \cup SuccessRow(r, kept))
    /\ LogTokens(r, total, kept)
    /\ RecordUsage(r, total, written)

OpenStream(r, failures) ==
    /\ phase[r] = "routing"
    /\ phase' = [phase EXCEPT ![r] = "streaming"]
    /\ appended' = AttemptRows(r, failures)
    /\ UNCHANGED <<store, tokens, logTokens, month, client, asked, served, since, missed>>

\* Mutant: a drained stream is billed like an aborted one.
StreamEnds_PromptOnly(r, total, kept, written) ==
    /\ phase[r] = "streaming"
    /\ Finish(r, SuccessRow(r, kept))
    /\ LogTokens(r, total, kept)
    /\ RecordUsage(r, IF total < PromptEstimate THEN total ELSE PromptEstimate, written)

\* The last chunk: usage of the stream, or the estimate of both halves.
StreamEnds(r, total, kept, written) ==
    /\ phase[r] = "streaming"
    /\ Finish(r, SuccessRow(r, kept))
    /\ LogTokens(r, total, kept)
    /\ RecordUsage(r, total, written)

\* The stream threw: an `ok' row with NULL tokens, a prompt-only estimate.
StreamBreaks(r, kept, written) ==
    /\ phase[r] = "streaming"
    /\ Finish(r, SuccessRow(r, kept))
    /\ RecordUsage(r, PromptEstimate, written)
    /\ UNCHANGED logTokens

\* The handler of the drained stream threw before its row: no row, and the
\* trailing catch accounts the prompt.
PostProcessingFails(r, written) ==
    /\ phase[r] = "streaming"
    /\ Finish(r, {})
    /\ RecordUsage(r, PromptEstimate, written)
    /\ UNCHANGED logTokens

(***************************************************************************)
(* Operators, the calendar and crashes                                     *)
(***************************************************************************)

\* The quota row of a pair as it is written, or deleted (limit 0).
WriteQuota(k, a, limit, divert) ==
    /\ limitOf' = [limitOf EXCEPT ![<<k, a>>] = limit]
    /\ divertOf' = [divertOf EXCEPT ![<<k, a>>] = divert]

\* An alias is not diverted to itself.
assertAliasesExist(a, divert) == divert \in (Alias \ {a}) \cup {NoAlias}

\* PUT /admin/clients/:id/quotas, for one entry.
PutQuota(k, a, limit, divert) ==
    /\ assertAliasesExist(a, divert) /\ divert \notin Gated
    /\ WriteQuota(k, a, limit, divert)
    /\ appended' = {}
    /\ UNCHANGED <<allowed, tokens, logTokens, month, requests, missed>>

\* DELETE /admin/clients/:id/quotas/:aliasKey leaves the usage rows.
DeleteQuota(k, a) ==
    /\ a \notin Gated
    /\ HasQuota(k, a)
    /\ WriteQuota(k, a, 0, NoAlias)
    /\ appended' = {}
    /\ UNCHANGED <<allowed, tokens, logTokens, month, requests, missed>>

\* PUT (a non-empty list) and DELETE (none) of /admin/clients/:id/aliases.
SetAllowlist(k, aliases) ==
    /\ allowed' = [allowed EXCEPT ![k] = aliases]
    /\ appended' = {}
    /\ UNCHANGED <<limitOf, divertOf, tokens, logTokens, month, requests, missed>>

\* POST /admin/quotas/reconcile?dryRun=false, one synchronous pass: the
\* counters of the pairs with a quota row become what the log says.
Reconcile(m) ==
    /\ setUsage({e \in Entry : e[3] = m /\ HasQuota(e[1], e[2])}, logTokens)
    /\ appended' = {}
    /\ UNCHANGED <<store, logTokens, month, requests, missed>>

MonthTurns ==
    /\ month < LastMonth
    /\ month' = month + 1
    /\ appended' = {}
    /\ UNCHANGED <<store, tokens, logTokens, requests, missed>>

\* The process dies and comes back: the database is all that is left.
Restart ==
    /\ \E r \in Request : phase[r] # "idle"
    /\ phase' = [r \in Request |-> "idle"]
    /\ client' = [r \in Request |-> NoClient]
    /\ asked' = [r \in Request |-> NoAlias]
    /\ served' = [r \in Request |-> NoAlias]
    /\ since' = [r \in Request |-> 1]
    /\ appended' = {}
    /\ UNCHANGED <<store, tokens, logTokens, month, missed>>

(***************************************************************************)
(* Specification                                                           *)
(***************************************************************************)

Settle(r) ==
    \/ \E model \in Alias, kept \in Writes : RouteFails(r, model, kept)
    \/ \E failures \in BOOLEAN, kept, written \in Writes, total \in 0..MaxTokens :
          Answer(r, failures, total, kept, written)
    \/ \E total \in 1..MaxTokens, kept, written \in Writes : StreamEnds(r, total, kept, written)
    \/ \E kept, written \in Writes : StreamBreaks(r, kept, written)
    \/ \E written \in Writes : PostProcessingFails(r, written)

Next ==
    \/ \E r \in Request, k \in Client, a \in Alias : Admit(r, k, a)
    \/ \E k \in Client, a \in Alias, kept \in Writes : Refuse(k, a, kept)
    \/ \E r \in Request : Settle(r)
    \/ \E r \in Request, failures \in BOOLEAN : OpenStream(r, failures)
    \/ \E k \in Client, a \in Alias, limit \in Limits, divert \in Alias \cup {NoAlias} :
          PutQuota(k, a, limit, divert)
    \/ \E k \in Client, a \in Alias : DeleteQuota(k, a)
    \/ \E k \in Client, aliases \in Allowlists \cup {{}} : SetAllowlist(k, aliases)
    \/ \E m \in Month : Reconcile(m)
    \/ MonthTurns
    \/ Restart

Spec == Init /\ [][Next]_vars

\* Providers answer or time out.
FairSpec == Spec /\ \A r \in Request : WF_vars(Settle(r))

(***************************************************************************)
(* Properties                                                              *)
(***************************************************************************)

InFlightOn(e) ==
    {r \in Request : phase[r] # "idle" /\ EntryOf(r) = e}

\* The overshoot of the post-paid gate is bounded: whatever operators do to the
\* limits and whenever reconciliation runs, a gated alias never costs more than
\* its highest allowance and one request per request slot, and one more per
\* accounting write that failed; in the counter and in the log alike.  Diverted
\* traffic, in particular, does not touch the alias it was diverted from.
BoundedOvershoot ==
    \A k \in Client, a \in Gated, m \in Month :
        LET e == <<k, a, m>> IN
        \A cost \in {tokens[e], logTokens[e]} :
            cost + MaxTokens * Cardinality(InFlightOn(e))
                <= HighestLimit - 1 + MaxTokens * (Cardinality(Request) + missed[e])

\* The gate never trusts a counter behind the log by more than the accounting
\* writes that failed: without such a failure reconciliation can only find the
\* log short, never the counter.
CounterCoversLog ==
    \A k \in Client, a \in Gated, m \in Month :
        logTokens[<<k, a, m>>] <= tokens[<<k, a, m>>] + MaxTokens * missed[<<k, a, m>>]

\* A request is billed to the month it was admitted in, however long it takes:
\* a settling request moves no counter of another month or another alias; and
\* tokens it adds to the log are in a row that reconciliation, which groups by
\* COALESCE(served_alias, model_requested), counts for that very alias.
EachMonthPaysItsOwn ==
    [][/\ phase' # phase /\ tokens' # tokens =>
             \E r \in Request :
                /\ phase[r] # "idle" /\ phase'[r] = "idle"
                /\ \A e \in Entry :
                      tokens'[e] # tokens[e] => e = <<client[r], served[r], since[r]>>
       /\ \A e \in Entry :
             logTokens'[e] # logTokens[e] => \E row \in appended' : Payer(row) = e[2]]_vars

\* "Never lose the spend": what ChatService says of an aborted stream.  No
\* repair takes spend off a counter.
NoSpendIsLost ==
    [][\A e \in Entry : tokens'[e] >= tokens[e]]_vars
=============================================================================
