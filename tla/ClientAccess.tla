---------------------------- MODULE ClientAccess ----------------------------
(***************************************************************************)
(* API clients and their keys: the table `clients', the operators' changes *)
(* to it (AdminClientsController over ClientService and ClientRepository), *)
(* and the verification of a key through the Redis cache in front of it    *)
(* (ApiKeyAuthGuard, ClientService.verifyApiKey, ClientAuthCache).         *)
(*                                                                         *)
(* A verification waits once, for the answer of Redis; then it runs to its *)
(* verdict.  A verified client is written to the cache without waiting:    *)
(* the command travels while operators change the row it was read from.    *)
(* Commands of one connection keep their order; after a broken connection  *)
(* they are sent again, and one that was executed is executed twice.       *)
(*                                                                         *)
(* Time is kept as ages and remaining lifetimes.  A key stands for itself, *)
(* its hash and its prefix; the terms of a client are its scopes and rate  *)
(* limits, which the guards behind this one read from the same record.     *)
(***************************************************************************)
EXTENDS Integers, Sequences, FiniteSets

CONSTANTS
    Client,      \* client ids
    Key,         \* the keys generateApiKey will produce, a bound on how many
    PrefixOf,    \* their first eight characters
    Terms,       \* scopes and limits a client may have
    Admin,       \* the client and the terms of the first boot
    AdminTerms,
    Request,     \* verifications that may overlap
    NoKey,       \* no key
    TTL,         \* lifetime of a cache entry, 300 s
    MaxPending,  \* how long a command to Redis or its answer may be on its way
    MaxFills,    \* how many cache writes may be on their way at once
    Throttle     \* TOUCH_THROTTLE_MS

ASSUME ClientAssumption ==
    /\ TTL \in Nat \ {0} /\ MaxPending \in Nat /\ MaxFills \in Nat /\ Throttle \in Nat \ {0}
    /\ Admin \in Client /\ AdminTerms \in Terms /\ NoKey \notin Key
    /\ Key \subseteq DOMAIN PrefixOf

VARIABLES
    rows,     \* clients: the rows by id
    issued,   \* the keys generated so far
    cache,    \* Redis: entries by key
    fills,    \* cache.set commands on their way, oldest first
    request,  \* each request: the key it presents and what Redis answered
    touched,  \* lastTouchedAt: the age of the stamp by client id
    verdict,  \* the last verdict
    past      \* history: what the table said of a key until lately

vars == <<rows, issued, cache, fills, request, touched, verdict, past>>

\* What a verification asserts: this key is that client's, on those terms.
Fact  == [key : Key, client : Client, terms : Terms]
Idle  == [key |-> NoKey, hit |-> {}, age |-> 0]
NoVerdict == [key |-> NoKey, served |-> {}]
Never == Throttle + 1
Bound == TTL + 2 * MaxPending

RowSet == [key : Key, terms : Terms, revoked : BOOLEAN, used : 0..(Throttle + 1)]

TypeOK ==
    /\ DOMAIN rows \subseteq Client /\ \A c \in DOMAIN rows : rows[c] \in RowSet
    /\ issued \subseteq Key
    /\ DOMAIN cache \subseteq issued
    /\ \A k \in DOMAIN cache :
          /\ cache[k].fact \in Fact /\ cache[k].fact.key = k
          /\ cache[k].life \in 1..TTL
    /\ Len(fills) <= MaxFills
    /\ \A i \in DOMAIN fills : fills[i] \in [fact : Fact, age : 0..MaxPending]
    /\ \A r \in Request :
          \/ request[r] = Idle
          \/ request[r] \in [key : issued, hit : SUBSET Fact, age : 0..MaxPending]
    /\ touched \in [Client -> 0..Throttle]
    /\ DOMAIN past \subseteq Fact /\ \A f \in DOMAIN past : past[f] \in 0..Bound

-----------------------------------------------------------------------------
(* The table.                                                               *)

FactOf(c) == [key |-> rows[c].key, client |-> c, terms |-> rows[c].terms]
Active    == {c \in DOMAIN rows : ~rows[c].revoked}
Facts     == {FactOf(c) : c \in Active}

\* Mutant: the prefix scan forgets revoked_at.
findActiveByPrefix_AnyRow(prefix) == {c \in DOMAIN rows : PrefixOf[rows[c].key] = prefix}

\* One row of those with this prefix; the statement fetches a single one.
findActiveByPrefix(prefix) == {c \in Active : PrefixOf[rows[c].key] = prefix}

\* The facts that the table no longer states start to age.
Remember ==
    past' = [f \in (DOMAIN past \cup Facts) \ Facts' |-> IF f \in Facts THEN 0 ELSE past[f]]

Row(key, terms) == [key |-> key, terms |-> terms, revoked |-> FALSE, used |-> Never]

\* What the service makes of the table: a new client, other terms, a new key.
Inserted(table, c, key, terms) ==
    [d \in DOMAIN table \cup {c} |-> IF d = c THEN Row(key, terms) ELSE table[d]]
Updated(table, c, terms) == [table EXCEPT ![c].terms = terms]
Rekeyed(table, c, key) == [table EXCEPT ![c].key = key]

\* A key is issued once.
Mint(key) == key \notin issued /\ issued' = issued \cup {key}

Create(c, key, terms) ==
    /\ c \notin DOMAIN rows
    /\ Mint(key)
    /\ rows' = Inserted(rows, c, key, terms)
    /\ Remember
    /\ UNCHANGED <<cache, fills, request, touched, verdict>>

\* PATCH also changes a revoked client.
Update(c, terms) ==
    /\ c \in DOMAIN rows
    /\ rows' = Updated(rows, c, terms)
    /\ Remember
    /\ UNCHANGED <<issued, cache, fills, request, touched, verdict>>

\* The old key stays in the cache.
RotateKey(c, key) ==
    /\ c \in Active
    /\ Mint(key)
    /\ rows' = Rekeyed(rows, c, key)
    /\ Remember
    /\ UNCHANGED <<cache, fills, request, touched, verdict>>

Revoke(c) ==
    /\ c \in DOMAIN rows
    /\ rows' = [rows EXCEPT ![c].revoked = TRUE]
    /\ Remember
    /\ UNCHANGED <<issued, cache, fills, request, touched, verdict>>

Delete(c) ==
    /\ c \in DOMAIN rows
    /\ rows' = [d \in DOMAIN rows \ {c} |-> rows[d]]
    /\ Remember
    /\ UNCHANGED <<issued, cache, fills, request, touched, verdict>>

-----------------------------------------------------------------------------
(* Verification.                                                            *)

\* Mutant: the failing write leaves its stamp.
Touch_KeepsStamp(c) ==
    \/ /\ touched[c] < Throttle
       /\ UNCHANGED <<rows, touched>>
    \/ /\ touched[c] = Throttle
       /\ touched' = [touched EXCEPT ![c] = 0]
       /\ rows' = IF c \in DOMAIN rows THEN [rows EXCEPT ![c].used = 0] ELSE rows
    \/ /\ touched[c] = Throttle
       /\ touched' = [touched EXCEPT ![c] = 0]
       /\ UNCHANGED rows

\* touchLastUsedIfStale: a stamp younger than the throttle skips the write; a
\* failing write takes its stamp back.  A row that is gone is not updated.
Touch(c) ==
    \/ /\ touched[c] < Throttle
       /\ UNCHANGED <<rows, touched>>
    \/ /\ touched[c] = Throttle
       /\ touched' = [touched EXCEPT ![c] = 0]
       /\ rows' = IF c \in DOMAIN rows THEN [rows EXCEPT ![c].used = 0] ELSE rows
    \/ /\ touched[c] = Throttle
       /\ UNCHANGED <<rows, touched>>

\* cache.get reads Redis; the answer is on its way.  A failing Redis is a miss.
Present(r, key) ==
    /\ request[r] = Idle
    /\ \E hit \in {{}, IF key \in DOMAIN cache THEN {cache[key].fact} ELSE {}} :
          request' = [request EXCEPT ![r] = [key |-> key, hit |-> hit, age |-> 0]]
    /\ UNCHANGED <<rows, issued, cache, fills, touched, verdict, past>>

\* The hot path: no look at the table.
AcceptCached(r, fact) ==
    /\ request[r] # Idle /\ fact \in request[r].hit
    /\ Touch(fact.client)
    /\ verdict' = [key |-> request[r].key, served |-> {fact}]
    /\ request' = [request EXCEPT ![r] = Idle]
    /\ UNCHANGED <<issued, cache, fills, past>>

\* The cold path: one row with the prefix, whose hash decides.
Accept(r, c) ==
    /\ request[r] # Idle /\ request[r].hit = {}
    /\ c \in findActiveByPrefix(PrefixOf[request[r].key])
    /\ rows[c].key = request[r].key
    /\ Len(fills) < MaxFills
    /\ Touch(c)
    /\ fills' = Append(fills, [fact |-> FactOf(c), age |-> 0])
    /\ verdict' = [key |-> request[r].key, served |-> {FactOf(c)}]
    /\ request' = [request EXCEPT ![r] = Idle]
    /\ UNCHANGED <<issued, cache, past>>

\* No row with the prefix, or one with another hash.
Refuse(r) ==
    LET candidates == findActiveByPrefix(PrefixOf[request[r].key])
    IN  /\ request[r] # Idle /\ request[r].hit = {}
        /\ candidates = {} \/ \E c \in candidates : rows[c].key # request[r].key
        /\ verdict' = [key |-> request[r].key, served |-> {}]
        /\ request' = [request EXCEPT ![r] = Idle]
        /\ UNCHANGED <<rows, issued, cache, fills, touched, past>>

-----------------------------------------------------------------------------
(* Redis, time and the process.                                             *)

\* Mutant: the cache key is the prefix alone.
Entry_ByPrefix(fact) ==
    [k \in {j \in issued : PrefixOf[j] = PrefixOf[fact.key]} |-> [fact |-> fact, life |-> TTL]]

\* cacheKey holds the hash of the whole key.
Entry(fact) == [k \in {fact.key} |-> [fact |-> fact, life |-> TTL]]

\* The oldest write is executed; its reply may be lost, and it is sent again.
FillLands(resent) ==
    /\ fills # <<>>
    /\ LET entry == Entry(Head(fills).fact)
       IN  cache' = [k \in DOMAIN cache \cup DOMAIN entry |->
                        IF k \in DOMAIN entry THEN entry[k] ELSE cache[k]]
    /\ fills' = IF resent THEN fills ELSE Tail(fills)
    /\ UNCHANGED <<rows, issued, request, touched, verdict, past>>

FillFails ==
    /\ fills # <<>>
    /\ fills' = Tail(fills)
    /\ UNCHANGED <<rows, issued, cache, request, touched, verdict, past>>

\* Redis restarts without its data, or evicts a key.
Evict(keys) ==
    /\ keys # {} /\ keys \subseteq DOMAIN cache
    /\ cache' = [k \in DOMAIN cache \ keys |-> cache[k]]
    /\ UNCHANGED <<rows, issued, fills, request, touched, verdict, past>>

Older(age, limit) == IF age < limit THEN age + 1 ELSE limit

\* Mutant: entries have no expiry.
Expire_Never(entries) == entries

\* One unit of time on the entries of Redis.
Expire(entries) ==
    [k \in {j \in DOMAIN entries : entries[j].life > 1} |->
        [entries[k] EXCEPT !.life = @ - 1]]

Tick ==
    /\ \A i \in DOMAIN fills : fills[i].age < MaxPending
    /\ \A r \in Request : request[r] # Idle => request[r].age < MaxPending
    /\ cache' = Expire(cache)
    /\ fills' = [i \in DOMAIN fills |-> [fills[i] EXCEPT !.age = @ + 1]]
    /\ request' = [r \in Request |-> IF request[r] = Idle THEN Idle
                                     ELSE [request[r] EXCEPT !.age = @ + 1]]
    /\ touched' = [c \in Client |-> Older(touched[c], Throttle)]
    /\ rows' = [c \in DOMAIN rows |-> [rows[c] EXCEPT !.used =
                    IF @ = Never THEN Never ELSE Older(@, Throttle)]]
    /\ past' = [f \in {g \in DOMAIN past : past[g] < Bound} |-> past[f] + 1]
    /\ UNCHANGED <<issued, verdict>>

\* ensureDefaultAdminClient: an empty table gets a first client.
Boot(table, keys) ==
    \/ /\ DOMAIN table # {}
       /\ rows' = table /\ issued' = keys
    \/ /\ DOMAIN table = {}
       /\ \E key \in Key \ keys :
             /\ rows' = Inserted(table, Admin, key, AdminTerms)
             /\ issued' = keys \cup {key}

\* The process loses its requests, its writes on their way and its stamps.
Restart ==
    /\ Boot(rows, issued)
    /\ fills' = <<>>
    /\ request' = [r \in Request |-> Idle]
    /\ touched' = [c \in Client |-> Throttle]
    /\ verdict' = NoVerdict
    /\ Remember
    /\ UNCHANGED cache

Init ==
    /\ \E key \in Key : rows = [c \in {Admin} |-> Row(key, AdminTerms)] /\ issued = {key}
    /\ cache = [k \in {} |-> 0]
    /\ fills = <<>>
    /\ request = [r \in Request |-> Idle]
    /\ touched = [c \in Client |-> Throttle]
    /\ verdict = NoVerdict
    /\ past = [f \in {} |-> 0]

Next ==
    \/ \E c \in Client, key \in Key : RotateKey(c, key) \/ \E t \in Terms : Create(c, key, t)
    \/ \E c \in Client : Revoke(c) \/ Delete(c) \/ \E t \in Terms : Update(c, t)
    \/ \E r \in Request :
          \/ \E key \in issued : Present(r, key)
          \/ \E fact \in request[r].hit : AcceptCached(r, fact)
          \/ \E c \in Client : Accept(r, c)
          \/ Refuse(r)
    \/ \E resent \in BOOLEAN : FillLands(resent)
    \/ FillFails
    \/ \E keys \in SUBSET DOMAIN cache : Evict(keys)
    \/ Tick
    \/ Restart

Spec == Init /\ [][Next]_vars

(***************************************************************************)
(* Properties                                                              *)
(***************************************************************************)

\* A request has its verdict in this step.
Decides(r) == request[r] # Idle /\ request'[r] = Idle /\ verdict' # NoVerdict

\* A request is served as the client, with the scopes and limits, that the table
\* gave its key at most TTL and two journeys ago: that long, whatever writes
\* were late, resent or overtaken, a revoked, rotated, deleted or changed
\* client goes on as it was, and no longer.
ServedAsOfLately ==
    [][\A r \in Request : Decides(r) =>
          verdict'.served \subseteq Facts \cup DOMAIN past]_vars

\* The key of an active client is refused only when another active client's
\* key begins with the same eight characters.
RefusedWithReason ==
    [][\A r \in Request : Decides(r) /\ verdict'.served = {} =>
          \A c \in Active : rows[c].key = request[r].key =>
              \E d \in Active \ {c} : PrefixOf[rows[d].key] = PrefixOf[rows[c].key]]_vars

\* As long as a stamp holds writes back, last_used_at carries the instant of
\* that stamp, or the row is younger than the stamp and has not been written.
StampMeansWritten ==
    \A c \in DOMAIN rows : touched[c] < Throttle => rows[c].used \in {touched[c], Never}
=============================================================================
