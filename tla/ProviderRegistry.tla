-------------------------- MODULE ProviderRegistry --------------------------
(***************************************************************************)
(* Providers above the alias tables, the resolution of a requested name    *)
(* (ProviderService.resolveChain) and the cache of OpenAI clients          *)
(* (clientFor).                                                            *)
(*                                                                         *)
(* A request reads the registry once: route() resolves the whole chain,    *)
(* with the base URL and key of each entry, and then awaits one entry      *)
(* after another while operators edit the tables.  Base URL and key        *)
(* variable are one value, an endpoint; the environment never changes.     *)
(***************************************************************************)
EXTENDS AliasTables

CONSTANTS
    Endpoint,      \* base URLs and the names of key variables
    KeySet,        \* the endpoints whose key variable is set
    SeedEndpoint,  \* the providers of the seed file, others "absent"
    DefaultAlias,  \* the alias `default'
    Unknown,       \* a name that is no alias, model or path
    Request        \* identities for requests in flight

ASSUME EndpointAssumption ==
    /\ "absent" \notin Endpoint
    /\ KeySet \subseteq Endpoint
    /\ SeedEndpoint \in [Provider -> Endpoint \cup {"absent"}]
    /\ \A path \in DOMAIN SeedModels : SeedEndpoint[path[1]] # "absent"
    /\ DefaultAlias \in Alias
    /\ Unknown \notin Alias \cup ModelKey \cup Path

VARIABLES
    endpoint,  \* providers: where each is reached, "absent" without a row
    clients,   \* ProviderService.clients: the endpoint of each cached client
    held,      \* the entries a request in flight has resolved and not tried
    call       \* the last upstream call: what was resolved, what was used

regVars == <<entries, weights, strategyRow, models, endpoint, clients, held, call>>

Resolved == [provider : Provider, endpoint : Endpoint, upstream : Upstream]
NoCall   == [resolved |-> "absent", used |-> "absent"]

TypeOK ==
    /\ TablesTypeOK
    /\ endpoint \in [Provider -> Endpoint \cup {"absent"}]
    /\ clients \in [Provider -> Endpoint \cup {"absent"}]
    /\ held \in [Request -> SUBSET Resolved]
    /\ call \in [resolved : Endpoint \cup {"absent"}, used : Endpoint \cup {"absent"}]

-----------------------------------------------------------------------------
(* Resolution.                                                              *)

Known(p) == endpoint[p] # "absent"

\* resolvePath and buildResolved throw unless provider, model and key are there.
Buildable(path) == Known(path[1]) /\ Configured(path) /\ endpoint[path[1]] \in KeySet

Build(path) ==
    [provider |-> path[1], endpoint |-> endpoint[path[1]], upstream |-> models[path]]

\* findModel: the first provider by id that has the model.
Owners(key) == {p \in Provider : Configured(<<p, key>>)}
FindModel(key) == <<CHOOSE p \in Owners(key) : \A q \in Owners(key) : p <= q, key>>

\* The paths a requested name stands for, in the order resolveChain tries to
\* read it: an alias, a path, a model key, the default alias, nothing.
PathsOf(name) ==
    IF name \in Alias /\ Exists(name) THEN ChainOf(name)
    ELSE IF name \in Path THEN <<name>>
    ELSE IF name \in ModelKey /\ Owners(name) # {} THEN <<FindModel(name)>>
    ELSE ChainOf(DefaultAlias)

\* One entry that cannot be built fails the whole chain.
Resolves(name) ==
    /\ PathsOf(name) # <<>>
    /\ \A k \in DOMAIN PathsOf(name) : Buildable(PathsOf(name)[k])

ResolveChain(name) == [k \in DOMAIN PathsOf(name) |-> Build(PathsOf(name)[k])]

Name == Alias \cup ModelKey \cup Path \cup {Unknown}

-----------------------------------------------------------------------------
Reset == /\ clients = [p \in Provider |-> "absent"]
         /\ held = [r \in Request |-> {}]
         /\ call = NoCall

RegInit ==
    /\ Init
    /\ endpoint = SeedEndpoint
    /\ Reset

\* The endpoint of the client made for a provider: the first caller fixes it
\* for the life of the process.
clientFor(entry) ==
    IF clients[entry.provider] = "absent" THEN entry.endpoint ELSE clients[entry.provider]

\* callUpstream: the client of this entry, made if need be, and its request.
CallUpstream(entry) ==
    /\ clients' = [clients EXCEPT ![entry.provider] = clientFor(entry)]
    /\ call' = [resolved |-> entry.endpoint, used |-> clientFor(entry)]

\* route() up to its first await; the strategy picks the entry.
Ask(r, name, k) ==
    /\ held[r] = {}
    /\ Resolves(name)
    /\ k \in DOMAIN ResolveChain(name)
    /\ CallUpstream(ResolveChain(name)[k])
    /\ held' = [held EXCEPT ![r] = {ResolveChain(name)[i] : i \in DOMAIN ResolveChain(name) \ {k}}]
    /\ UNCHANGED <<tables, endpoint>>

\* The entry failed: on to another one, as it was resolved at the start.
FallBack(r, entry) ==
    /\ entry \in held[r]
    /\ CallUpstream(entry)
    /\ held' = [held EXCEPT ![r] = @ \ {entry}]
    /\ UNCHANGED <<tables, endpoint>>

Answered(r) ==
    /\ held[r] # {}
    /\ held' = [held EXCEPT ![r] = {}]
    /\ UNCHANGED <<tables, endpoint, clients, call>>

\* The row of a provider as it is inserted, updated or deleted.
WriteProvider(p, e) == endpoint' = [endpoint EXCEPT ![p] = e]

\* Operators: POST and PATCH a provider.
CreateProvider(p, e) ==
    /\ ~Known(p)
    /\ WriteProvider(p, e)
    /\ UNCHANGED <<tables, clients, held, call>>

PatchProvider(p, e) ==
    /\ Known(p)
    /\ WriteProvider(p, e)
    /\ UNCHANGED <<tables, clients, held, call>>

aliasesUsingProvider(p) == UNION {UsedBy(<<p, m>>) : m \in ModelKey}

\* DELETE a provider no chain uses; the foreign key takes its models along.
DeleteProvider(p) ==
    /\ Known(p)
    /\ aliasesUsingProvider(p) = {}
    /\ WriteProvider(p, "absent")
    /\ KeepModels({path \in DOMAIN models : path[1] # p})
    /\ UNCHANGED <<entries, weights, strategyRow, clients, held, call>>

\* What AliasTables does; a model needs its provider.
EditTables ==
    /\ \/ \E a \in Alias : AliasOperation(a)
       \/ \E path \in Path : DeleteModel(path)
       \/ \E path \in Path, real \in Upstream :
             PatchModel(path, real) \/ (Known(path[1]) /\ CreateModel(path, real))
    /\ UNCHANGED <<endpoint, clients, held, call>>

\* A new process: the tables stay, the clients and the requests do not.
Restart ==
    /\ clients' = [p \in Provider |-> "absent"]
    /\ held' = [r \in Request |-> {}]
    /\ call' = NoCall
    /\ UNCHANGED <<tables, endpoint>>

RegNext ==
    \/ EditTables
    \/ \E p \in Provider, e \in Endpoint : CreateProvider(p, e) \/ PatchProvider(p, e)
    \/ \E p \in Provider : DeleteProvider(p)
    \/ \E r \in Request : Answered(r)
    \/ \E r \in Request, name \in Name, k \in 1..MaxChain : Ask(r, name, k)
    \/ \E r \in Request : \E entry \in held[r] : FallBack(r, entry)
    \/ Restart

RegSpec == RegInit /\ [][RegNext]_regVars

(***************************************************************************)
(* Properties                                                              *)
(***************************************************************************)

\* An alias operators have built can always be resolved, whatever they did to
\* providers and models since: only a key missing from the environment stops it.
AliasesResolve ==
    \A a \in Alias : Exists(a) =>
        \/ Resolves(a)
        \/ \E k \in DOMAIN ChainOf(a) : endpoint[ChainOf(a)[k][1]] \notin KeySet \cup {"absent"}

\* admin/admin-providers.controller.ts:102 says that edits "are visible to the
\* next /v1/* call with no cache invalidation".  A call goes to the endpoint the
\* cached client was made with, not to the one its request has just read.
EditsReachCalls == call.used = call.resolved
=============================================================================
