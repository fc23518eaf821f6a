---------------------------- MODULE AliasTables ----------------------------
(***************************************************************************)
(* The alias registry: the tables alias_entries, alias_weights and         *)
(* alias_policy, the models their entries point to, and every operation of *)
(* the admin API on them (AdminAliasesController and the model half of     *)
(* AdminProvidersController over ProviderRegistryRepository).              *)
(*                                                                         *)
(* A handler runs from its first check to its last write without an await, *)
(* and the repository wraps several writes in a transaction, so a handler  *)
(* is one action; a handler that answers 4xx changes nothing.  A table is  *)
(* a function from the positions that have a row to the rows: positions    *)
(* are data the operations write, not indices of a sequence.               *)
(***************************************************************************)
EXTENDS Integers, Sequences, FiniteSets

CONSTANTS
    Alias,        \* alias names
    Provider,     \* provider ids, numbers in the order of their names
    ModelKey,     \* model keys
    Upstream,     \* what a model is upstream: its real name and settings
    Strategy,     \* the strategies operators choose
    MaxChain,     \* 64 in the code
    MaxWeight,    \* bound on the weights operators send
    MaxPriority,  \* bound on the priorities operators send
    MaxListed,    \* bound on the positions of one priority map
    SeedModels,   \* the models of the seed file
    Seed          \* its chains, empty for no alias

Path == Provider \X ModelKey

ASSUME TableAssumption ==
    /\ Provider \subseteq Nat
    /\ "no row" \notin Strategy
    /\ MaxChain \in Nat \ {0}
    /\ MaxWeight \in Nat \ {0}
    /\ MaxPriority \in Nat /\ MaxListed \in Nat
    /\ DOMAIN SeedModels \subseteq Path
    /\ \A path \in DOMAIN SeedModels : SeedModels[path] \in Upstream
    /\ Seed \in [Alias -> Seq(DOMAIN SeedModels)]

VARIABLES
    entries,     \* alias_entries: rows [path, priority] by alias and position
    weights,     \* alias_weights: weights by alias and position
    strategyRow, \* alias_policy: the strategy of an alias, or "no row"
    models       \* model_configs: what each existing provider/model pair is upstream

tables == <<entries, weights, strategyRow, models>>

NoRows == [p \in {} |-> 0]
Row    == [path : Path, priority : Nat]

\* The type invariant of the registry.
TablesTypeOK ==
    /\ DOMAIN entries = Alias /\ DOMAIN weights = Alias
    /\ \A a \in Alias :
          /\ DOMAIN entries[a] \subseteq Nat
          /\ \A p \in DOMAIN entries[a] : entries[a][p] \in Row
          /\ DOMAIN weights[a] \subseteq Nat
          /\ \A p \in DOMAIN weights[a] : weights[a][p] \in Nat \ {0}
    /\ strategyRow \in [Alias -> Strategy \cup {"no row"}]
    /\ DOMAIN models \subseteq Path /\ \A path \in DOMAIN models : models[path] \in Upstream

-----------------------------------------------------------------------------
(* Reading.                                                                 *)

\* registry.aliases[a]: an alias is there as long as it has a row.
Exists(a) == DOMAIN entries[a] # {}
ChainLength(a) == Cardinality(DOMAIN entries[a])

\* The k-th lowest of a set of positions: ORDER BY position.
Nth(positions, k) ==
    CHOOSE p \in positions : Cardinality({q \in positions : q < p}) = k - 1

\* The paths of an alias, as listAliases returns them.
PathAt(a, k) == entries[a][Nth(DOMAIN entries[a], k)].path
ChainOf(a)   == [k \in 1..ChainLength(a) |-> PathAt(a, k)]

\* toView: what the API shows, the chain by order and the rest by position.
PriorityAt(a, p) == IF p \in DOMAIN entries[a] THEN entries[a][p].priority ELSE 0
WeightAt(a, p)   == IF p \in DOMAIN weights[a] THEN weights[a][p] ELSE 1
View(a) == [k \in 1..ChainLength(a) |->
              [path     |-> PathAt(a, k),
               priority |-> PriorityAt(a, k - 1),
               weight   |-> WeightAt(a, k - 1)]]
StrategyOf(a) == IF strategyRow[a] = "no row" THEN "primary" ELSE strategyRow[a]

\* aliasesUsingModel.
UsedBy(path) == {a \in Alias : \E p \in DOMAIN entries[a] : entries[a][p].path = path}

-----------------------------------------------------------------------------
(* Writing.                                                                 *)

\* INSERT of a row, or the update of the one that is there.
Inserted(rows, at, row) ==
    [x \in DOMAIN rows \cup {at} |-> IF x = at THEN row ELSE rows[x]]

\* The rows of a new chain, whose priorities are the column's default.
RowsOf(chain) == [p \in 0..(Len(chain) - 1) |-> [path |-> chain[p + 1], priority |-> 0]]

\* Mutant: the shift takes the rows before the gap.
RowsWithout_ShiftsBefore(rows, pos) ==
    LET kept == DOMAIN rows \ {pos}
    IN  [p \in {IF q < pos THEN q - 1 ELSE q : q \in kept} |->
            IF p < pos - 1 THEN rows[p + 1] ELSE rows[p]]

\* DELETE the row at pos, then shift the rows behind it down by one.
RowsWithout(rows, pos) ==
    LET kept == DOMAIN rows \ {pos}
    IN  [p \in {IF q > pos THEN q - 1 ELSE q : q \in kept} |->
            IF p >= pos THEN rows[p + 1] ELSE rows[p]]

\* The seed file goes through replaceAliasEntry: rows only, no strategy.
Init ==
    /\ entries = [a \in Alias |-> RowsOf(Seed[a])]
    /\ weights = [a \in Alias |-> NoRows]
    /\ strategyRow = [a \in Alias |-> "no row"]
    /\ models = SeedModels

\* The repository: each a transaction, or one statement.
createAlias(a, chain, s) ==
    /\ entries' = [entries EXCEPT ![a] = RowsOf(chain)]
    /\ weights' = [weights EXCEPT ![a] = NoRows]
    /\ strategyRow' = [strategyRow EXCEPT ![a] = s]

\* Mutant: the weights of a deleted alias stay.
deleteAlias_KeepsWeights(a) ==
    /\ entries' = [entries EXCEPT ![a] = NoRows]
    /\ strategyRow' = [strategyRow EXCEPT ![a] = "no row"]
    /\ UNCHANGED weights

deleteAlias(a) ==
    /\ entries' = [entries EXCEPT ![a] = NoRows]
    /\ weights' = [weights EXCEPT ![a] = NoRows]
    /\ strategyRow' = [strategyRow EXCEPT ![a] = "no row"]

upsertAliasPolicy(a, s) ==
    /\ strategyRow' = [strategyRow EXCEPT ![a] = s]
    /\ UNCHANGED <<entries, weights>>

\* The old rows are deleted first.
upsertWeights(a, list) ==
    /\ weights' = [weights EXCEPT ![a] = [p \in 0..(Len(list) - 1) |-> list[p + 1]]]
    /\ UNCHANGED <<entries, strategyRow>>

\* A sparse map: positions it does not name keep theirs.
replacePriorities(a, sparse) ==
    /\ entries' = [entries EXCEPT ![a] =
          [p \in DOMAIN @ |-> IF p \in DOMAIN sparse THEN [@[p] EXCEPT !.priority = sparse[p]]
                                                     ELSE @[p]]]
    /\ UNCHANGED <<weights, strategyRow>>

\* The new position is the number of rows.  A row already there would break
\* the primary key and undo the transaction.
appendAliasEntry(a, path) ==
    LET count == ChainLength(a)
    IN  /\ count \notin DOMAIN entries[a]
        /\ entries' = [entries EXCEPT ![a] = Inserted(@, count, [path |-> path, priority |-> 0])]
        /\ weights' = [weights EXCEPT ![a] = IF DOMAIN @ = {} THEN @ ELSE Inserted(@, count, 1)]
        /\ UNCHANGED strategyRow

\* Mutant: alias_weights is not touched.
removeAliasEntry_ForgetsWeights(a, pos) ==
    /\ entries' = [entries EXCEPT ![a] = RowsWithout(@, pos)]
    /\ UNCHANGED <<weights, strategyRow>>

\* Mutant: the last weight goes instead of the one of the entry.
removeAliasEntry_DropsLastWeight(a, pos) ==
    /\ entries' = [entries EXCEPT ![a] = RowsWithout(@, pos)]
    /\ weights' = [weights EXCEPT ![a] = RowsWithout(@, ChainLength(a) - 1)]
    /\ UNCHANGED strategyRow

removeAliasEntry(a, pos) ==
    /\ entries' = [entries EXCEPT ![a] = RowsWithout(@, pos)]
    /\ weights' = [weights EXCEPT ![a] = RowsWithout(@, pos)]
    /\ UNCHANGED strategyRow

-----------------------------------------------------------------------------
(* The handlers of the admin API.                                           *)

\* assertChainModelsExist: a chain of existing models.
Configured(path) == path \in DOMAIN models

Create(a, chain, s) ==
    /\ ~Exists(a)
    /\ Len(chain) \in 1..MaxChain
    /\ \A k \in DOMAIN chain : Configured(chain[k])
    /\ createAlias(a, chain, s)
    /\ UNCHANGED models

Remove(a) ==
    /\ Exists(a)
    /\ deleteAlias(a)
    /\ UNCHANGED models

SetStrategy(a, s) ==
    /\ Exists(a)
    /\ upsertAliasPolicy(a, s)
    /\ UNCHANGED models

\* One weight for every entry.
SetWeights(a, list) ==
    /\ Exists(a)
    /\ Len(list) = ChainLength(a) /\ Len(list) <= MaxChain
    /\ upsertWeights(a, list)
    /\ UNCHANGED models

SetPriorities(a, sparse) ==
    /\ Exists(a)
    /\ DOMAIN sparse \subseteq 0..(ChainLength(a) - 1)
    /\ replacePriorities(a, sparse)
    /\ UNCHANGED models

AppendEntry(a, path) ==
    /\ Exists(a)
    /\ Configured(path)
    /\ ChainLength(a) < MaxChain
    /\ appendAliasEntry(a, path)
    /\ UNCHANGED models

\* An alias keeps at least one entry.
RemoveEntry(a, pos) ==
    /\ Exists(a)
    /\ pos \in 0..(ChainLength(a) - 1)
    /\ ChainLength(a) > 1
    /\ removeAliasEntry(a, pos)
    /\ UNCHANGED models

\* The row of a model as it is inserted or updated.
WriteModel(path, real) == models' = Inserted(models, path, real)

CreateModel(path, real) ==
    /\ ~Configured(path)
    /\ WriteModel(path, real)
    /\ UNCHANGED <<entries, weights, strategyRow>>

PatchModel(path, real) ==
    /\ Configured(path)
    /\ WriteModel(path, real)
    /\ UNCHANGED <<entries, weights, strategyRow>>

\* The models whose rows stay.
KeepModels(kept) == models' = [path \in kept |-> models[path]]

\* Mutant: the check for aliases in use is dropped.
DeleteModel_InUse(path) ==
    /\ Configured(path)
    /\ KeepModels(DOMAIN models \ {path})
    /\ UNCHANGED <<entries, weights, strategyRow>>

DeleteModel(path) ==
    /\ Configured(path)
    /\ UsedBy(path) = {}
    /\ KeepModels(DOMAIN models \ {path})
    /\ UNCHANGED <<entries, weights, strategyRow>>

AliasOperation(a) ==
    \/ Remove(a)
    \/ \E s \in Strategy : SetStrategy(a, s)
    \/ \E n \in 1..MaxChain : \E chain \in [1..n -> DOMAIN models], s \in Strategy :
          Create(a, chain, s)
    \/ \E list \in [1..ChainLength(a) -> 1..MaxWeight] : SetWeights(a, list)
    \/ \E some \in SUBSET (0..(ChainLength(a) - 1)) :
          /\ Cardinality(some) <= MaxListed
          /\ \E sparse \in [some -> 0..MaxPriority] : SetPriorities(a, sparse)
    \/ \E path \in Path : AppendEntry(a, path)
    \/ \E pos \in 0..(MaxChain - 1) : RemoveEntry(a, pos)

Next ==
    \/ \E a \in Alias : AliasOperation(a)
    \/ \E path \in Path :
          \/ DeleteModel(path)
          \/ \E real \in Upstream : CreateModel(path, real) \/ PatchModel(path, real)

Spec == Init /\ [][Next]_tables

(***************************************************************************)
(* Properties                                                              *)
(***************************************************************************)

\* However entries were appended and removed, the positions of a chain are
\* 0..n-1 and its weights are absent or lie at those very positions: the next
\* append finds its position free, and a weight belongs to the entry it shows at.
PositionsAligned ==
    \A a \in Alias :
        /\ DOMAIN entries[a] = 0..(ChainLength(a) - 1)
        /\ DOMAIN weights[a] \in {{}, DOMAIN entries[a]}

\* An alias that is gone left nothing for the next one of its name to inherit.
NothingLeftBehind ==
    \A a \in Alias : ~Exists(a) => weights[a] = NoRows /\ strategyRow[a] = "no row"

\* Every entry of every chain names a model that exists.
EntriesExist ==
    \A a \in Alias : \A p \in DOMAIN entries[a] : Configured(entries[a][p].path)

\* The three tables implement the list of AliasChains: an edit of one entry,
\* wherever it moves the others, leaves them their priorities and weights.
Chains == INSTANCE AliasChains WITH
    Default <- "primary",
    chain   <- [a \in Alias |-> View(a)],
    choice  <- [a \in Alias |-> StrategyOf(a)]
ImplementsChains == Chains!Spec
=============================================================================
