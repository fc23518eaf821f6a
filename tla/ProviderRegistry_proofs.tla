----------------------- MODULE ProviderRegistry_proofs -----------------------
(***************************************************************************)
(* What holds of the provider registry for any aliases, chains, providers  *)
(* and models, whatever operators do and in whatever order.                *)
(***************************************************************************)
EXTENDS ProviderRegistry, FiniteSetTheorems, TLAPS

-----------------------------------------------------------------------------
(* Rows and their positions                                                 *)

\* The rows of a chain of n entries, without a gap.
Dense(rows, n) == n \in Nat /\ DOMAIN rows = 0..n - 1

\* What one alias has in the tables: rows, weights and a strategy.
AliasSound(rows, ws, s) ==
    /\ \E n \in Nat : Dense(rows, n)
    /\ \A p \in DOMAIN rows : rows[p] \in Row
    /\ DOMAIN ws \in {{}, DOMAIN rows}
    /\ \A p \in DOMAIN ws : ws[p] \in Nat \ {0}
    /\ s \in Strategy \cup {"no row"}
    /\ DOMAIN rows = {} => ws = NoRows /\ s = "no row"

\* The rows of a dense chain are counted by its length.
LEMMA DenseCount ==
    ASSUME NEW rows, NEW n, Dense(rows, n)
    PROVE  /\ IsFiniteSet(DOMAIN rows)
           /\ Cardinality(DOMAIN rows) = n
           /\ n \in Nat
           /\ DOMAIN rows = {} <=> n = 0
<1>1. n \in Nat /\ DOMAIN rows = 0..n - 1
  BY DEF Dense
<1>2. 0 \in Int /\ n - 1 \in Int /\ (0 > n - 1 <=> n = 0)
  BY <1>1
<1>3. IsFiniteSet(0..n - 1) /\ Cardinality(0..n - 1) = IF 0 > n - 1 THEN 0 ELSE (n - 1) - 0 + 1
  BY <1>2, FS_Interval
<1>4. Cardinality(0..n - 1) = n
  BY <1>1, <1>3
<1>5. DOMAIN rows = {} <=> n = 0
  BY <1>1
<1> QED
  BY <1>1, <1>3, <1>4, <1>5

\* The positions of a dense chain are read in their order.
LEMMA NthIs ==
    ASSUME NEW n \in Nat, NEW k \in 1..n
    PROVE  Nth(0..n - 1, k) = k - 1
<1> DEFINE Below(p) == {q \in 0..n - 1 : q < p}
<1>1. ASSUME NEW p \in 0..n - 1
      PROVE  Cardinality(Below(p)) = p
  <2>1. Below(p) = 0..p - 1
    OBVIOUS
  <2>2. 0 \in Int /\ p - 1 \in Int
    OBVIOUS
  <2>3. Cardinality(0..p - 1) = IF 0 > p - 1 THEN 0 ELSE (p - 1) - 0 + 1
    BY <2>2, FS_Interval
  <2> HIDE DEF Below
  <2> QED
    BY <2>1, <2>3
<1>2. k - 1 \in 0..n - 1 /\ Cardinality(Below(k - 1)) = k - 1
  BY <1>1
<1>3. ASSUME NEW p \in 0..n - 1, Cardinality(Below(p)) = k - 1
      PROVE  p = k - 1
  BY <1>1, <1>3
<1>4. Nth(0..n - 1, k) = CHOOSE p \in 0..n - 1 : Cardinality(Below(p)) = k - 1
  BY DEF Nth
<1> HIDE DEF Below
<1> QED
  BY <1>2, <1>3, <1>4

\* A new chain.
LEMMA NewRows ==
    ASSUME NEW chain \in Seq(Path)
    PROVE  /\ Len(chain) \in Nat /\ Dense(RowsOf(chain), Len(chain))
           /\ \A p \in DOMAIN RowsOf(chain) :
                 /\ RowsOf(chain)[p] \in Row
                 /\ RowsOf(chain)[p].path = chain[p + 1] /\ p + 1 \in 1..Len(chain)
                 /\ RowsOf(chain)[p].priority = 0
<1>1. Len(chain) \in Nat /\ \A k \in 1..Len(chain) : chain[k] \in Path
  OBVIOUS
<1>2. /\ DOMAIN RowsOf(chain) = 0..Len(chain) - 1
      /\ \A p \in 0..Len(chain) - 1 :
            RowsOf(chain)[p] = [path |-> chain[p + 1], priority |-> 0]
  BY DEF RowsOf
<1>3. ASSUME NEW p \in 0..Len(chain) - 1
      PROVE  p + 1 \in 1..Len(chain) /\ chain[p + 1] \in Path
  BY <1>1
<1> QED
  BY <1>1, <1>2, <1>3 DEF Dense, Row

\* A row behind the last one.
LEMMA RowAppended ==
    ASSUME NEW rows, NEW n, Dense(rows, n), NEW row, NEW new, new = Inserted(rows, n, row)
    PROVE  /\ Dense(new, n + 1)
           /\ new[n] = row
           /\ \A p \in 0..n - 1 : new[p] = rows[p]
BY DEF Dense, Inserted

\* One row goes and those behind it move up.
LEMMA RowRemoved ==
    ASSUME NEW rows, NEW n, Dense(rows, n), NEW pos \in 0..n - 1,
           NEW new, new = RowsWithout(rows, pos)
    PROVE  /\ Dense(new, n - 1)
           /\ \A p \in 0..n - 2 : new[p] = IF p >= pos THEN rows[p + 1] ELSE rows[p]
<1> DEFINE kept == DOMAIN rows \ {pos}
           places == {IF q > pos THEN q - 1 ELSE q : q \in kept}
<1>1. n \in Nat /\ DOMAIN rows = 0..n - 1
  BY DEF Dense
<1>2. places = 0..n - 2
  <2>1. ASSUME NEW q \in kept
        PROVE  (IF q > pos THEN q - 1 ELSE q) \in 0..n - 2
    BY <1>1
  <2>2. ASSUME NEW p \in 0..n - 2
        PROVE  \E q \in kept : p = IF q > pos THEN q - 1 ELSE q
    <3>1. CASE p >= pos
      <4>1. p + 1 \in kept /\ p + 1 > pos /\ p = (p + 1) - 1
        BY <1>1, <3>1
      <4> QED
        BY <4>1
    <3>2. CASE ~(p >= pos)
      <4>1. p \in kept /\ ~(p > pos)
        BY <1>1, <3>2
      <4> QED
        BY <4>1
    <3> QED
      BY <3>1, <3>2
  <2> QED
    BY <2>1, <2>2
<1>3. new = [p \in places |-> IF p >= pos THEN rows[p + 1] ELSE rows[p]]
  BY DEF RowsWithout
<1> HIDE DEF places
<1>4. n - 1 \in Nat /\ 0..(n - 1) - 1 = 0..n - 2
  BY <1>1
<1> QED
  BY <1>2, <1>3, <1>4 DEF Dense

\* Nothing is left when nothing was there.
LEMMA NothingRemoved ==
    ASSUME NEW rows, DOMAIN rows = {}, NEW pos
    PROVE  DOMAIN RowsWithout(rows, pos) = {}
BY DEF RowsWithout

-----------------------------------------------------------------------------
(* What a change of the tables keeps of one alias                           *)

LEMMA NoRowsSound ==
    /\ Dense(NoRows, 0) /\ DOMAIN NoRows = {}
    /\ AliasSound(NoRows, NoRows, "no row")
BY DEF AliasSound, Dense, NoRows

\* A chain as it is created: rows of its own, no weights.
LEMMA CreatedSound ==
    ASSUME NEW chain \in Seq(Path), Len(chain) # 0, NEW s \in Strategy \cup {"no row"}
    PROVE  AliasSound(RowsOf(chain), NoRows, s)
<1>1. /\ Len(chain) \in Nat /\ Dense(RowsOf(chain), Len(chain))
      /\ \A p \in DOMAIN RowsOf(chain) : RowsOf(chain)[p] \in Row
  BY NewRows
<1>2. DOMAIN NoRows = {}
  BY NoRowsSound
<1>3. DOMAIN RowsOf(chain) # {} /\ \E n \in Nat : Dense(RowsOf(chain), n)
  <2>1. DOMAIN RowsOf(chain) = {} <=> Len(chain) = 0
    BY <1>1, DenseCount, Zenon
  <2>2. \E n \in Nat : Dense(RowsOf(chain), n)
    BY <1>1, Zenon
  <2> QED
    BY <2>1, <2>2, Zenon
<1>4. ASSUME NEW rows, rows = RowsOf(chain), NEW ws, ws = NoRows
      PROVE  AliasSound(rows, ws, s)
  BY <1>1, <1>2, <1>3, <1>4 DEF AliasSound
<1> QED
  BY <1>4

\* Another strategy.
LEMMA SwitchedSound ==
    ASSUME NEW rows, NEW ws, NEW old, AliasSound(rows, ws, old), DOMAIN rows # {},
           NEW s \in Strategy
    PROVE  AliasSound(rows, ws, s)
BY DEF AliasSound

\* One weight for every entry.
LEMMA WeighedSound ==
    ASSUME NEW rows, NEW ws, NEW s, AliasSound(rows, ws, s), DOMAIN rows # {},
           NEW list \in Seq(Nat \ {0}), Len(list) = Cardinality(DOMAIN rows),
           NEW new, new = [p \in 0..(Len(list) - 1) |-> list[p + 1]]
    PROVE  AliasSound(rows, new, s)
<1>1. PICK n \in Nat : Dense(rows, n)
  BY DEF AliasSound
<1>2. Len(list) = n /\ DOMAIN rows = 0..n - 1
  BY <1>1, DenseCount DEF Dense
<1>3. DOMAIN new = DOMAIN rows
  BY <1>2
<1>4. ASSUME NEW p \in DOMAIN new
      PROVE  new[p] \in Nat \ {0}
  <2>1. p \in 0..n - 1 /\ p + 1 \in 1..n /\ new[p] = list[p + 1]
    BY <1>1, <1>2, <1>3
  <2> QED
    BY <1>2, <2>1
<1> QED
  BY <1>3, <1>4 DEF AliasSound

\* Other priorities.
LEMMA RankedSound ==
    ASSUME NEW rows, NEW ws, NEW s, AliasSound(rows, ws, s),
           NEW sparse, \A p \in DOMAIN sparse : sparse[p] \in Nat,
           NEW new, new = [p \in DOMAIN rows |->
              IF p \in DOMAIN sparse THEN [rows[p] EXCEPT !.priority = sparse[p]] ELSE rows[p]]
    PROVE  /\ AliasSound(new, ws, s)
           /\ \A p \in DOMAIN rows : new[p] \in Row /\ new[p].path = rows[p].path
<1>1. DOMAIN new = DOMAIN rows
  OBVIOUS
<1>2. ASSUME NEW p \in DOMAIN rows
      PROVE  new[p] \in Row /\ new[p].path = rows[p].path
  <2>1. rows[p] \in Row
    BY DEF AliasSound
  <2>2. CASE p \in DOMAIN sparse
    <3>1. new[p] = [rows[p] EXCEPT !.priority = sparse[p]] /\ sparse[p] \in Nat
      BY <2>2
    <3> QED
      BY <2>1, <3>1 DEF Row
  <2>3. CASE p \notin DOMAIN sparse
    BY <2>1, <2>3
  <2> QED
    BY <2>2, <2>3
<1> QED
  BY <1>1, <1>2 DEF AliasSound, Dense

\* An entry at the end, with the weight 1 if the others have any.
LEMMA ExtendedSound ==
    ASSUME NEW rows, NEW ws, NEW s, AliasSound(rows, ws, s), NEW n, Dense(rows, n), n # 0,
           NEW path \in Path,
           NEW newRows, newRows = Inserted(rows, n, [path |-> path, priority |-> 0]),
           NEW newWs, newWs = IF DOMAIN ws = {} THEN ws ELSE Inserted(ws, n, 1)
    PROVE  AliasSound(newRows, newWs, s)
<1> DEFINE row == [path |-> path, priority |-> 0]
<1>1. row \in Row
  BY DEF Row
<1> HIDE DEF row
<1>2. newRows = Inserted(rows, n, row)
  BY DEF row
<1>3. /\ Dense(newRows, n + 1) /\ newRows[n] = row
      /\ \A p \in 0..n - 1 : newRows[p] = rows[p]
  BY <1>2, RowAppended
<1>4. n \in Nat /\ DOMAIN rows = 0..n - 1 /\ DOMAIN newRows = 0..n /\ n + 1 \in Nat
  BY <1>3 DEF Dense
<1>5. \A p \in DOMAIN newRows : newRows[p] \in Row
  <2>1. \A p \in 0..n : p = n \/ p \in 0..n - 1
    BY <1>4
  <2> QED
    BY <1>1, <1>3, <1>4, <2>1 DEF AliasSound
<1>6. CASE DOMAIN ws = {}
  <2>1. newWs = ws
    BY <1>6
  <2>2. DOMAIN newRows # {}
    BY <1>4
  <2> QED
    BY <1>3, <1>4, <1>5, <1>6, <2>1, <2>2 DEF AliasSound
<1>7. CASE DOMAIN ws # {}
  <2>1. DOMAIN ws = 0..n - 1 /\ Dense(ws, n)
    BY <1>4, <1>7 DEF AliasSound, Dense
  <2>2. newWs = Inserted(ws, n, 1)
    BY <1>7
  <2>3. /\ Dense(newWs, n + 1) /\ newWs[n] = 1
        /\ \A p \in 0..n - 1 : newWs[p] = ws[p]
    <3>1. PICK one : one = 1
      OBVIOUS
    <3>2. newWs = Inserted(ws, n, one)
      BY <2>2, <3>1
    <3>3. /\ Dense(newWs, n + 1) /\ newWs[n] = one
          /\ \A p \in 0..n - 1 : newWs[p] = ws[p]
      <4>1. Dense(ws, n)
        BY <2>1
      <4> QED
        BY <4>1, <3>2, RowAppended
    <3> QED
      BY <3>1, <3>3
  <2>4. DOMAIN newWs = 0..n
    BY <1>4, <2>3 DEF Dense
  <2>5. \A p \in 0..n : newWs[p] \in Nat \ {0}
    <3>1. \A p \in 0..n : p = n \/ p \in 0..n - 1
      BY <1>4
    <3>2. \A p \in 0..n - 1 : newWs[p] \in Nat \ {0}
      BY <2>1, <2>3 DEF AliasSound
    <3> QED
      BY <2>3, <3>1, <3>2
  <2>6. DOMAIN newRows # {} /\ DOMAIN newWs = DOMAIN newRows
    BY <1>4, <2>4
  <2> QED
    BY <1>3, <1>4, <1>5, <2>4, <2>5, <2>6 DEF AliasSound
<1> QED
  BY <1>6, <1>7

\* One of several entries goes, with its weight.
LEMMA WithdrawnSound ==
    ASSUME NEW rows, NEW ws, NEW s, AliasSound(rows, ws, s), NEW n, Dense(rows, n), n > 1,
           NEW pos \in 0..n - 1,
           NEW newRows, newRows = RowsWithout(rows, pos),
           NEW newWs, newWs = RowsWithout(ws, pos)
    PROVE  AliasSound(newRows, newWs, s)
<1>1. /\ Dense(newRows, n - 1)
      /\ \A p \in 0..n - 2 : newRows[p] = IF p >= pos THEN rows[p + 1] ELSE rows[p]
  BY RowRemoved
<1>2. /\ n \in Nat /\ n - 1 \in Nat /\ DOMAIN rows = 0..n - 1
      /\ DOMAIN newRows = 0..n - 2 /\ DOMAIN newRows # {}
  <2>1. n \in Nat /\ DOMAIN rows = 0..n - 1
    BY DEF Dense
  <2>2. n - 1 \in Nat /\ (n - 1) - 1 = n - 2 /\ 0 \in 0..n - 2
    BY <2>1
  <2>3. DOMAIN newRows = 0..n - 2
    BY <1>1, <2>2 DEF Dense
  <2> QED
    BY <2>1, <2>2, <2>3
<1>3. \A p \in 0..n - 2 : p \in 0..n - 1 /\ p + 1 \in 0..n - 1
  BY <1>2
<1>4. \A p \in DOMAIN newRows : newRows[p] \in Row
  BY <1>1, <1>2, <1>3 DEF AliasSound
<1>5. CASE DOMAIN ws = {}
  <2>1. DOMAIN newWs = {}
    BY <1>5, NothingRemoved
  <2> QED
    BY <1>1, <1>2, <1>4, <2>1 DEF AliasSound
<1>6. CASE DOMAIN ws = DOMAIN rows
  <2>1. Dense(ws, n)
    BY <1>2, <1>6 DEF Dense
  <2>2. /\ Dense(newWs, n - 1)
        /\ \A p \in 0..n - 2 : newWs[p] = IF p >= pos THEN ws[p + 1] ELSE ws[p]
    BY <2>1, RowRemoved
  <2>3. DOMAIN newWs = DOMAIN newRows
    BY <1>1, <2>2 DEF Dense
  <2>4. \A p \in DOMAIN newWs : newWs[p] \in Nat \ {0}
    BY <1>2, <1>3, <1>6, <2>2, <2>3 DEF AliasSound
  <2> QED
    BY <1>1, <1>2, <1>4, <2>3, <2>4 DEF AliasSound
<1> QED
  BY <1>5, <1>6 DEF AliasSound

-----------------------------------------------------------------------------
(* What the API shows of an alias                                           *)

\* The weight at a position, 1 without a row.
WeightOf(ws, p) == IF p \in DOMAIN ws THEN ws[p] ELSE 1

Shown(rows, ws, n) ==
    [k \in 1..n |-> [path     |-> rows[k - 1].path,
                     priority |-> rows[k - 1].priority,
                     weight   |-> WeightOf(ws, k - 1)]]

Policy(s) == IF s = "no row" THEN "primary" ELSE s

\* View, of the rows and weights of one alias.
ViewOf(rows, ws) ==
    [k \in 1..Cardinality(DOMAIN rows) |->
        [path     |-> rows[Nth(DOMAIN rows, k)].path,
         priority |-> IF k - 1 \in DOMAIN rows THEN rows[k - 1].priority ELSE 0,
         weight   |-> WeightOf(ws, k - 1)]]

LEMMA ViewOfDense ==
    ASSUME NEW rows, NEW ws, NEW n, Dense(rows, n)
    PROVE  ViewOf(rows, ws) = Shown(rows, ws, n)
<1>1. n \in Nat /\ DOMAIN rows = 0..n - 1 /\ Cardinality(DOMAIN rows) = n
  BY DenseCount DEF Dense
<1>2. ASSUME NEW k \in 1..n
      PROVE  k - 1 \in DOMAIN rows /\ Nth(DOMAIN rows, k) = k - 1
  BY <1>1, NthIs
<1> QED
  BY <1>1, <1>2 DEF ViewOf, Shown

\* Every entry shown has a path, a priority and a weight.
LEMMA ShownTyped ==
    ASSUME NEW rows, NEW ws, NEW s, AliasSound(rows, ws, s), NEW n, Dense(rows, n),
           NEW shown, shown = Shown(rows, ws, n)
    PROVE  /\ n \in Nat /\ Len(shown) = n
           /\ shown \in Seq(Chains!EntryType)
           /\ \A k \in 1..n :
                 /\ shown[k] \in Chains!EntryType
                 /\ shown[k] = [path     |-> rows[k - 1].path,
                                priority |-> rows[k - 1].priority,
                                weight   |-> WeightOf(ws, k - 1)]
<1>1. n \in Nat /\ DOMAIN rows = 0..n - 1
  BY DEF Dense
<1>2. Len(shown) = n
  BY <1>1 DEF Shown
<1>3. ASSUME NEW k \in 1..n
      PROVE  /\ shown[k] \in Chains!EntryType
             /\ shown[k] = [path     |-> rows[k - 1].path,
                            priority |-> rows[k - 1].priority,
                            weight   |-> WeightOf(ws, k - 1)]
  <2>1. k - 1 \in 0..n - 1
    BY <1>1
  <2>2. rows[k - 1] \in Row
    BY <1>1, <2>1 DEF AliasSound
  <2>3. WeightOf(ws, k - 1) \in Nat \ {0}
    <3>1. CASE k - 1 \in DOMAIN ws
      BY <3>1 DEF AliasSound, WeightOf
    <3>2. CASE k - 1 \notin DOMAIN ws
      BY <3>2 DEF WeightOf
    <3> QED
      BY <3>1, <3>2
  <2>4. shown[k] = [path     |-> rows[k - 1].path,
                    priority |-> rows[k - 1].priority,
                    weight   |-> WeightOf(ws, k - 1)]
    BY <1>1 DEF Shown
  <2> QED
    BY <2>2, <2>3, <2>4 DEF Row, Chains!EntryType
<1>4. shown \in Seq(Chains!EntryType)
  BY <1>1, <1>3 DEF Shown
<1> QED
  BY <1>1, <1>2, <1>3, <1>4

LEMMA ShownNone ==
    ASSUME NEW rows, NEW ws
    PROVE  Shown(rows, ws, 0) = <<>>
BY DEF Shown

LEMMA ShownCreated ==
    ASSUME NEW chain \in Seq(Path), Len(chain) # 0, NEW shown,
           shown = Shown(RowsOf(chain), NoRows, Len(chain))
    PROVE  Chains!Fresh(shown) /\ Len(shown) = Len(chain)
<1>1. PICK rows, ws, s, n :
         rows = RowsOf(chain) /\ ws = NoRows /\ s = "no row" /\ n = Len(chain)
  OBVIOUS
<1>2. /\ n \in Nat /\ n # 0 /\ Dense(rows, n)
      /\ \A p \in DOMAIN rows : rows[p].priority = 0
  BY <1>1, NewRows
<1>3. AliasSound(rows, ws, s) /\ DOMAIN ws = {}
  BY <1>1, CreatedSound, NoRowsSound
<1>4. /\ Len(shown) = n
      /\ \A k \in 1..n :
            /\ shown[k] \in Chains!EntryType
            /\ shown[k] = [path     |-> rows[k - 1].path,
                           priority |-> rows[k - 1].priority,
                           weight   |-> WeightOf(ws, k - 1)]
  <2>1. shown = Shown(rows, ws, n)
    BY <1>1
  <2> QED
    BY <1>2, <1>3, <2>1, ShownTyped
<1>5. ASSUME NEW k \in 1..n
      PROVE  Chains!Plain(shown[k])
  <2>1. k - 1 \in DOMAIN rows
    BY <1>2 DEF Dense
  <2> QED
    BY <1>2, <1>3, <1>4, <2>1 DEF Chains!Plain, WeightOf
<1>6. shown # <<>>
  BY <1>2, <1>4
<1> QED
  BY <1>1, <1>4, <1>5, <1>6 DEF Chains!Fresh

LEMMA WeightAppended ==
    ASSUME NEW ws, NEW n, Dense(ws, n), NEW new, new = Inserted(ws, n, 1)
    PROVE  WeightOf(new, n) = 1 /\ \A p \in 0..n - 1 : WeightOf(new, p) = WeightOf(ws, p)
<1>1. n \in Nat /\ DOMAIN ws = 0..n - 1 /\ DOMAIN new = 0..n
  BY DEF Dense, Inserted
<1>2. new[n] = 1 /\ \A p \in 0..n - 1 : p \in 0..n /\ new[p] = ws[p]
  BY <1>1 DEF Inserted
<1>3. n \in 0..n
  BY <1>1
<1> QED
  BY <1>1, <1>2, <1>3 DEF WeightOf

LEMMA ShownExtended ==
    ASSUME NEW rows, NEW ws, NEW s, AliasSound(rows, ws, s), NEW n, Dense(rows, n), n # 0,
           NEW path \in Path, NEW entry,
           entry = [path |-> path, priority |-> 0, weight |-> 1],
           NEW newRows, newRows = Inserted(rows, n, [path |-> path, priority |-> 0]),
           NEW newWs, newWs = IF DOMAIN ws = {} THEN ws ELSE Inserted(ws, n, 1),
           NEW old, old = Shown(rows, ws, n),
           NEW new, new = Shown(newRows, newWs, n + 1)
    PROVE  Dense(newRows, n + 1) /\ new = Append(old, entry)
<1>1. PICK row : row = [path |-> path, priority |-> 0]
  OBVIOUS
<1>2. newRows = Inserted(rows, n, row)
  BY <1>1
<1>3. /\ Dense(newRows, n + 1) /\ newRows[n] = row
      /\ \A p \in 0..n - 1 : newRows[p] = rows[p]
  BY <1>2, RowAppended
<1>4. AliasSound(newRows, newWs, s)
  BY ExtendedSound
<1>5. n \in Nat /\ n + 1 \in Nat /\ DOMAIN rows = 0..n - 1 /\ DOMAIN newRows = 0..n
  BY <1>3 DEF Dense
<1>6. WeightOf(newWs, n) = 1 /\ \A p \in 0..n - 1 : WeightOf(newWs, p) = WeightOf(ws, p)
  <2>1. CASE DOMAIN ws = {}
    BY <2>1 DEF WeightOf
  <2>2. CASE DOMAIN ws # {}
    <3>1. Dense(ws, n)
      BY <1>5, <2>2 DEF AliasSound, Dense
    <3>2. newWs = Inserted(ws, n, 1)
      BY <2>2
    <3> QED
      BY <3>1, <3>2, WeightAppended
  <2> QED
    BY <2>1, <2>2
<1>7. /\ Len(old) = n /\ old \in Seq(Chains!EntryType)
      /\ \A k \in 1..n : old[k] = [path     |-> rows[k - 1].path,
                                   priority |-> rows[k - 1].priority,
                                   weight   |-> WeightOf(ws, k - 1)]
  BY ShownTyped
<1>8. /\ Len(new) = n + 1 /\ new \in Seq(Chains!EntryType)
      /\ \A k \in 1..n + 1 : new[k] = [path     |-> newRows[k - 1].path,
                                       priority |-> newRows[k - 1].priority,
                                       weight   |-> WeightOf(newWs, k - 1)]
  BY <1>3, <1>4, ShownTyped
<1>9. ASSUME NEW k \in 1..n
      PROVE  new[k] = old[k]
  <2>1. k - 1 \in 0..n - 1 /\ k \in 1..n + 1
    BY <1>5
  <2>2. newRows[k - 1] = rows[k - 1] /\ WeightOf(newWs, k - 1) = WeightOf(ws, k - 1)
    BY <1>3, <1>6, <2>1
  <2>3. new[k] = [path |-> newRows[k - 1].path, priority |-> newRows[k - 1].priority,
                  weight |-> WeightOf(newWs, k - 1)]
    BY <1>8, <2>1
  <2>4. old[k] = [path |-> rows[k - 1].path, priority |-> rows[k - 1].priority,
                  weight |-> WeightOf(ws, k - 1)]
    BY <1>7
  <2> QED
    BY <2>2, <2>3, <2>4
<1>10. new[n + 1] = entry
  <2>1. n + 1 \in 1..n + 1 /\ (n + 1) - 1 = n
    BY <1>5
  <2> QED
    BY <1>1, <1>3, <1>6, <1>8, <2>1
<1>11. Append(old, entry) = new
  BY <1>5, <1>7, <1>8, <1>9, <1>10
<1> QED
  BY <1>3, <1>11

LEMMA ShownWithdrawn ==
    ASSUME NEW rows, NEW ws, NEW s, AliasSound(rows, ws, s), NEW n, Dense(rows, n), n > 1,
           NEW pos \in 0..n - 1,
           NEW newRows, newRows = RowsWithout(rows, pos),
           NEW newWs, newWs = RowsWithout(ws, pos),
           NEW old, old = Shown(rows, ws, n),
           NEW new, new = Shown(newRows, newWs, n - 1)
    PROVE  /\ Dense(newRows, n - 1)
           /\ new = [i \in 1..(Len(old) - 1) |-> IF i < pos + 1 THEN old[i] ELSE old[i + 1]]
<1>1. /\ Dense(newRows, n - 1)
      /\ \A p \in 0..n - 2 : newRows[p] = IF p >= pos THEN rows[p + 1] ELSE rows[p]
  BY RowRemoved
<1>2. n \in Nat /\ n - 1 \in Nat /\ DOMAIN rows = 0..n - 1
  BY <1>1 DEF Dense
<1>3. \A p \in 0..n - 2 :
         WeightOf(newWs, p) = IF p >= pos THEN WeightOf(ws, p + 1) ELSE WeightOf(ws, p)
  <2>1. CASE DOMAIN ws = {}
    BY <2>1, NothingRemoved DEF WeightOf
  <2>2. CASE DOMAIN ws # {}
    <3>1. Dense(ws, n)
      BY <1>2, <2>2 DEF AliasSound, Dense
    <3>2. /\ Dense(newWs, n - 1)
          /\ \A p \in 0..n - 2 : newWs[p] = IF p >= pos THEN ws[p + 1] ELSE ws[p]
      BY <3>1, RowRemoved
    <3>3. DOMAIN ws = 0..n - 1 /\ DOMAIN newWs = 0..n - 2
      BY <1>2, <3>1, <3>2 DEF Dense
    <3>4. \A p \in 0..n - 2 : p \in 0..n - 1 /\ p + 1 \in 0..n - 1
      BY <1>2
    <3> QED
      BY <3>2, <3>3, <3>4 DEF WeightOf
  <2> QED
    BY <2>1, <2>2
<1>4. /\ Len(old) = n
      /\ \A k \in 1..n : old[k] = [path     |-> rows[k - 1].path,
                                   priority |-> rows[k - 1].priority,
                                   weight   |-> WeightOf(ws, k - 1)]
  BY ShownTyped
<1>5. new = [k \in 1..n - 1 |-> [path     |-> newRows[k - 1].path,
                                 priority |-> newRows[k - 1].priority,
                                 weight   |-> WeightOf(newWs, k - 1)]]
  BY DEF Shown
<1>6. ASSUME NEW k \in 1..n - 1
      PROVE  new[k] = IF k < pos + 1 THEN old[k] ELSE old[k + 1]
  <2>1. /\ k - 1 \in 0..n - 2 /\ k \in 1..n /\ k + 1 \in 1..n
        /\ (k - 1) + 1 = k /\ (k + 1) - 1 = k
        /\ k - 1 >= pos <=> ~(k < pos + 1)
    BY <1>2
  <2>2. CASE k < pos + 1
    <3>1. newRows[k - 1] = rows[k - 1] /\ WeightOf(newWs, k - 1) = WeightOf(ws, k - 1)
      BY <1>1, <1>3, <2>1, <2>2
    <3> QED
      BY <1>4, <1>5, <2>1, <2>2, <3>1
  <2>3. CASE ~(k < pos + 1)
    <3>1. newRows[k - 1] = rows[k] /\ WeightOf(newWs, k - 1) = WeightOf(ws, k)
      BY <1>1, <1>3, <2>1, <2>3
    <3> QED
      BY <1>4, <1>5, <2>1, <2>3, <3>1
  <2> QED
    BY <2>2, <2>3
<1>7. DOMAIN new = 1..n - 1
  BY <1>5
<1>8. new = [k \in 1..n - 1 |-> new[k]]
  BY <1>5
<1> QED
  BY <1>1, <1>4, <1>6, <1>8

\* Rows that keep their paths show the same entries but for their numbers.
LEMMA ShownRetuned ==
    ASSUME NEW rows, NEW ws, NEW s, AliasSound(rows, ws, s), NEW n, Dense(rows, n),
           NEW newRows, NEW newWs, AliasSound(newRows, newWs, s), Dense(newRows, n),
           \A p \in DOMAIN rows : newRows[p].path = rows[p].path,
           NEW old, old = Shown(rows, ws, n),
           NEW new, new = Shown(newRows, newWs, n)
    PROVE  /\ Len(new) = Len(old)
           /\ \A i \in 1..Len(old) : new[i] \in Chains!EntryType /\ new[i].path = old[i].path
<1>1. /\ n \in Nat /\ Len(old) = n
      /\ \A k \in 1..n : old[k] = [path     |-> rows[k - 1].path,
                                   priority |-> rows[k - 1].priority,
                                   weight   |-> WeightOf(ws, k - 1)]
  BY ShownTyped
<1>2. /\ Len(new) = n
      /\ \A k \in 1..n : /\ new[k] \in Chains!EntryType
                         /\ new[k] = [path     |-> newRows[k - 1].path,
                                      priority |-> newRows[k - 1].priority,
                                      weight   |-> WeightOf(newWs, k - 1)]
  BY ShownTyped
<1>3. ASSUME NEW k \in 1..n
      PROVE  newRows[k - 1].path = rows[k - 1].path
  <2>1. k - 1 \in DOMAIN rows
    BY <1>1 DEF Dense
  <2> QED
    BY <2>1
<1> QED
  BY <1>1, <1>2, <1>3

-----------------------------------------------------------------------------
(* What an operation does to one alias                                      *)

AliasesSound ==
    /\ DOMAIN entries = Alias /\ DOMAIN weights = Alias
    /\ strategyRow \in [Alias -> Strategy \cup {"no row"}]
    /\ \A a \in Alias : AliasSound(entries[a], weights[a], strategyRow[a])

\* Alias a has these rows, a dense chain of n entries that all exist.
Has(a, rows, ws, s, n) ==
    /\ entries[a] = rows /\ weights[a] = ws /\ strategyRow[a] = s
    /\ AliasSound(rows, ws, s) /\ Dense(rows, n)
    /\ \A p \in DOMAIN rows : rows[p].path \in DOMAIN models

\* It alone gets other ones.
Only(a, rows, ws, s) ==
    /\ DOMAIN entries' = Alias /\ DOMAIN weights' = Alias
    /\ entries'[a] = rows /\ weights'[a] = ws
    /\ strategyRow' = [strategyRow EXCEPT ![a] = s]
    /\ \A b \in Alias \ {a} : entries'[b] = entries[b] /\ weights'[b] = weights[b]

\* What an operation may make of the list an alias is shown as, and of its
\* strategy: the actions of AliasChains.
Edit(old, was, new, now) ==
    \/ old = <<>> /\ Chains!Fresh(new) /\ Len(new) <= MaxChain /\ now \in Strategy
    \/ new = <<>> /\ now = "primary"
    \/ /\ old # <<>> /\ Len(old) < MaxChain /\ now = was
       /\ \E p \in Path : new = Append(old, [path |-> p, priority |-> 0, weight |-> 1])
    \/ /\ Len(old) > 1 /\ now = was
       /\ \E k \in 1..Len(old) :
             new = [i \in 1..(Len(old) - 1) |-> IF i < k THEN old[i] ELSE old[i + 1]]
    \/ /\ Len(new) = Len(old) /\ now = was
       /\ \A i \in 1..Len(old) : new[i] \in Chains!EntryType /\ new[i].path = old[i].path
    \/ old # <<>> /\ new = old /\ now \in Strategy

\* The alias after the operation, as sound as before.
Outcome(a, old, was, rows, ws, s, n) ==
    /\ Only(a, rows, ws, s) /\ UNCHANGED models
    /\ AliasSound(rows, ws, s) /\ Dense(rows, n)
    /\ \A p \in DOMAIN rows : rows[p].path \in DOMAIN models
    /\ Edit(old, was, Shown(rows, ws, n), Policy(s))

LEMMA Counted ==
    ASSUME NEW a \in Alias, NEW rows, NEW ws, NEW s, NEW n, Has(a, rows, ws, s, n)
    PROVE  /\ n \in Nat /\ ChainLength(a) = n /\ Cardinality(DOMAIN rows) = n
           /\ DOMAIN entries[a] = 0..n - 1 /\ DOMAIN rows = 0..n - 1
           /\ Exists(a) <=> n # 0
           /\ DOMAIN rows = {} <=> n = 0
<1>1. Dense(rows, n) /\ entries[a] = rows
  BY DEF Has
<1>2. Cardinality(DOMAIN rows) = n /\ n \in Nat /\ (DOMAIN rows = {} <=> n = 0)
  BY <1>1, DenseCount
<1> QED
  BY <1>1, <1>2 DEF Dense, ChainLength, Exists

\* The strategies operators choose are none of the two words for no choice.
LEMMA Chosen ==
    ASSUME NEW s \in Strategy
    PROVE  s # "no row" /\ Policy(s) = s
<1>1. "no row" \notin Strategy
  BY TableAssumption, Zenon
<1> QED
  BY <1>1, Zenon DEF Policy

LEMMA CreateOutcome ==
    ASSUME AliasesSound, NEW a \in Alias, NEW rows, NEW ws, NEW s, NEW n,
           Has(a, rows, ws, s, n), NEW chain \in Seq(Path), NEW choice \in Strategy,
           Create(a, chain, choice)
    PROVE  \E r, w, t, m : Outcome(a, Shown(rows, ws, n), Policy(s), r, w, t, m)
<1>1. PICK r, w, m : r = RowsOf(chain) /\ w = NoRows /\ m = Len(chain)
  OBVIOUS
<1>2. n = 0 /\ m # 0 /\ m \in 1..MaxChain
  BY <1>1, Counted DEF Create
<1>3. /\ Dense(r, m) /\ m \in Nat
      /\ \A p \in DOMAIN r : p + 1 \in 1..m /\ r[p].path = chain[p + 1]
  BY <1>1, NewRows
<1>4. AliasSound(r, w, choice)
  BY <1>1, <1>2, CreatedSound
<1>5. Only(a, r, w, choice) /\ UNCHANGED models
  BY <1>1 DEF Create, createAlias, AliasesSound, Only
<1>6. \A p \in DOMAIN r : r[p].path \in DOMAIN models
  <2>1. \A k \in 1..m : chain[k] \in DOMAIN models
    BY <1>1 DEF Create, Configured
  <2> QED
    BY <1>3, <2>1
<1>7. Edit(Shown(rows, ws, n), Policy(s), Shown(r, w, m), Policy(choice))
  <2>1. Shown(rows, ws, n) = <<>>
    BY <1>2, ShownNone
  <2>2. Chains!Fresh(Shown(r, w, m)) /\ Len(Shown(r, w, m)) = m
    BY <1>1, <1>2, ShownCreated
  <2>3. Policy(choice) \in Strategy
    BY Chosen
  <2>4. m <= MaxChain
    BY <1>2
  <2> QED
    BY <2>1, <2>2, <2>3, <2>4, Zenon DEF Edit
<1>8. Outcome(a, Shown(rows, ws, n), Policy(s), r, w, choice, m)
  BY <1>3, <1>4, <1>5, <1>6, <1>7, Zenon DEF Outcome
<1> QED
  BY <1>8, Zenon

LEMMA RemoveOutcome ==
    ASSUME AliasesSound, NEW a \in Alias, NEW rows, NEW ws, NEW s, NEW n,
           Has(a, rows, ws, s, n), Remove(a)
    PROVE  \E r, w, t, m : Outcome(a, Shown(rows, ws, n), Policy(s), r, w, t, m)
<1>1. PICK r, t, m : r = NoRows /\ t = "no row" /\ m = 0
  OBVIOUS
<1>2. AliasSound(r, r, t) /\ Dense(r, m) /\ DOMAIN r = {}
  BY <1>1, NoRowsSound
<1>3. Only(a, r, r, t) /\ UNCHANGED models
  BY <1>1 DEF Remove, deleteAlias, AliasesSound, Only
<1>4. Shown(r, r, m) = <<>> /\ Policy(t) = "primary"
  BY <1>1, ShownNone DEF Policy
<1>5. Edit(Shown(rows, ws, n), Policy(s), Shown(r, r, m), Policy(t))
  BY <1>4, Zenon DEF Edit
<1>6. \A p \in DOMAIN r : r[p].path \in DOMAIN models
  BY <1>2
<1>7. Outcome(a, Shown(rows, ws, n), Policy(s), r, r, t, m)
  BY <1>2, <1>3, <1>5, <1>6, Zenon DEF Outcome
<1> QED
  BY <1>7, Zenon

LEMMA SetStrategyOutcome ==
    ASSUME AliasesSound, NEW a \in Alias, NEW rows, NEW ws, NEW s, NEW n,
           Has(a, rows, ws, s, n), NEW choice \in Strategy, SetStrategy(a, choice)
    PROVE  \E r, w, t, m : Outcome(a, Shown(rows, ws, n), Policy(s), r, w, t, m)
<1>1. DOMAIN rows # {} /\ n # 0
  BY Counted DEF SetStrategy
<1>2. AliasSound(rows, ws, s) /\ Dense(rows, n)
  BY DEF Has
<1>3. AliasSound(rows, ws, choice)
  BY <1>1, <1>2, SwitchedSound
<1>4. Only(a, rows, ws, choice) /\ UNCHANGED models
  BY DEF SetStrategy, upsertAliasPolicy, AliasesSound, Only, Has
<1>5. Shown(rows, ws, n) # <<>>
  <2>1. PICK old : old = Shown(rows, ws, n)
    OBVIOUS
  <2>2. Len(old) = n /\ n \in Nat
    BY <1>2, <2>1, ShownTyped
  <2> QED
    BY <1>1, <2>1, <2>2
<1>6. Policy(choice) \in Strategy
  BY Chosen
<1>7. Edit(Shown(rows, ws, n), Policy(s), Shown(rows, ws, n), Policy(choice))
  BY <1>5, <1>6, Zenon DEF Edit
<1>8. \A p \in DOMAIN rows : rows[p].path \in DOMAIN models
  BY DEF Has
<1>9. Outcome(a, Shown(rows, ws, n), Policy(s), rows, ws, choice, n)
  BY <1>2, <1>3, <1>4, <1>7, <1>8, Zenon DEF Outcome
<1> QED
  BY <1>9, Zenon

LEMMA SetWeightsOutcome ==
    ASSUME AliasesSound, NEW a \in Alias, NEW rows, NEW ws, NEW s, NEW n,
           Has(a, rows, ws, s, n), NEW list \in Seq(Nat \ {0}), SetWeights(a, list)
    PROVE  \E r, w, t, m : Outcome(a, Shown(rows, ws, n), Policy(s), r, w, t, m)
<1>1. PICK w : w = [p \in 0..(Len(list) - 1) |-> list[p + 1]]
  OBVIOUS
<1>2. AliasSound(rows, ws, s) /\ Dense(rows, n)
  BY DEF Has
<1>3. DOMAIN rows # {} /\ Len(list) = Cardinality(DOMAIN rows)
  BY Counted DEF SetWeights
<1>4. AliasSound(rows, w, s)
  BY <1>1, <1>2, <1>3, WeighedSound
<1>5. Only(a, rows, w, s) /\ UNCHANGED models
  BY <1>1 DEF SetWeights, upsertWeights, AliasesSound, Only, Has
<1>6. Edit(Shown(rows, ws, n), Policy(s), Shown(rows, w, n), Policy(s))
  <2>1. PICK old, new : old = Shown(rows, ws, n) /\ new = Shown(rows, w, n)
    OBVIOUS
  <2>2. /\ Len(new) = Len(old)
        /\ \A i \in 1..Len(old) : new[i] \in Chains!EntryType /\ new[i].path = old[i].path
    BY <1>2, <1>4, <2>1, ShownRetuned
  <2> QED
    BY <2>1, <2>2, Zenon DEF Edit
<1>7. \A p \in DOMAIN rows : rows[p].path \in DOMAIN models
  BY DEF Has
<1>8. Outcome(a, Shown(rows, ws, n), Policy(s), rows, w, s, n)
  BY <1>2, <1>4, <1>5, <1>6, <1>7, Zenon DEF Outcome
<1> QED
  BY <1>8, Zenon

LEMMA SetPrioritiesOutcome ==
    ASSUME AliasesSound, NEW a \in Alias, NEW rows, NEW ws, NEW s, NEW n,
           Has(a, rows, ws, s, n), NEW sparse, \A p \in DOMAIN sparse : sparse[p] \in Nat,
           SetPriorities(a, sparse)
    PROVE  \E r, w, t, m : Outcome(a, Shown(rows, ws, n), Policy(s), r, w, t, m)
<1>1. PICK r : r = [p \in DOMAIN rows |->
         IF p \in DOMAIN sparse THEN [rows[p] EXCEPT !.priority = sparse[p]] ELSE rows[p]]
  OBVIOUS
<1>2. AliasSound(rows, ws, s) /\ Dense(rows, n) /\ entries[a] = rows
  BY DEF Has
<1>3. /\ AliasSound(r, ws, s)
      /\ \A p \in DOMAIN rows : r[p].path = rows[p].path
  BY <1>1, <1>2, RankedSound
<1>4. DOMAIN r = DOMAIN rows /\ Dense(r, n)
  BY <1>1, <1>2 DEF Dense
<1>5. Only(a, r, ws, s) /\ UNCHANGED models
  <2>1. entries' = [entries EXCEPT ![a] = r] /\ UNCHANGED <<weights, strategyRow, models>>
    BY <1>1, <1>2 DEF SetPriorities, replacePriorities
  <2> QED
    BY <2>1 DEF AliasesSound, Only, Has
<1>6. Edit(Shown(rows, ws, n), Policy(s), Shown(r, ws, n), Policy(s))
  <2>1. PICK old, new : old = Shown(rows, ws, n) /\ new = Shown(r, ws, n)
    OBVIOUS
  <2>2. /\ Len(new) = Len(old)
        /\ \A i \in 1..Len(old) : new[i] \in Chains!EntryType /\ new[i].path = old[i].path
    BY <1>2, <1>3, <1>4, <2>1, ShownRetuned
  <2> QED
    BY <2>1, <2>2, Zenon DEF Edit
<1>7. \A p \in DOMAIN r : r[p].path \in DOMAIN models
  BY <1>3, <1>4 DEF Has
<1>8. Outcome(a, Shown(rows, ws, n), Policy(s), r, ws, s, n)
  BY <1>3, <1>4, <1>5, <1>6, <1>7, Zenon DEF Outcome
<1> QED
  BY <1>8, Zenon

LEMMA AppendOutcome ==
    ASSUME AliasesSound, NEW a \in Alias, NEW rows, NEW ws, NEW s, NEW n,
           Has(a, rows, ws, s, n), NEW path \in Path, AppendEntry(a, path)
    PROVE  \E r, w, t, m : Outcome(a, Shown(rows, ws, n), Policy(s), r, w, t, m)
<1>1. PICK r, w, m : /\ r = Inserted(rows, n, [path |-> path, priority |-> 0])
                     /\ w = (IF DOMAIN ws = {} THEN ws ELSE Inserted(ws, n, 1))
                     /\ m = n + 1
  OBVIOUS
<1>2. AliasSound(rows, ws, s) /\ Dense(rows, n) /\ entries[a] = rows /\ weights[a] = ws
  BY DEF Has
<1>3. n \in Nat /\ n # 0 /\ n < MaxChain /\ ChainLength(a) = n
  BY Counted DEF AppendEntry
<1>4. PICK old, new, entry : /\ old = Shown(rows, ws, n) /\ new = Shown(r, w, m)
                             /\ entry = [path |-> path, priority |-> 0, weight |-> 1]
  OBVIOUS
<1>5. AliasSound(r, w, s)
  BY <1>1, <1>2, <1>3, ExtendedSound
<1>6. Dense(r, m) /\ new = Append(old, entry)
  BY <1>1, <1>2, <1>3, <1>4, ShownExtended
<1>7. Only(a, r, w, s) /\ UNCHANGED models
  <2>1. /\ entries' = [entries EXCEPT ![a] = r]
        /\ weights' = [weights EXCEPT ![a] = w]
        /\ UNCHANGED <<strategyRow, models>>
    BY <1>1, <1>2, <1>3 DEF AppendEntry, appendAliasEntry
  <2> QED
    BY <2>1 DEF AliasesSound, Only, Has
<1>8. Edit(old, Policy(s), new, Policy(s))
  <2>1. Len(old) = n
    BY <1>2, <1>4, ShownTyped
  <2>2. old # <<>> /\ Len(old) < MaxChain
    BY <1>3, <2>1
  <2> QED
    BY <1>4, <1>6, <2>2, Zenon DEF Edit
<1>9. \A p \in DOMAIN r : r[p].path \in DOMAIN models
  <2>1. PICK row : row = [path |-> path, priority |-> 0]
    OBVIOUS
  <2>2. r = Inserted(rows, n, row) /\ row.path \in DOMAIN models
    BY <1>1, <2>1 DEF AppendEntry, Configured
  <2> QED
    BY <1>2, <2>2 DEF Inserted, Has
<1>10. Outcome(a, Shown(rows, ws, n), Policy(s), r, w, s, m)
  BY <1>4, <1>5, <1>6, <1>7, <1>8, <1>9, Zenon DEF Outcome
<1> QED
  BY <1>10, Zenon

LEMMA RemoveEntryOutcome ==
    ASSUME AliasesSound, NEW a \in Alias, NEW rows, NEW ws, NEW s, NEW n,
           Has(a, rows, ws, s, n), NEW pos, RemoveEntry(a, pos)
    PROVE  \E r, w, t, m : Outcome(a, Shown(rows, ws, n), Policy(s), r, w, t, m)
<1>1. PICK r, w, m : r = RowsWithout(rows, pos) /\ w = RowsWithout(ws, pos) /\ m = n - 1
  OBVIOUS
<1>2. AliasSound(rows, ws, s) /\ Dense(rows, n) /\ entries[a] = rows /\ weights[a] = ws
  BY DEF Has
<1>3. n \in Nat /\ n > 1 /\ pos \in 0..n - 1
  BY Counted DEF RemoveEntry
<1>4. PICK old, new : old = Shown(rows, ws, n) /\ new = Shown(r, w, m)
  OBVIOUS
<1>5. AliasSound(r, w, s)
  BY <1>1, <1>2, <1>3, WithdrawnSound
<1>6. /\ Dense(r, m)
      /\ new = [i \in 1..(Len(old) - 1) |-> IF i < pos + 1 THEN old[i] ELSE old[i + 1]]
  BY <1>1, <1>2, <1>3, <1>4, ShownWithdrawn
<1>7. Only(a, r, w, s) /\ UNCHANGED models
  <2>1. /\ entries' = [entries EXCEPT ![a] = r]
        /\ weights' = [weights EXCEPT ![a] = w]
        /\ UNCHANGED <<strategyRow, models>>
    BY <1>1, <1>2 DEF RemoveEntry, removeAliasEntry
  <2> QED
    BY <2>1 DEF AliasesSound, Only, Has
<1>8. Edit(old, Policy(s), new, Policy(s))
  <2>1. Len(old) = n
    BY <1>2, <1>4, ShownTyped
  <2>2. Len(old) > 1 /\ pos + 1 \in 1..Len(old)
    BY <1>3, <2>1
  <2> QED
    BY <1>6, <2>2, Zenon DEF Edit
<1>9. \A p \in DOMAIN r : r[p].path \in DOMAIN models
  <2>1. /\ Dense(r, n - 1)
        /\ \A p \in 0..n - 2 : r[p] = IF p >= pos THEN rows[p + 1] ELSE rows[p]
    BY <1>1, <1>2, <1>3, RowRemoved
  <2>2. DOMAIN rows = 0..n - 1 /\ DOMAIN r = 0..n - 2
    BY <1>2, <1>3, <2>1 DEF Dense
  <2>3. \A p \in 0..n - 2 : p \in 0..n - 1 /\ p + 1 \in 0..n - 1
    BY <1>3
  <2> QED
    BY <2>1, <2>2, <2>3 DEF Has
<1>10. Outcome(a, Shown(rows, ws, n), Policy(s), r, w, s, m)
  BY <1>4, <1>5, <1>6, <1>7, <1>8, <1>9, Zenon DEF Outcome
<1> QED
  BY <1>10, Zenon

LEMMA AliasHas ==
    ASSUME AliasesSound, EntriesExist, NEW a \in Alias
    PROVE  \E rows, ws, s, n : Has(a, rows, ws, s, n)
<1>1. PICK rows, ws, s : rows = entries[a] /\ ws = weights[a] /\ s = strategyRow[a]
  OBVIOUS
<1>2. AliasSound(rows, ws, s)
  BY <1>1 DEF AliasesSound
<1>3. PICK n \in Nat : Dense(rows, n)
  BY <1>2 DEF AliasSound
<1>4. \A p \in DOMAIN rows : rows[p].path \in DOMAIN models
  BY <1>1 DEF EntriesExist, Configured
<1>5. Has(a, rows, ws, s, n)
  BY <1>1, <1>2, <1>3, <1>4 DEF Has
<1> QED
  BY <1>5, Zenon

LEMMA OperationOutcome ==
    ASSUME AliasesSound, NEW a \in Alias, NEW rows, NEW ws, NEW s, NEW n,
           Has(a, rows, ws, s, n), DOMAIN models \subseteq Path, AliasOperation(a)
    PROVE  \E r, w, t, m : Outcome(a, Shown(rows, ws, n), Policy(s), r, w, t, m)
<1>1. CASE Remove(a)
  BY <1>1, RemoveOutcome
<1>2. ASSUME NEW choice \in Strategy, SetStrategy(a, choice)
      PROVE  \E r, w, t, m : Outcome(a, Shown(rows, ws, n), Policy(s), r, w, t, m)
  BY <1>2, SetStrategyOutcome
<1>3. ASSUME NEW k \in 1..MaxChain, NEW chain \in [1..k -> DOMAIN models], NEW choice \in Strategy,
             Create(a, chain, choice)
      PROVE  \E r, w, t, m : Outcome(a, Shown(rows, ws, n), Policy(s), r, w, t, m)
  <2>1. chain \in Seq(Path)
    <3>1. k \in Nat /\ chain \in [1..k -> Path]
      OBVIOUS
    <3> QED
      BY <3>1
  <2> QED
    BY <1>3, <2>1, CreateOutcome
<1>4. ASSUME NEW list \in [1..ChainLength(a) -> 1..MaxWeight], SetWeights(a, list)
      PROVE  \E r, w, t, m : Outcome(a, Shown(rows, ws, n), Policy(s), r, w, t, m)
  <2>1. list \in Seq(Nat \ {0})
    <3>1. n \in Nat /\ ChainLength(a) = n
      BY Counted
    <3>2. list \in [1..n -> Nat \ {0}]
      BY <3>1
    <3> QED
      BY <3>1, <3>2
  <2> QED
    BY <1>4, <2>1, SetWeightsOutcome
<1>5. ASSUME NEW some \in SUBSET (0..(ChainLength(a) - 1)), NEW sparse \in [some -> 0..MaxPriority],
             SetPriorities(a, sparse)
      PROVE  \E r, w, t, m : Outcome(a, Shown(rows, ws, n), Policy(s), r, w, t, m)
  <2>1. \A p \in DOMAIN sparse : sparse[p] \in Nat
    OBVIOUS
  <2> QED
    BY <1>5, <2>1, SetPrioritiesOutcome
<1>6. ASSUME NEW path \in Path, AppendEntry(a, path)
      PROVE  \E r, w, t, m : Outcome(a, Shown(rows, ws, n), Policy(s), r, w, t, m)
  BY <1>6, AppendOutcome
<1>7. ASSUME NEW pos \in 0..(MaxChain - 1), RemoveEntry(a, pos)
      PROVE  \E r, w, t, m : Outcome(a, Shown(rows, ws, n), Policy(s), r, w, t, m)
  BY <1>7, RemoveEntryOutcome
<1> QED
  BY <1>1, <1>2, <1>3, <1>4, <1>5, <1>6, <1>7 DEF AliasOperation

-----------------------------------------------------------------------------
(* The invariant                                                            *)

ModelsSound ==
    /\ DOMAIN models \subseteq Path
    /\ \A path \in DOMAIN models : models[path] \in Upstream

\* A model goes with its provider.
ModelsHaveProviders == \A path \in DOMAIN models : Known(path[1])

ProvidersTyped ==
    /\ endpoint \in [Provider -> Endpoint \cup {"absent"}]
    /\ clients \in [Provider -> Endpoint \cup {"absent"}]
    /\ held \in [Request -> SUBSET Resolved]
    /\ call \in [resolved : Endpoint \cup {"absent"}, used : Endpoint \cup {"absent"}]

RegInv ==
    /\ AliasesSound
    /\ EntriesExist
    /\ ModelsSound
    /\ ModelsHaveProviders
    /\ ProvidersTyped

LEMMA InvTyped == RegInv => TypeOK
<1> SUFFICES ASSUME RegInv
             PROVE  TypeOK
  OBVIOUS
<1>1. ASSUME NEW a \in Alias
      PROVE  /\ DOMAIN entries[a] \subseteq Nat
             /\ \A p \in DOMAIN entries[a] : entries[a][p] \in Row
             /\ DOMAIN weights[a] \subseteq Nat
             /\ \A p \in DOMAIN weights[a] : weights[a][p] \in Nat \ {0}
  <2>1. AliasSound(entries[a], weights[a], strategyRow[a])
    BY DEF RegInv, AliasesSound
  <2>2. DOMAIN entries[a] \subseteq Nat
    <3>1. PICK rows : rows = entries[a]
      OBVIOUS
    <3>2. PICK n \in Nat : Dense(rows, n)
      BY <2>1, <3>1 DEF AliasSound
    <3>3. DOMAIN rows \subseteq Nat
      BY <3>2 DEF Dense
    <3> QED
      BY <3>1, <3>3
  <2> QED
    BY <2>1, <2>2 DEF AliasSound
<1> QED
  BY <1>1 DEF RegInv, AliasesSound, ModelsSound, ProvidersTyped, TypeOK, TablesTypeOK

\* An operation on one alias keeps the tables sound.
LEMMA OutcomeSound ==
    ASSUME AliasesSound, EntriesExist, NEW a \in Alias, NEW old, NEW was,
           NEW rows, NEW ws, NEW s, NEW n, Outcome(a, old, was, rows, ws, s, n)
    PROVE  AliasesSound' /\ EntriesExist'
<1>1. /\ Only(a, rows, ws, s) /\ models' = models /\ AliasSound(rows, ws, s)
      /\ \A p \in DOMAIN rows : rows[p].path \in DOMAIN models
  BY DEF Outcome
<1>2. s \in Strategy \cup {"no row"}
  BY <1>1 DEF AliasSound
<1>3. strategyRow' \in [Alias -> Strategy \cup {"no row"}] /\ strategyRow'[a] = s
      /\ \A b \in Alias \ {a} : strategyRow'[b] = strategyRow[b]
  BY <1>1, <1>2 DEF Only, AliasesSound
<1>4. ASSUME NEW b \in Alias
      PROVE  /\ AliasSound(entries'[b], weights'[b], strategyRow'[b])
             /\ \A p \in DOMAIN entries'[b] : entries'[b][p].path \in DOMAIN models'
  <2>1. CASE b = a
    <3>1. entries'[b] = rows /\ weights'[b] = ws /\ strategyRow'[b] = s
      BY <1>1, <1>3, <2>1 DEF Only
    <3> QED
      BY <1>1, <3>1
  <2>2. CASE b # a
    <3>1. entries'[b] = entries[b] /\ weights'[b] = weights[b] /\ strategyRow'[b] = strategyRow[b]
      BY <1>1, <1>3, <2>2 DEF Only
    <3> QED
      BY <1>1, <3>1 DEF AliasesSound, EntriesExist, Configured
  <2> QED
    BY <2>1, <2>2
<1>5. DOMAIN entries' = Alias /\ DOMAIN weights' = Alias
  BY <1>1 DEF Only
<1>6. AliasesSound'
  BY <1>3, <1>4, <1>5 DEF AliasesSound
<1>7. EntriesExist'
  BY <1>4 DEF EntriesExist, Configured
<1> QED
  BY <1>6, <1>7

LEMMA RegInvInit == RegInit => RegInv
<1> SUFFICES ASSUME RegInit
             PROVE  RegInv
  OBVIOUS
<1>1. /\ DOMAIN SeedModels \subseteq Path
      /\ \A path \in DOMAIN SeedModels : SeedModels[path] \in Upstream
      /\ Seed \in [Alias -> Seq(DOMAIN SeedModels)]
  BY TableAssumption, Zenon
<1>2. /\ SeedEndpoint \in [Provider -> Endpoint \cup {"absent"}]
      /\ \A path \in DOMAIN SeedModels : SeedEndpoint[path[1]] # "absent"
  BY EndpointAssumption, Zenon
<1>3. ASSUME NEW a \in Alias
      PROVE  /\ AliasSound(RowsOf(Seed[a]), NoRows, "no row")
             /\ \A p \in DOMAIN RowsOf(Seed[a]) : RowsOf(Seed[a])[p].path \in DOMAIN SeedModels
  <2>1. PICK chain : chain = Seed[a]
    OBVIOUS
  <2>2. chain \in Seq(DOMAIN SeedModels) /\ chain \in Seq(Path)
    BY <1>1, <2>1
  <2>3. /\ Len(chain) \in Nat /\ Dense(RowsOf(chain), Len(chain))
        /\ \A p \in DOMAIN RowsOf(chain) :
              RowsOf(chain)[p].path = chain[p + 1] /\ p + 1 \in 1..Len(chain)
    BY <2>2, NewRows
  <2>4. \A p \in DOMAIN RowsOf(chain) : RowsOf(chain)[p].path \in DOMAIN SeedModels
    BY <2>2, <2>3
  <2>5. CASE Len(chain) # 0
    BY <2>1, <2>2, <2>4, <2>5, CreatedSound
  <2>6. CASE Len(chain) = 0
    <3>1. PICK rows, ws, s, n :
             rows = RowsOf(chain) /\ ws = NoRows /\ s = "no row" /\ n = Len(chain)
      OBVIOUS
    <3>2. DOMAIN rows = {} /\ Dense(rows, n) /\ n \in Nat
      <4>1. Dense(rows, n) /\ n \in Nat /\ n = 0
        BY <2>3, <2>6, <3>1
      <4> QED
        BY <4>1, DenseCount
    <3>3. DOMAIN ws = {}
      BY <3>1, NoRowsSound
    <3>4. AliasSound(rows, ws, s)
      BY <3>1, <3>2, <3>3 DEF AliasSound
    <3> QED
      BY <2>1, <2>4, <3>1, <3>4
  <2> QED
    BY <2>5, <2>6
<1>4. AliasesSound
  <2>1. ASSUME NEW a \in Alias
        PROVE  AliasSound(entries[a], weights[a], strategyRow[a])
    <3>1. entries[a] = RowsOf(Seed[a]) /\ weights[a] = NoRows /\ strategyRow[a] = "no row"
      BY DEF RegInit, Init
    <3> QED
      BY <1>3, <3>1
  <2>2. /\ DOMAIN entries = Alias /\ DOMAIN weights = Alias
        /\ strategyRow \in [Alias -> Strategy \cup {"no row"}]
    BY DEF RegInit, Init
  <2> QED
    BY <2>1, <2>2 DEF AliasesSound
<1>5. EntriesExist
  BY <1>3 DEF RegInit, Init, EntriesExist, Configured
<1>6. ModelsSound /\ ModelsHaveProviders
  BY <1>1, <1>2 DEF RegInit, Init, ModelsSound, ModelsHaveProviders, Known
<1>7. ProvidersTyped
  <2>1. /\ endpoint = SeedEndpoint /\ clients = [p \in Provider |-> "absent"]
        /\ held = [r \in Request |-> {}] /\ call = NoCall
    BY DEF RegInit, Reset
  <2> QED
    BY <1>2, <2>1 DEF ProvidersTyped, NoCall
<1> QED
  BY <1>4, <1>5, <1>6, <1>7 DEF RegInv

\* Nothing about an alias is in the other tables.
LEMMA AliasesKept ==
    ASSUME AliasesSound, UNCHANGED <<entries, weights, strategyRow>>
    PROVE  AliasesSound'
BY DEF AliasesSound

LEMMA ModelWritten ==
    ASSUME EntriesExist, ModelsSound, ModelsHaveProviders, UNCHANGED <<entries, endpoint>>,
           NEW path \in Path, NEW real \in Upstream, Known(path[1]), WriteModel(path, real)
    PROVE  EntriesExist' /\ ModelsSound' /\ ModelsHaveProviders'
<1>1. /\ DOMAIN models' = DOMAIN models \cup {path}
      /\ \A x \in DOMAIN models' : models'[x] = IF x = path THEN real ELSE models[x]
  BY DEF WriteModel, Inserted
<1>2. EntriesExist'
  BY <1>1 DEF EntriesExist, Configured
<1>3. ModelsSound'
  BY <1>1 DEF ModelsSound
<1>4. ModelsHaveProviders'
  BY <1>1 DEF ModelsHaveProviders, Known
<1> QED
  BY <1>2, <1>3, <1>4

LEMMA EditTablesInv == RegInv /\ EditTables => RegInv'
<1> SUFFICES ASSUME RegInv, EditTables
             PROVE  RegInv'
  OBVIOUS
<1>1. /\ AliasesSound /\ EntriesExist /\ ModelsSound /\ ModelsHaveProviders
      /\ ProvidersTyped /\ UNCHANGED <<endpoint, clients, held, call>>
  BY DEF RegInv, EditTables
<1>2. ProvidersTyped'
  BY <1>1 DEF ProvidersTyped
<1>3. ASSUME NEW a \in Alias, AliasOperation(a)
      PROVE  RegInv'
  <2>1. PICK rows, ws, s, n : Has(a, rows, ws, s, n)
    BY <1>1, AliasHas
  <2>2. PICK r, w, t, m : Outcome(a, Shown(rows, ws, n), Policy(s), r, w, t, m)
    BY <1>1, <1>3, <2>1, OperationOutcome DEF ModelsSound
  <2>3. AliasesSound' /\ EntriesExist' /\ models' = models
    BY <1>1, <2>2, OutcomeSound DEF Outcome
  <2>4. ModelsSound' /\ ModelsHaveProviders'
    BY <1>1, <2>3 DEF ModelsSound, ModelsHaveProviders, Known
  <2> QED
    BY <1>2, <2>3, <2>4 DEF RegInv
<1>4. ASSUME NEW path \in Path, DeleteModel(path)
      PROVE  RegInv'
  <2>1. AliasesSound'
    BY <1>1, <1>4, AliasesKept DEF DeleteModel
  <2>2. /\ DOMAIN models' = DOMAIN models \ {path} /\ UNCHANGED entries
        /\ \A x \in DOMAIN models' : models'[x] = models[x]
    BY <1>4 DEF DeleteModel, KeepModels
  <2>3. EntriesExist'
    BY <1>1, <1>4, <2>2 DEF EntriesExist, Configured, DeleteModel, UsedBy
  <2>4. ModelsSound' /\ ModelsHaveProviders'
    BY <1>1, <2>2 DEF ModelsSound, ModelsHaveProviders, Known
  <2> QED
    BY <1>2, <2>1, <2>3, <2>4 DEF RegInv
<1>5. ASSUME NEW path \in Path, NEW real \in Upstream,
             PatchModel(path, real) \/ (Known(path[1]) /\ CreateModel(path, real))
      PROVE  RegInv'
  <2>1. /\ WriteModel(path, real) /\ Known(path[1])
        /\ UNCHANGED <<entries, weights, strategyRow>>
    BY <1>1, <1>5 DEF PatchModel, CreateModel, ModelsHaveProviders, Configured
  <2>2. AliasesSound'
    BY <1>1, <2>1, AliasesKept
  <2>3. EntriesExist' /\ ModelsSound' /\ ModelsHaveProviders'
    BY <1>1, <2>1, ModelWritten
  <2> QED
    BY <1>2, <2>2, <2>3 DEF RegInv
<1> QED
  BY <1>3, <1>4, <1>5 DEF EditTables

\* Providers come, change and go.
LEMMA ProviderStepInv ==
    ASSUME RegInv, NEW p \in Provider,
           \/ \E e \in Endpoint : CreateProvider(p, e) \/ PatchProvider(p, e)
           \/ DeleteProvider(p)
    PROVE  RegInv'
<1>1. /\ AliasesSound /\ EntriesExist /\ ModelsSound /\ ModelsHaveProviders
      /\ ProvidersTyped
  BY DEF RegInv
<1>2. AliasesSound' /\ UNCHANGED <<entries, clients, held, call>>
  BY <1>1, AliasesKept DEF CreateProvider, PatchProvider, DeleteProvider, tables
<1>3. \A e \in Endpoint : e # "absent"
  BY EndpointAssumption, Zenon
<1>4. ASSUME NEW e \in Endpoint, WriteProvider(p, e), models' = models
      PROVE  RegInv'
  <2>1. ProvidersTyped'
    BY <1>1, <1>2, <1>4 DEF ProvidersTyped, WriteProvider
  <2>2. \A q \in Provider : endpoint[q] # "absent" => endpoint'[q] # "absent"
    BY <1>1, <1>3, <1>4 DEF ProvidersTyped, WriteProvider
  <2>3. ModelsHaveProviders'
    <3>1. \A path \in DOMAIN models : path[1] \in Provider
      BY <1>1 DEF ModelsSound, Path
    <3> QED
      BY <1>1, <1>4, <2>2, <3>1 DEF ModelsHaveProviders, Known
  <2> QED
    BY <1>1, <1>2, <1>4, <2>1, <2>3 DEF RegInv, ModelsSound, EntriesExist, Configured
<1>5. CASE DeleteProvider(p)
  <2>1. /\ DOMAIN models' = {path \in DOMAIN models : path[1] # p}
        /\ \A path \in DOMAIN models' : models'[path] = models[path]
        /\ endpoint' = [endpoint EXCEPT ![p] = "absent"]
    BY <1>5 DEF DeleteProvider, KeepModels, WriteProvider
  <2>2. ProvidersTyped'
    BY <1>1, <1>2, <2>1 DEF ProvidersTyped
  <2>3. ModelsSound'
    BY <1>1, <2>1 DEF ModelsSound
  <2>4. ModelsHaveProviders'
    <3>1. \A path \in DOMAIN models : path[1] \in Provider
      BY <1>1 DEF ModelsSound, Path
    <3> QED
      BY <1>1, <2>1, <3>1 DEF ModelsHaveProviders, Known, ProvidersTyped
  <2>5. ASSUME NEW a \in Alias, NEW k \in DOMAIN entries[a]
        PROVE  entries[a][k].path[1] # p
    <3>1. PICK path : path = entries[a][k].path
      OBVIOUS
    <3>2. path \in DOMAIN models
      BY <1>1, <3>1 DEF EntriesExist, Configured
    <3>3. path[2] \in ModelKey /\ path = <<path[1], path[2]>>
      BY <1>1, <3>2 DEF ModelsSound, Path
    <3>4. UsedBy(<<p, path[2]>>) = {}
      BY <1>5, <3>3 DEF DeleteProvider, aliasesUsingProvider
    <3> QED
      BY <3>1, <3>3, <3>4 DEF UsedBy
  <2>6. EntriesExist'
    BY <1>1, <1>2, <2>1, <2>5 DEF EntriesExist, Configured
  <2> QED
    BY <1>2, <2>2, <2>3, <2>4, <2>6 DEF RegInv
<1> QED
  BY <1>4, <1>5 DEF CreateProvider, PatchProvider, tables

\* An entry that can be built is one a request may hold.
LEMMA BuiltResolved ==
    ASSUME ModelsSound, ProvidersTyped, NEW path, Buildable(path)
    PROVE  Build(path) \in Resolved
<1>1. path[1] \in Provider /\ models[path] \in Upstream
  BY DEF Buildable, Configured, ModelsSound, Path
<1>2. endpoint[path[1]] \in Endpoint
  BY EndpointAssumption, Zenon DEF Buildable
<1> QED
  BY <1>1, <1>2 DEF Build, Resolved

\* A call is made to an endpoint, and with a client made for one.
LEMMA CalledTyped ==
    ASSUME ProvidersTyped, NEW entry \in Resolved, CallUpstream(entry)
    PROVE  /\ clients' \in [Provider -> Endpoint \cup {"absent"}]
           /\ call' \in [resolved : Endpoint \cup {"absent"}, used : Endpoint \cup {"absent"}]
<1>1. entry.provider \in Provider /\ entry.endpoint \in Endpoint
  BY DEF Resolved
<1>2. clientFor(entry) \in Endpoint \cup {"absent"}
  BY <1>1 DEF ProvidersTyped, clientFor
<1> QED
  BY <1>1, <1>2 DEF ProvidersTyped, CallUpstream

\* Requests and restarts leave the tables alone.
LEMMA RequestStepInv ==
    ASSUME RegInv,
           \/ \E r \in Request : Answered(r)
           \/ \E r \in Request, name \in Name, k \in 1..MaxChain : Ask(r, name, k)
           \/ \E r \in Request : \E entry \in held[r] : FallBack(r, entry)
           \/ Restart
    PROVE  RegInv'
<1>1. UNCHANGED <<entries, weights, strategyRow, models, endpoint>>
  BY DEF Answered, Ask, FallBack, Restart, tables
<1>2. /\ AliasesSound' /\ EntriesExist' /\ ModelsSound' /\ ModelsHaveProviders'
  BY <1>1, AliasesKept DEF RegInv, EntriesExist, Configured, ModelsSound, ModelsHaveProviders, Known
<1>3. ProvidersTyped /\ ModelsSound
  BY DEF RegInv
<1>4. ASSUME NEW r \in Request, Answered(r)
      PROVE  ProvidersTyped'
  BY <1>1, <1>3, <1>4 DEF ProvidersTyped, Answered
<1>5. ASSUME NEW r \in Request, NEW name \in Name, NEW k \in 1..MaxChain, Ask(r, name, k)
      PROVE  ProvidersTyped'
  <2>1. \A i \in DOMAIN ResolveChain(name) : ResolveChain(name)[i] \in Resolved
    <3>1. DOMAIN ResolveChain(name) = DOMAIN PathsOf(name)
      BY DEF ResolveChain
    <3>2. ASSUME NEW i \in DOMAIN PathsOf(name)
          PROVE  ResolveChain(name)[i] \in Resolved
      <4>1. Buildable(PathsOf(name)[i])
        BY <1>5 DEF Ask, Resolves
      <4>2. Build(PathsOf(name)[i]) \in Resolved
        BY <1>3, <4>1, BuiltResolved
      <4> QED
        BY <4>2 DEF ResolveChain
    <3> QED
      BY <3>1, <3>2
  <2>2. PICK entry : entry = ResolveChain(name)[k]
    OBVIOUS
  <2>3. entry \in Resolved /\ CallUpstream(entry)
    BY <1>5, <2>1, <2>2 DEF Ask, CallUpstream, clientFor
  <2>4. held' \in [Request -> SUBSET Resolved]
    BY <1>3, <1>5, <2>1 DEF Ask, ProvidersTyped
  <2> QED
    BY <1>1, <1>3, <2>3, <2>4, CalledTyped DEF ProvidersTyped
<1>6. ASSUME NEW r \in Request, NEW entry \in held[r], FallBack(r, entry)
      PROVE  ProvidersTyped'
  <2>1. entry \in Resolved /\ CallUpstream(entry)
    BY <1>3, <1>6 DEF ProvidersTyped, FallBack
  <2>2. held' \in [Request -> SUBSET Resolved]
    BY <1>3, <1>6 DEF FallBack, ProvidersTyped
  <2> QED
    BY <1>1, <1>3, <2>1, <2>2, CalledTyped DEF ProvidersTyped
<1>7. ASSUME Restart
      PROVE  ProvidersTyped'
  BY <1>1, <1>3, <1>7 DEF Restart, ProvidersTyped, NoCall
<1> QED
  BY <1>2, <1>4, <1>5, <1>6, <1>7 DEF RegInv

LEMMA RegInvNext == RegInv /\ [RegNext]_regVars => RegInv'
<1> SUFFICES ASSUME RegInv, [RegNext]_regVars
             PROVE  RegInv'
  OBVIOUS
<1>1. CASE EditTables
  BY <1>1, EditTablesInv
<1>2. CASE \E p \in Provider :
              \/ \E e \in Endpoint : CreateProvider(p, e) \/ PatchProvider(p, e)
              \/ DeleteProvider(p)
  BY <1>2, ProviderStepInv
<1>3. CASE \/ \E r \in Request : Answered(r)
           \/ \E r \in Request, name \in Name, k \in 1..MaxChain : Ask(r, name, k)
           \/ \E r \in Request : \E entry \in held[r] : FallBack(r, entry)
           \/ Restart
  BY <1>3, RequestStepInv
<1>4. CASE UNCHANGED regVars
  <2>1. UNCHANGED <<entries, weights, strategyRow, models, endpoint, clients, held, call>>
    BY <1>4 DEF regVars
  <2>2. AliasesSound'
    BY <2>1, AliasesKept DEF RegInv
  <2> QED
    BY <2>1, <2>2 DEF RegInv, EntriesExist, Configured, ModelsSound, ModelsHaveProviders, Known,
                      ProvidersTyped
<1> QED
  BY <1>1, <1>2, <1>3, <1>4 DEF RegNext

LEMMA RegInvHolds == RegSpec => []RegInv
<1>1. RegInit => RegInv
  BY RegInvInit
<1>2. RegInv /\ [RegNext]_regVars => RegInv'
  BY RegInvNext
<1> QED
  BY <1>1, <1>2, PTL DEF RegSpec

-----------------------------------------------------------------------------
(* What the invariant says of the registry                                  *)

\* The tables, the cache of clients and the requests in flight hold what they
\* are declared to hold, after any edits and restarts
\* (provider-registry.repository.ts, provider.service.ts).
THEOREM RegTypeCorrect == RegSpec => []TypeOK
BY RegInvHolds, InvTyped, PTL

\* Whatever entries are appended and removed, the positions of every chain stay
\* 0..n-1 and its weights are none or one for each (appendAliasEntry,
\* removeAliasEntry): the next append cannot hit a row that is there.
THEOREM AlignedAlways == RegSpec => []PositionsAligned
<1>1. RegInv => PositionsAligned
  <2> SUFFICES ASSUME RegInv, NEW a \in Alias
               PROVE  /\ DOMAIN entries[a] = 0..(ChainLength(a) - 1)
                      /\ DOMAIN weights[a] \in {{}, DOMAIN entries[a]}
    BY DEF PositionsAligned
  <2>1. PICK rows, ws, s, n : Has(a, rows, ws, s, n)
    BY AliasHas DEF RegInv
  <2>2. DOMAIN entries[a] = 0..n - 1 /\ ChainLength(a) = n
    BY <2>1, Counted
  <2>3. DOMAIN weights[a] \in {{}, DOMAIN entries[a]}
    BY <2>1 DEF Has, AliasSound
  <2> QED
    BY <2>2, <2>3
<1> QED
  BY <1>1, RegInvHolds, PTL

\* A deleted alias leaves no weight and no strategy that the next alias of its
\* name would inherit (deleteAlias).
THEOREM NothingLeftAlways == RegSpec => []NothingLeftBehind
<1>1. RegInv => NothingLeftBehind
  <2> SUFFICES ASSUME RegInv, NEW a \in Alias, ~Exists(a)
               PROVE  weights[a] = NoRows /\ strategyRow[a] = "no row"
    BY DEF NothingLeftBehind
  <2> QED
    BY DEF RegInv, AliasesSound, AliasSound, Exists
<1> QED
  BY <1>1, RegInvHolds, PTL

\* Whatever operators do to providers, models and chains, an alias that exists
\* resolves, or a key is missing from the environment: no edit leaves an entry
\* without its model or a model without its provider (the 409s of the admin
\* controllers and the foreign keys).
THEOREM AliasesResolveAlways == RegSpec => []AliasesResolve
<1>1. RegInv => AliasesResolve
  <2> SUFFICES ASSUME RegInv, NEW a \in Alias, Exists(a),
                      \A k \in DOMAIN ChainOf(a) :
                         endpoint[ChainOf(a)[k][1]] \in KeySet \cup {"absent"}
               PROVE  Resolves(a)
    BY DEF AliasesResolve
  <2>1. PICK rows, ws, s, n : Has(a, rows, ws, s, n)
    BY AliasHas DEF RegInv
  <2>2. n \in Nat /\ n # 0 /\ ChainLength(a) = n /\ DOMAIN rows = 0..n - 1
    BY <2>1, Counted
  <2>3. PICK chain : chain = ChainOf(a)
    OBVIOUS
  <2>4. PathsOf(a) = chain
    BY <2>3 DEF PathsOf
  <2>5. DOMAIN chain = 1..n /\ chain # <<>>
    BY <2>2, <2>3 DEF ChainOf
  <2>6. ASSUME NEW k \in 1..n
        PROVE  chain[k] \in DOMAIN models
    <3>1. k - 1 \in DOMAIN rows /\ Nth(DOMAIN rows, k) = k - 1
      BY <2>2, NthIs
    <3>2. chain[k] = rows[k - 1].path
      BY <2>1, <2>2, <2>3, <3>1 DEF ChainOf, PathAt, Has
    <3> QED
      BY <2>1, <3>1, <3>2 DEF Has
  <2>7. ASSUME NEW k \in DOMAIN chain
        PROVE  Buildable(chain[k])
    <3>1. chain[k] \in DOMAIN models
      BY <2>5, <2>6
    <3>2. endpoint[chain[k][1]] \in KeySet \cup {"absent"}
      BY <2>3
    <3> QED
      BY <3>1, <3>2 DEF RegInv, ModelsHaveProviders, Known, Buildable, Configured
  <2> QED
    BY <2>4, <2>5, <2>7 DEF Resolves
<1> QED
  BY <1>1, RegInvHolds, PTL

-----------------------------------------------------------------------------
(* The tables implement the lists of AliasChains                            *)

LEMMA ViewIs ==
    ASSUME NEW a, NEW rows, NEW ws, entries[a] = rows, weights[a] = ws
    PROVE  View(a) = ViewOf(rows, ws)
BY DEF View, ViewOf, PathAt, ChainLength, PriorityAt, WeightAt, WeightOf

LEMMA ViewIsNext ==
    ASSUME NEW a, NEW rows, NEW ws, entries'[a] = rows, weights'[a] = ws
    PROVE  View(a)' = ViewOf(rows, ws)
BY DEF View, ViewOf, PathAt, ChainLength, PriorityAt, WeightAt, WeightOf

\* Alias a alone is shown as another list, with another strategy.
Edited(a, old, was, new, now) ==
    /\ Edit(old, was, new, now)
    /\ View(a) = old /\ StrategyOf(a) = was
    /\ [b \in Alias |-> View(b)]' = [[b \in Alias |-> View(b)] EXCEPT ![a] = new]
    /\ [b \in Alias |-> StrategyOf(b)]' = [[b \in Alias |-> StrategyOf(b)] EXCEPT ![a] = now]

\* The mapped state before and after an operation.
LEMMA OutcomeMapped ==
    ASSUME AliasesSound, NEW a \in Alias, NEW rows, NEW ws, NEW s, NEW n, Has(a, rows, ws, s, n),
           NEW r, NEW w, NEW t, NEW m,
           Outcome(a, Shown(rows, ws, n), Policy(s), r, w, t, m),
           NEW old, old = Shown(rows, ws, n), NEW new, new = Shown(r, w, m),
           NEW was, was = Policy(s), NEW now, now = Policy(t)
    PROVE  Edited(a, old, was, new, now)
<1>1. /\ Only(a, r, w, t) /\ AliasSound(r, w, t) /\ Dense(r, m)
      /\ Edit(old, was, new, now)
  BY DEF Outcome
<1>2. View(a) = old
  <2>1. View(a) = ViewOf(rows, ws)
    BY ViewIs DEF Has
  <2> QED
    BY <2>1, ViewOfDense DEF Has
<1>3. View(a)' = new
  <2>1. View(a)' = ViewOf(r, w)
    BY <1>1, ViewIsNext DEF Only
  <2> QED
    BY <1>1, <2>1, ViewOfDense
<1>4. StrategyOf(a) = was
  BY DEF Has, StrategyOf, Policy
<1>5. strategyRow'[a] = t /\ \A b \in Alias \ {a} : strategyRow'[b] = strategyRow[b]
  BY <1>1 DEF Only, AliasesSound
<1>6. StrategyOf(a)' = now
  BY <1>5 DEF StrategyOf, Policy
<1>7. ASSUME NEW b \in Alias \ {a}
      PROVE  View(b)' = View(b) /\ StrategyOf(b)' = StrategyOf(b)
  <2>1. PICK rb, wb : rb = entries[b] /\ wb = weights[b]
    OBVIOUS
  <2>2. entries'[b] = rb /\ weights'[b] = wb
    BY <1>1, <2>1 DEF Only
  <2>3. View(b) = ViewOf(rb, wb) /\ View(b)' = ViewOf(rb, wb)
    BY <2>1, <2>2, ViewIs, ViewIsNext
  <2>4. StrategyOf(b)' = StrategyOf(b)
    BY <1>5 DEF StrategyOf
  <2> QED
    BY <2>3, <2>4
<1>8. [b \in Alias |-> View(b)]' = [[b \in Alias |-> View(b)] EXCEPT ![a] = new]
  BY <1>3, <1>7
<1>9. [b \in Alias |-> StrategyOf(b)]'
        = [[b \in Alias |-> StrategyOf(b)] EXCEPT ![a] = now]
  BY <1>6, <1>7
<1> QED
  BY <1>1, <1>2, <1>4, <1>8, <1>9 DEF Edited

\* Every operation on an alias is an action of AliasChains.
LEMMA OperationMapped ==
    ASSUME RegInv, NEW a \in Alias, AliasOperation(a)
    PROVE  Chains!Next
<1>1. PICK rows, ws, s, n : Has(a, rows, ws, s, n)
  BY AliasHas DEF RegInv
<1>2. PICK r, w, t, m : Outcome(a, Shown(rows, ws, n), Policy(s), r, w, t, m)
  BY <1>1, OperationOutcome DEF RegInv, ModelsSound
<1>3. PICK old, new, was, now :
         old = Shown(rows, ws, n) /\ new = Shown(r, w, m) /\ was = Policy(s) /\ now = Policy(t)
  OBVIOUS
<1> DEFINE chain == [b \in Alias |-> View(b)]
           choice == [b \in Alias |-> StrategyOf(b)]
<1>4. /\ Edit(old, was, new, now) /\ View(a) = old /\ StrategyOf(a) = was
      /\ chain' = [chain EXCEPT ![a] = new] /\ choice' = [choice EXCEPT ![a] = now]
  <2>1. Edited(a, old, was, new, now)
    BY <1>1, <1>2, <1>3, OutcomeMapped DEF RegInv
  <2> QED
    BY <2>1 DEF Edited
<1>5. /\ chain[a] = old /\ chain'[a] = new
      /\ choice[a] = was /\ choice = [choice EXCEPT ![a] = was]
      /\ chain = [chain EXCEPT ![a] = old]
  BY <1>4
<1>6. CASE old = <<>> /\ Chains!Fresh(new) /\ Len(new) <= MaxChain /\ now \in Strategy
  <2>1. Chains!Create(a)
    BY <1>4, <1>5, <1>6 DEF Chains!Create, Chains!Becomes
  <2> QED
    BY <2>1 DEF Chains!Next
<1>7. CASE new = <<>> /\ now = "primary"
  <2>1. Chains!Drop(a)
    BY <1>4, <1>5, <1>7 DEF Chains!Drop, Chains!Becomes
  <2> QED
    BY <2>1 DEF Chains!Next
<1>8. CASE /\ old # <<>> /\ Len(old) < MaxChain /\ now = was
           /\ \E p \in Path : new = Append(old, [path |-> p, priority |-> 0, weight |-> 1])
  <2>1. PICK p \in Path : new = Append(old, [path |-> p, priority |-> 0, weight |-> 1])
    BY <1>8
  <2>2. chain' = [chain EXCEPT ![a] = Append(chain[a], [path |-> p, priority |-> 0, weight |-> 1])]
    BY <1>4, <1>5, <2>1
  <2>3. chain[a] # <<>> /\ Len(chain[a]) < MaxChain /\ choice' = choice
    BY <1>4, <1>5, <1>8
  <2>4. Chains!Extend(a)
    BY <2>2, <2>3, Zenon DEF Chains!Extend, Chains!Becomes
  <2> QED
    BY <2>4 DEF Chains!Next
<1>9. CASE /\ Len(old) > 1 /\ now = was
           /\ \E k \in 1..Len(old) :
                 new = [i \in 1..(Len(old) - 1) |-> IF i < k THEN old[i] ELSE old[i + 1]]
  <2>1. PICK k \in 1..Len(old) :
           new = [i \in 1..(Len(old) - 1) |-> IF i < k THEN old[i] ELSE old[i + 1]]
    BY <1>9
  <2>2. chain' = [chain EXCEPT ![a] = [i \in 1..(Len(chain[a]) - 1) |->
                                          IF i < k THEN chain[a][i] ELSE chain[a][i + 1]]]
    BY <1>4, <1>5, <2>1
  <2>3. Len(chain[a]) > 1 /\ choice' = choice /\ k \in 1..Len(chain[a])
    BY <1>4, <1>5, <1>9
  <2>4. Chains!Withdraw(a)
    BY <2>2, <2>3, Zenon DEF Chains!Withdraw, Chains!Becomes
  <2> QED
    BY <2>4 DEF Chains!Next
<1>10. CASE /\ Len(new) = Len(old) /\ now = was
            /\ \A i \in 1..Len(old) :
                  new[i] \in Chains!EntryType /\ new[i].path = old[i].path
  <2>1. Chains!Retune(a)
    BY <1>4, <1>5, <1>10 DEF Chains!Retune, Chains!Becomes
  <2> QED
    BY <2>1 DEF Chains!Next
<1>11. CASE old # <<>> /\ new = old /\ now \in Strategy
  <2>1. Chains!Switch(a)
    BY <1>4, <1>5, <1>11 DEF Chains!Switch
  <2> QED
    BY <2>1 DEF Chains!Next
<1> QED
  BY <1>4, <1>6, <1>7, <1>8, <1>9, <1>10, <1>11 DEF Edit

\* The steps that leave every chain and every strategy alone.
LEMMA OthersMapped ==
    ASSUME UNCHANGED <<entries, weights, strategyRow>>
    PROVE  /\ [b \in Alias |-> View(b)]' = [b \in Alias |-> View(b)]
           /\ [b \in Alias |-> StrategyOf(b)]' = [b \in Alias |-> StrategyOf(b)]
<1>1. ASSUME NEW b \in Alias
      PROVE  View(b)' = View(b) /\ StrategyOf(b)' = StrategyOf(b)
  <2>1. PICK rb, wb : rb = entries[b] /\ wb = weights[b]
    OBVIOUS
  <2>2. entries'[b] = rb /\ weights'[b] = wb
    BY <2>1
  <2>3. View(b) = ViewOf(rb, wb) /\ View(b)' = ViewOf(rb, wb)
    BY <2>1, <2>2, ViewIs, ViewIsNext
  <2>4. StrategyOf(b)' = StrategyOf(b)
    BY DEF StrategyOf
  <2> QED
    BY <2>3, <2>4
<1> QED
  BY <1>1

LEMMA ChainsInit == RegInit => Chains!Init
<1> SUFFICES ASSUME RegInit
             PROVE  Chains!Init
  OBVIOUS
<1>1. ASSUME NEW a \in Alias
      PROVE  View(a) = <<>> \/ Chains!Fresh(View(a))
  <2>1. PICK chain, rows, ws, n :
           chain = Seed[a] /\ rows = RowsOf(chain) /\ ws = NoRows /\ n = Len(chain)
    OBVIOUS
  <2>2. entries[a] = rows /\ weights[a] = ws
    BY <2>1 DEF RegInit, Init
  <2>3. chain \in Seq(Path)
    <3>1. DOMAIN SeedModels \subseteq Path /\ Seed \in [Alias -> Seq(DOMAIN SeedModels)]
      BY TableAssumption, Zenon
    <3> QED
      BY <2>1, <3>1
  <2>4. Dense(rows, n) /\ n \in Nat
    BY <2>1, <2>3, NewRows
  <2>5. View(a) = Shown(rows, ws, n)
    <3>1. View(a) = ViewOf(rows, ws)
      BY <2>2, ViewIs
    <3> QED
      BY <2>4, <3>1, ViewOfDense
  <2>6. CASE n = 0
    BY <2>5, <2>6, ShownNone
  <2>7. CASE n # 0
    <3>1. PICK shown : shown = Shown(rows, ws, n)
      OBVIOUS
    <3>2. Chains!Fresh(shown)
      BY <2>1, <2>3, <2>7, <3>1, ShownCreated
    <3> QED
      BY <2>5, <3>1, <3>2
  <2> QED
    BY <2>6, <2>7
<1>2. \A a \in Alias : StrategyOf(a) = "primary"
  BY DEF RegInit, Init, StrategyOf
<1> QED
  BY <1>1, <1>2 DEF Chains!Init

LEMMA ChainsStep ==
    RegInv /\ [RegNext]_regVars
        => [Chains!Next]_<<[a \in Alias |-> View(a)], [a \in Alias |-> StrategyOf(a)]>>
<1> SUFFICES ASSUME RegInv, [RegNext]_regVars
             PROVE  [Chains!Next]_<<[a \in Alias |-> View(a)], [a \in Alias |-> StrategyOf(a)]>>
  OBVIOUS
<1>1. CASE \E a \in Alias : AliasOperation(a)
  BY <1>1, OperationMapped
<1>2. CASE UNCHANGED <<entries, weights, strategyRow>>
  BY <1>2, OthersMapped
<1>3. CASE UNCHANGED regVars
  BY <1>2, <1>3 DEF regVars
<1>4. CASE RegNext
  <2>1. CASE EditTables
    BY <1>1, <1>2, <2>1 DEF EditTables, DeleteModel, PatchModel, CreateModel
  <2>2. CASE \E p \in Provider, e \in Endpoint : CreateProvider(p, e) \/ PatchProvider(p, e)
    BY <1>2, <2>2 DEF CreateProvider, PatchProvider, tables
  <2>3. CASE \E p \in Provider : DeleteProvider(p)
    BY <1>2, <2>3 DEF DeleteProvider
  <2>4. CASE \E r \in Request : Answered(r)
    BY <1>2, <2>4 DEF Answered, tables
  <2>5. CASE \E r \in Request, name \in Name, k \in 1..MaxChain : Ask(r, name, k)
    BY <1>2, <2>5 DEF Ask, tables
  <2>6. CASE \E r \in Request : \E entry \in held[r] : FallBack(r, entry)
    BY <1>2, <2>6 DEF FallBack, tables
  <2>7. CASE Restart
    BY <1>2, <2>7 DEF Restart, tables
  <2> QED
    BY <1>4, <2>1, <2>2, <2>3, <2>4, <2>5, <2>6, <2>7, Zenon DEF RegNext
<1> QED
  BY <1>3, <1>4

\* The three tables implement the list of AliasChains: every operation of the
\* admin API on an alias is one edit of its list, which leaves the entries it does
\* not name with their priorities and weights, and nothing else touches a list.
THEOREM ChainsImplemented == RegSpec => ImplementsChains
<1>1. RegInit => Chains!Init
  BY ChainsInit
<1>2. RegInv /\ [RegNext]_regVars
        => [Chains!Next]_<<[a \in Alias |-> View(a)], [a \in Alias |-> StrategyOf(a)]>>
  BY ChainsStep
<1> QED
  BY RegInvHolds, <1>1, <1>2, PTL DEF RegSpec, ImplementsChains, Chains!Spec
=============================================================================
