------------------------- MODULE ClientAccess_proofs -------------------------
(***************************************************************************)
(* How long a key outlives what the table says of it, for any number of    *)
(* clients, keys and concurrent verifications, any lifetime of the cache   *)
(* and any delay of its commands.                                          *)
(***************************************************************************)
EXTENDS ClientAccess, TLAPS

USE ClientAssumption

-----------------------------------------------------------------------------
(* The inductive invariant                                                  *)

FillSet  == [fact : Fact, age : 0..MaxPending]
EntrySet == [fact : Fact, life : 1..TTL]
Asking   == [key : Key \cup {NoKey}, hit : SUBSET Fact, age : 0..MaxPending]

RowsTyped ==
    /\ DOMAIN rows \subseteq Client
    /\ rows \in [DOMAIN rows -> RowSet]
    /\ \A c \in DOMAIN rows : rows[c].key \in issued
    /\ issued \subseteq Key

CacheTyped ==
    /\ DOMAIN cache \subseteq issued
    /\ cache \in [DOMAIN cache -> EntrySet]
    /\ \A k \in DOMAIN cache : cache[k].fact.key = k

FillsTyped ==
    /\ fills \in Seq(FillSet)
    /\ Len(fills) <= MaxFills
    /\ \A i \in DOMAIN fills : fills[i].fact.key \in issued

RequestsTyped ==
    /\ request \in [Request -> Asking]
    /\ \A r \in Request : request[r] # Idle => request[r].key \in issued

PastTyped ==
    /\ DOMAIN past \subseteq Fact
    /\ past \in [DOMAIN past -> 0..Bound]

Typed ==
    /\ RowsTyped
    /\ CacheTyped
    /\ FillsTyped
    /\ RequestsTyped
    /\ touched \in [Client -> 0..Throttle]
    /\ PastTyped

\* The table states f, or did so at most n ago.
Since(f, n) == f \in Facts \/ (f \in DOMAIN past /\ past[f] <= n)

\* What is on its way to the cache, in it, and on its way from it, was true no
\* longer ago than its journey and its stay allow.
Fresh ==
    /\ \A i \in DOMAIN fills : Since(fills[i].fact, fills[i].age)
    /\ \A k \in DOMAIN cache : Since(cache[k].fact, MaxPending + TTL - cache[k].life)
    /\ \A r \in Request : \A f \in request[r].hit :
          Since(f, MaxPending + TTL - 1 + request[r].age)

AccessInv == Typed /\ Fresh /\ StampMeansWritten

-----------------------------------------------------------------------------
(* The facts of the table                                                   *)

\* What the table states is well formed.
LEMMA FactsTyped ==
    ASSUME RowsTyped
    PROVE  Facts \subseteq Fact
<1> SUFFICES ASSUME NEW c \in Active PROVE FactOf(c) \in Fact
  BY DEF Facts
<1>1. c \in Client /\ rows[c] \in RowSet
  BY DEF Active, RowsTyped
<1>2. rows[c].key \in Key /\ rows[c].terms \in Terms
  BY <1>1 DEF RowSet
<1> QED
  BY <1>1, <1>2 DEF FactOf, Fact

\* Whether a row was used does not matter to what it states.
LEMMA FactsStay ==
    ASSUME DOMAIN rows' = DOMAIN rows,
           \A c \in DOMAIN rows : /\ rows'[c].key = rows[c].key
                                  /\ rows'[c].terms = rows[c].terms
                                  /\ rows'[c].revoked = rows[c].revoked
    PROVE  Facts' = Facts
<1>1. Active' = Active
  BY DEF Active
<1>2. \A c \in Active : FactOf(c)' = FactOf(c)
  BY DEF Active, FactOf
<1> QED
  BY <1>1, <1>2 DEF Facts

\* What was true lately is remembered when the table changes.
LEMMA RememberKeeps ==
    ASSUME Remember, NEW f, NEW n \in Nat, Since(f, n)
    PROVE  f \in Facts' \/ (f \in DOMAIN past' /\ past'[f] <= n)
<1> SUFFICES ASSUME f \notin Facts' PROVE f \in DOMAIN past' /\ past'[f] <= n
  OBVIOUS
<1>1. f \in (DOMAIN past \cup Facts) \ Facts'
  BY DEF Since
<1>2. f \in DOMAIN past' /\ past'[f] = IF f \in Facts THEN 0 ELSE past[f]
  BY <1>1 DEF Remember
<1> QED
  BY <1>1, <1>2 DEF Since

\* The memory stays well formed.
LEMMA RememberTyped ==
    ASSUME RowsTyped, PastTyped, Remember
    PROVE  PastTyped'
<1>1. Facts \subseteq Fact
  BY FactsTyped
<1>2. Bound \in Nat
  BY DEF Bound
<1>3. DOMAIN past' = (DOMAIN past \cup Facts) \ Facts'
  BY DEF Remember
<1>4. ASSUME NEW f \in DOMAIN past' PROVE past'[f] \in 0..Bound
  <2>1. past'[f] = IF f \in Facts THEN 0 ELSE past[f]
    BY <1>3 DEF Remember
  <2>2. f \notin Facts => f \in DOMAIN past
    BY <1>3
  <2> QED
    BY <1>2, <2>1, <2>2 DEF PastTyped
<1>5. past' = [f \in DOMAIN past' |-> past'[f]]
  BY <1>3 DEF Remember
<1>6. DOMAIN past' \subseteq Fact
  BY <1>1, <1>3 DEF PastTyped
<1>7. past' \in [DOMAIN past' -> 0..Bound]
  BY <1>4, <1>5
<1> QED
  BY <1>6, <1>7 DEF PastTyped, Bound, Fact

\* Ages and lifetimes as numbers.
LEMMA Ages ==
    ASSUME Typed
    PROVE  /\ \A i \in DOMAIN fills : fills[i].age \in 0..MaxPending
           /\ \A k \in DOMAIN cache : /\ cache[k].life \in 1..TTL
                                      /\ MaxPending + TTL - cache[k].life \in Nat
           /\ \A r \in Request : /\ request[r].age \in 0..MaxPending
                                 /\ MaxPending + TTL - 1 + request[r].age \in Nat
<1>1. \A i \in DOMAIN fills : fills[i].age \in 0..MaxPending
  <2>1. \A i \in DOMAIN fills : fills[i] \in FillSet
    BY DEF Typed, FillsTyped
  <2> QED
    BY <2>1 DEF FillSet
<1>2. \A k \in DOMAIN cache : cache[k].life \in 1..TTL
  BY DEF Typed, CacheTyped, EntrySet
<1>3. \A r \in Request : request[r].age \in 0..MaxPending
  BY DEF Typed, RequestsTyped, Asking
<1>4. /\ \A life \in 1..TTL : MaxPending + TTL - life \in Nat
      /\ \A age \in 0..MaxPending : MaxPending + TTL - 1 + age \in Nat
  OBVIOUS
<1> QED
  BY <1>1, <1>2, <1>3, <1>4

-----------------------------------------------------------------------------
(* The steps                                                                *)

\* A change of the table, which nothing under way takes notice of.
LEMMA TableChange ==
    ASSUME AccessInv, Remember, RowsTyped', StampMeansWritten', issued \subseteq issued',
           UNCHANGED <<cache, fills, request, touched>>
    PROVE  AccessInv'
<1>1. PastTyped'
  BY RememberTyped DEF AccessInv, Typed
<1>2. CacheTyped' /\ FillsTyped' /\ RequestsTyped' /\ touched' \in [Client -> 0..Throttle]
  BY DEF AccessInv, Typed, CacheTyped, FillsTyped, RequestsTyped
<1>3. Fresh'
  <2>1. \A i \in DOMAIN fills : fills[i].age \in Nat /\ Since(fills[i].fact, fills[i].age)
    BY Ages DEF AccessInv, Fresh
  <2>2. \A k \in DOMAIN cache : /\ MaxPending + TTL - cache[k].life \in Nat
                                /\ Since(cache[k].fact, MaxPending + TTL - cache[k].life)
    BY Ages DEF AccessInv, Fresh
  <2>3. \A r \in Request : /\ MaxPending + TTL - 1 + request[r].age \in Nat
                           /\ \A f \in request[r].hit :
                                 Since(f, MaxPending + TTL - 1 + request[r].age)
    BY Ages DEF AccessInv, Fresh
  <2>4. ASSUME NEW f, NEW n \in Nat, Since(f, n)
        PROVE  f \in Facts' \/ (f \in DOMAIN past' /\ past'[f] <= n)
    BY <2>4, RememberKeeps
  <2> QED
    BY <2>1, <2>2, <2>3, <2>4 DEF Fresh, Since
<1> QED
  BY <1>1, <1>2, <1>3 DEF AccessInv, Typed

\* Operators change one row.
LEMMA Administration ==
    ASSUME AccessInv, NEW c \in Client, NEW key, NEW terms,
           \/ key \in Key /\ terms \in Terms /\ Create(c, key, terms)
           \/ terms \in Terms /\ Update(c, terms)
           \/ key \in Key /\ RotateKey(c, key)
           \/ Revoke(c) \/ Delete(c)
    PROVE  AccessInv'
<1>0. RowsTyped /\ StampMeansWritten
  BY DEF AccessInv, Typed
<1>1. CASE key \in Key /\ terms \in Terms /\ Create(c, key, terms)
  <2>1. /\ c \notin DOMAIN rows /\ issued' = issued \cup {key}
        /\ rows' = [d \in DOMAIN rows \cup {c} |->
                       IF d = c THEN Row(key, terms) ELSE rows[d]]
    BY <1>1 DEF Create, Mint, Inserted
  <2>2. Row(key, terms) \in RowSet /\ Row(key, terms).key = key /\ Row(key, terms).used = Never
    BY <1>1 DEF Row, RowSet, Never
  <2>3. RowsTyped'
    BY <1>0, <2>1, <2>2 DEF RowsTyped, RowSet
  <2>4. StampMeansWritten'
    BY <1>0, <1>1, <2>1, <2>2 DEF StampMeansWritten, Create, Never
  <2> QED
    BY <1>1, <2>1, <2>3, <2>4, TableChange DEF Create
<1>2. CASE terms \in Terms /\ Update(c, terms)
  <2>1. rows' = [rows EXCEPT ![c].terms = terms] /\ c \in DOMAIN rows /\ issued' = issued
    BY <1>2 DEF Update, Updated
  <2>2. RowsTyped'
    BY <1>0, <1>2, <2>1 DEF RowsTyped, RowSet
  <2>3. StampMeansWritten'
    BY <1>0, <1>2, <2>1 DEF StampMeansWritten, Update, RowsTyped, RowSet, Never
  <2> QED
    BY <1>2, <2>1, <2>2, <2>3, TableChange DEF Update
<1>3. CASE key \in Key /\ RotateKey(c, key)
  <2>1. /\ rows' = [rows EXCEPT ![c].key = key] /\ c \in DOMAIN rows
        /\ issued' = issued \cup {key}
    BY <1>3 DEF RotateKey, Rekeyed, Mint, Active
  <2>2. RowsTyped'
    BY <1>0, <1>3, <2>1 DEF RowsTyped, RowSet
  <2>3. StampMeansWritten'
    BY <1>0, <1>3, <2>1 DEF StampMeansWritten, RotateKey, RowsTyped, RowSet, Never
  <2> QED
    BY <1>3, <2>1, <2>2, <2>3, TableChange DEF RotateKey
<1>4. CASE Revoke(c)
  <2>1. rows' = [rows EXCEPT ![c].revoked = TRUE] /\ c \in DOMAIN rows /\ issued' = issued
    BY <1>4 DEF Revoke
  <2>2. RowsTyped'
    BY <1>0, <2>1 DEF RowsTyped, RowSet
  <2>3. StampMeansWritten'
    BY <1>0, <1>4, <2>1 DEF StampMeansWritten, Revoke, RowsTyped, RowSet, Never
  <2> QED
    BY <1>4, <2>1, <2>2, <2>3, TableChange DEF Revoke
<1>5. CASE Delete(c)
  <2>1. rows' = [d \in DOMAIN rows \ {c} |-> rows[d]] /\ issued' = issued
    BY <1>5 DEF Delete
  <2>2. RowsTyped'
    BY <1>0, <2>1 DEF RowsTyped, RowSet
  <2>3. StampMeansWritten'
    BY <1>0, <1>5, <2>1 DEF StampMeansWritten, Delete, Never
  <2> QED
    BY <1>5, <2>1, <2>2, <2>3, TableChange DEF Delete
<1> QED
  BY <1>1, <1>2, <1>3, <1>4, <1>5

\* A verdict: the row may be stamped, the client may be on its way to the
\* cache, and the request is over.
LEMMA Verdict ==
    ASSUME AccessInv, NEW r \in Request, NEW c \in Client,
           Touch(c) \/ UNCHANGED <<rows, touched>>,
           \/ UNCHANGED fills
           \/ \E fact \in Facts : /\ Len(fills) < MaxFills
                                  /\ fact.key \in issued
                                  /\ fills' = Append(fills, [fact |-> fact, age |-> 0]),
           request' = [request EXCEPT ![r] = Idle],
           UNCHANGED <<issued, cache, past>>
    PROVE  AccessInv'
<1>0. RowsTyped /\ CacheTyped /\ FillsTyped /\ RequestsTyped /\ PastTyped
  BY DEF AccessInv, Typed
<1>1. \/ UNCHANGED <<rows, touched>>
      \/ /\ touched[c] = Throttle /\ touched' = [touched EXCEPT ![c] = 0]
         /\ rows' = IF c \in DOMAIN rows THEN [rows EXCEPT ![c].used = 0] ELSE rows
  BY DEF Touch
<1>2. RowsTyped' /\ Facts' = Facts
  <2>1. CASE UNCHANGED <<rows, touched>>
    BY <1>0, <2>1 DEF RowsTyped, Facts, Active, FactOf
  <2>2. CASE c \notin DOMAIN rows /\ rows' = rows
    BY <1>0, <2>2 DEF RowsTyped, Facts, Active, FactOf
  <2>3. CASE c \in DOMAIN rows /\ rows' = [rows EXCEPT ![c].used = 0]
    <3>1. RowsTyped'
      <4>1. /\ [rows[c] EXCEPT !.used = 0] \in RowSet
            /\ [rows[c] EXCEPT !.used = 0].key = rows[c].key
        <5>1. rows[c] \in RowSet /\ 0 \in 0..Throttle + 1
          BY <1>0, <2>3 DEF RowsTyped
        <5> QED
          BY <5>1 DEF RowSet
      <4>2. /\ DOMAIN rows' = DOMAIN rows
            /\ rows' \in [DOMAIN rows -> RowSet]
            /\ \A d \in DOMAIN rows : rows'[d].key = rows[d].key
        BY <1>0, <2>3, <4>1 DEF RowsTyped
      <4> QED
        BY <1>0, <4>2 DEF RowsTyped
    <3>2. DOMAIN rows' = DOMAIN rows
      BY <2>3
    <3>3. \A d \in DOMAIN rows : /\ rows'[d].key = rows[d].key
                                 /\ rows'[d].terms = rows[d].terms
                                 /\ rows'[d].revoked = rows[d].revoked
      BY <1>0, <2>3 DEF RowsTyped, RowSet
    <3> QED
      BY <3>1, <3>2, <3>3, FactsStay
  <2> QED
    BY <1>1, <2>1, <2>2, <2>3
<1>3. touched' \in [Client -> 0..Throttle] /\ StampMeansWritten'
  <2>1. touched \in [Client -> 0..Throttle] /\ StampMeansWritten
    BY DEF AccessInv, Typed
  <2>2. touched' \in [Client -> 0..Throttle]
    BY <1>1, <2>1
  <2>3. ASSUME NEW d \in DOMAIN rows', touched'[d] < Throttle
        PROVE  rows'[d].used \in {touched'[d], Never}
    <3>1. CASE UNCHANGED <<rows, touched>>
      BY <2>1, <2>3, <3>1 DEF StampMeansWritten
    <3>2. CASE /\ touched' = [touched EXCEPT ![c] = 0]
               /\ rows' = IF c \in DOMAIN rows THEN [rows EXCEPT ![c].used = 0] ELSE rows
      <4>1. d \in DOMAIN rows /\ d \in Client
        BY <1>0, <2>3, <3>2 DEF RowsTyped
      <4>2. CASE d = c
        BY <1>0, <2>1, <3>2, <4>1, <4>2 DEF RowsTyped, RowSet
      <4>3. CASE d # c
        <5>1. rows'[d] = rows[d] /\ touched'[d] = touched[d]
          BY <1>0, <2>1, <3>2, <4>1, <4>3 DEF RowsTyped
        <5> QED
          BY <2>1, <2>3, <4>1, <5>1 DEF StampMeansWritten
      <4> QED
        BY <4>2, <4>3
    <3> QED
      BY <1>1, <3>1, <3>2
  <2> QED
    BY <2>2, <2>3 DEF StampMeansWritten, Never
<1>4. RequestsTyped'
  <2>1. Idle \in Asking
    BY DEF Idle, Asking
  <2> QED
    BY <1>0, <2>1 DEF RequestsTyped
<1>5. CacheTyped' /\ PastTyped'
  BY <1>0 DEF CacheTyped, PastTyped
<1>6. ASSUME NEW f, NEW n
      PROVE  (f \in Facts' \/ (f \in DOMAIN past' /\ past'[f] <= n)) <=> Since(f, n)
  BY <1>2 DEF Since
<1>7. /\ FillsTyped'
      /\ \A i \in DOMAIN fills' : Since(fills'[i].fact, fills'[i].age)
  <2>1. \A i \in DOMAIN fills : Since(fills[i].fact, fills[i].age)
    BY DEF AccessInv, Fresh
  <2>2. CASE UNCHANGED fills
    BY <1>0, <2>1, <2>2 DEF FillsTyped
  <2>3. ASSUME NEW fact \in Facts, Len(fills) < MaxFills, fact.key \in issued,
               fills' = Append(fills, [fact |-> fact, age |-> 0])
        PROVE  /\ FillsTyped'
               /\ \A i \in DOMAIN fills' : Since(fills'[i].fact, fills'[i].age)
    <3> DEFINE new == [fact |-> fact, age |-> 0]
    <3>1. fact \in Fact
      BY <1>0, FactsTyped
    <3>2. new \in FillSet
      BY <3>1 DEF FillSet
    <3>3. Since(new.fact, new.age) /\ new.fact.key \in issued
      BY <2>3 DEF Since
    <3> HIDE DEF new
    <3>4. fills \in Seq(FillSet) /\ fills' = Append(fills, new)
      BY <1>0, <2>3 DEF FillsTyped, new
    <3>5. /\ fills' \in Seq(FillSet)
          /\ Len(fills') = Len(fills) + 1
          /\ DOMAIN fills' = 1..Len(fills) + 1 /\ DOMAIN fills = 1..Len(fills)
          /\ Len(fills) \in Nat
          /\ fills'[Len(fills) + 1] = new
          /\ \A i \in 1..Len(fills) : fills'[i] = fills[i]
      BY <3>2, <3>4
    <3>6. Len(fills') <= MaxFills
      <4>1. \A x, y \in Nat : x < y => x + 1 <= y
        OBVIOUS
      <4> QED
        BY <2>3, <3>5, <4>1, Zenon
    <3>7. ASSUME NEW i \in DOMAIN fills'
          PROVE  fills'[i].fact.key \in issued' /\ Since(fills'[i].fact, fills'[i].age)
      <4>1. CASE i = Len(fills) + 1
        BY <3>3, <3>5, <4>1
      <4>2. CASE i # Len(fills) + 1
        <5>1. i \in DOMAIN fills /\ fills'[i] = fills[i]
          BY <3>5, <4>2
        <5> QED
          BY <1>0, <2>1, <5>1 DEF FillsTyped
      <4> QED
        BY <4>1, <4>2
    <3> QED
      BY <3>5, <3>6, <3>7 DEF FillsTyped, FillSet
  <2> QED
    BY <2>2, <2>3
<1>8. Fresh'
  <2>1. /\ \A k \in DOMAIN cache : Since(cache[k].fact, MaxPending + TTL - cache[k].life)
        /\ \A q \in Request : \A f \in request[q].hit :
              Since(f, MaxPending + TTL - 1 + request[q].age)
    BY DEF AccessInv, Fresh
  <2>2. \A q \in Request : request'[q] = request[q] \/ request'[q].hit = {}
    BY <1>0 DEF RequestsTyped, Idle
  <2>3. \A i \in DOMAIN fills' :
           fills'[i].fact \in Facts' \/ /\ fills'[i].fact \in DOMAIN past'
                                        /\ past'[fills'[i].fact] <= fills'[i].age
    BY <1>6, <1>7
  <2>4. \A k \in DOMAIN cache' :
           \/ cache'[k].fact \in Facts'
           \/ /\ cache'[k].fact \in DOMAIN past'
              /\ past'[cache'[k].fact] <= MaxPending + TTL - cache'[k].life
    BY <1>6, <2>1
  <2>5. \A q \in Request : \A f \in request'[q].hit :
           f \in Facts' \/ /\ f \in DOMAIN past'
                           /\ past'[f] <= MaxPending + TTL - 1 + request'[q].age
    BY <1>6, <2>1, <2>2
  <2> QED
    BY <2>3, <2>4, <2>5 DEF Fresh, Since
<1> QED
  BY <1>2, <1>3, <1>4, <1>5, <1>7, <1>8 DEF AccessInv, Typed

\* Redis reads an entry: its answer is as fresh as the entry is.
LEMMA Asked ==
    ASSUME AccessInv, NEW r \in Request, NEW key \in issued, Present(r, key)
    PROVE  AccessInv'
<1>0. RowsTyped /\ CacheTyped /\ FillsTyped /\ RequestsTyped /\ PastTyped
  BY DEF AccessInv, Typed
<1>1. PICK hit \in {{}, IF key \in DOMAIN cache THEN {cache[key].fact} ELSE {}} :
          request' = [request EXCEPT ![r] = [key |-> key, hit |-> hit, age |-> 0]]
  BY DEF Present
<1>2. ASSUME NEW f \in hit
      PROVE  f \in Fact /\ Since(f, MaxPending + TTL - 1)
  <2>1. key \in DOMAIN cache /\ f = cache[key].fact
    BY <1>1
  <2>2. cache[key].life \in 1..TTL /\ f \in Fact
    BY <1>0, <2>1 DEF CacheTyped, EntrySet
  <2>3. Since(f, MaxPending + TTL - cache[key].life)
    BY <2>1 DEF AccessInv, Fresh
  <2>4. f \in DOMAIN past => past[f] \in Nat
    BY <1>0 DEF PastTyped
  <2> QED
    BY <2>2, <2>3, <2>4 DEF Since
<1>3. /\ UNCHANGED <<rows, issued, cache, fills, touched, past>>
      /\ Facts' = Facts
  BY DEF Present, Facts, Active, FactOf
<1>4. RowsTyped' /\ CacheTyped' /\ FillsTyped' /\ PastTyped'
  BY <1>0, <1>3 DEF RowsTyped, CacheTyped, FillsTyped, PastTyped
<1>5. RequestsTyped'
  <2>1. [key |-> key, hit |-> hit, age |-> 0] \in Asking
    BY <1>0, <1>2 DEF Asking, RowsTyped
  <2> QED
    BY <1>0, <1>1, <1>3, <2>1 DEF RequestsTyped
<1>6. Fresh'
  <2>1. /\ \A i \in DOMAIN fills : Since(fills[i].fact, fills[i].age)
        /\ \A k \in DOMAIN cache : Since(cache[k].fact, MaxPending + TTL - cache[k].life)
        /\ \A q \in Request : \A f \in request[q].hit :
              Since(f, MaxPending + TTL - 1 + request[q].age)
    BY DEF AccessInv, Fresh
  <2>2. ASSUME NEW q \in Request, NEW f \in request'[q].hit
        PROVE  Since(f, MaxPending + TTL - 1 + request'[q].age)
    <3>1. CASE q = r
      <4>1. f \in hit /\ request'[q].age = 0
        BY <1>0, <1>1, <2>2, <3>1 DEF RequestsTyped
      <4> QED
        BY <1>2, <4>1
    <3>2. CASE q # r
      <4>1. request'[q] = request[q]
        BY <1>0, <1>1, <3>2 DEF RequestsTyped
      <4> QED
        BY <2>1, <2>2, <4>1
    <3> QED
      BY <3>1, <3>2
  <2> QED
    BY <1>3, <2>1, <2>2 DEF Fresh, Since
<1>7. touched' \in [Client -> 0..Throttle] /\ StampMeansWritten'
  BY <1>3 DEF AccessInv, Typed, StampMeansWritten, Never
<1> QED
  BY <1>4, <1>5, <1>6, <1>7 DEF AccessInv, Typed

\* The cache changes by entries that are as fresh as a write on its way, or by
\* losing some; the writes on their way only become fewer.
LEMMA CacheChange ==
    ASSUME AccessInv, UNCHANGED <<rows, issued, request, touched, past>>,
           CacheTyped',
           \A k \in DOMAIN cache' :
              \/ k \in DOMAIN cache /\ cache'[k] = cache[k]
              \/ cache'[k].life = TTL /\ Since(cache'[k].fact, MaxPending),
           fills' = fills \/ (fills # <<>> /\ fills' = Tail(fills))
    PROVE  AccessInv'
<1>0. RowsTyped /\ FillsTyped /\ RequestsTyped /\ PastTyped
  BY DEF AccessInv, Typed
<1>1. RowsTyped' /\ RequestsTyped' /\ PastTyped' /\ Facts' = Facts
  BY <1>0 DEF RowsTyped, RequestsTyped, PastTyped, Facts, Active, FactOf
<1>2. touched' \in [Client -> 0..Throttle] /\ StampMeansWritten'
  BY DEF AccessInv, Typed, StampMeansWritten, Never
<1>3. /\ \A i \in DOMAIN fills : Since(fills[i].fact, fills[i].age)
      /\ \A k \in DOMAIN cache : Since(cache[k].fact, MaxPending + TTL - cache[k].life)
      /\ \A q \in Request : \A f \in request[q].hit :
            Since(f, MaxPending + TTL - 1 + request[q].age)
  BY DEF AccessInv, Fresh
<1>4. FillsTyped' /\ \A i \in DOMAIN fills' : \E j \in DOMAIN fills : fills'[i] = fills[j]
  <2>1. CASE fills' = fills
    BY <1>0, <2>1 DEF FillsTyped
  <2>2. CASE fills # <<>> /\ fills' = Tail(fills)
    <3>1. fills \in Seq(FillSet) /\ Len(fills) <= MaxFills
      BY <1>0 DEF FillsTyped
    <3>2. /\ fills' \in Seq(FillSet) /\ Len(fills') = Len(fills) - 1
          /\ DOMAIN fills' = 1..Len(fills') /\ DOMAIN fills = 1..Len(fills)
          /\ \A i \in 1..Len(fills') : fills'[i] = fills[i + 1]
      BY <2>2, <3>1
    <3>3. ASSUME NEW i \in DOMAIN fills'
          PROVE  i + 1 \in DOMAIN fills /\ fills'[i] = fills[i + 1]
      BY <3>1, <3>2
    <3>4. Len(fills') <= MaxFills
      BY <3>1, <3>2
    <3> QED
      BY <1>0, <3>2, <3>3, <3>4 DEF FillsTyped, FillSet
  <2> QED
    BY <2>1, <2>2
<1>5. ASSUME NEW k \in DOMAIN cache'
      PROVE  Since(cache'[k].fact, MaxPending + TTL - cache'[k].life)
  <2>1. CASE k \in DOMAIN cache /\ cache'[k] = cache[k]
    BY <1>3, <2>1
  <2>2. CASE cache'[k].life = TTL /\ Since(cache'[k].fact, MaxPending)
    <3>1. MaxPending + TTL - TTL = MaxPending
      OBVIOUS
    <3> QED
      BY <2>2, <3>1
  <2> QED
    BY <2>1, <2>2
<1>6. Fresh'
  BY <1>1, <1>3, <1>4, <1>5 DEF Fresh, Since
<1> QED
  BY <1>1, <1>2, <1>4, <1>6 DEF AccessInv, Typed

\* Redis executes a write, or loses it, or loses entries.
LEMMA Redis ==
    ASSUME AccessInv,
           \/ \E resent \in BOOLEAN : FillLands(resent)
           \/ FillFails
           \/ \E keys \in SUBSET DOMAIN cache : Evict(keys)
    PROVE  AccessInv'
<1>0. CacheTyped /\ FillsTyped
  BY DEF AccessInv, Typed
<1>1. ASSUME NEW resent \in BOOLEAN, FillLands(resent)
      PROVE  AccessInv'
  <2> DEFINE fill == Head(fills)
  <2>1. /\ fills # <<>> /\ fills \in Seq(FillSet) /\ 1 \in DOMAIN fills /\ fill = fills[1]
        /\ fills[1] \in FillSet
    BY <1>0, <1>1 DEF FillLands, FillsTyped
  <2>2. fill.fact.key \in issued /\ Since(fill.fact, fill.age)
    BY <1>0, <2>1 DEF FillsTyped, AccessInv, Fresh
  <2>3. fill.fact \in Fact /\ fill.age \in 0..MaxPending
    BY <2>1 DEF FillSet
  <2> HIDE DEF fill
  <2>4. Since(fill.fact, MaxPending)
    <3>1. fill.fact \in DOMAIN past => past[fill.fact] \in Nat
      BY DEF AccessInv, Typed, PastTyped
    <3> QED
      BY <2>2, <2>3, <3>1 DEF Since
  <2>5. cache' = [k \in DOMAIN cache \cup {fill.fact.key} |->
                     IF k \in {fill.fact.key} THEN [fact |-> fill.fact, life |-> TTL]
                     ELSE cache[k]]
    BY <1>1 DEF FillLands, Entry, fill
  <2>6. CacheTyped'
    <3>1. [fact |-> fill.fact, life |-> TTL] \in EntrySet
      BY <2>3 DEF EntrySet
    <3>2. issued' = issued
      BY <1>1 DEF FillLands
    <3> QED
      BY <1>0, <2>2, <2>5, <3>1, <3>2 DEF CacheTyped, EntrySet, Fact
  <2>7. \A k \in DOMAIN cache' :
              \/ k \in DOMAIN cache /\ cache'[k] = cache[k]
              \/ cache'[k].life = TTL /\ Since(cache'[k].fact, MaxPending)
    BY <2>4, <2>5
  <2> QED
    BY <1>1, <2>6, <2>7, CacheChange DEF FillLands
<1>2. CASE FillFails
  BY <1>0, <1>2, CacheChange DEF FillFails, CacheTyped, EntrySet, Fact
<1>3. ASSUME NEW keys \in SUBSET DOMAIN cache, Evict(keys)
      PROVE  AccessInv'
  <2>1. /\ cache' = [k \in DOMAIN cache \ keys |-> cache[k]]
        /\ UNCHANGED <<rows, issued, fills, request, touched, past>>
    BY <1>3 DEF Evict
  <2>2. CacheTyped'
    BY <1>0, <2>1 DEF CacheTyped, EntrySet, Fact
  <2> QED
    BY <2>1, <2>2, CacheChange
<1> QED
  BY <1>1, <1>2, <1>3

\* A unit of time ages the memory, and what is under way, alike.
LEMMA TickKeeps ==
    ASSUME AccessInv, Tick
    PROVE  AccessInv'
<1>0. /\ RowsTyped /\ CacheTyped /\ FillsTyped /\ RequestsTyped /\ PastTyped
      /\ touched \in [Client -> 0..Throttle] /\ StampMeansWritten /\ issued' = issued
  BY DEF AccessInv, Typed, Tick
<1>1. /\ rows' = [c \in DOMAIN rows |-> [rows[c] EXCEPT !.used =
                      IF rows[c].used = Never THEN Never ELSE Older(rows[c].used, Throttle)]]
      /\ touched' = [c \in Client |-> Older(touched[c], Throttle)]
  BY DEF Tick
<1>2. /\ DOMAIN rows' = DOMAIN rows
      /\ \A c \in DOMAIN rows : /\ rows'[c].key = rows[c].key
                                /\ rows'[c].terms = rows[c].terms
                                /\ rows'[c].revoked = rows[c].revoked
  BY <1>0, <1>1 DEF RowsTyped, RowSet
<1>3. Facts' = Facts
  BY <1>2, FactsStay
<1>4. ASSUME NEW c \in DOMAIN rows
      PROVE  rows'[c] \in RowSet /\ rows'[c].key = rows[c].key
  <2>1. rows[c] \in RowSet
    BY <1>0 DEF RowsTyped
  <2>2. (IF rows[c].used = Never THEN Never ELSE Older(rows[c].used, Throttle))
            \in 0..(Throttle + 1)
    BY <2>1 DEF RowSet, Never, Older
  <2> QED
    BY <1>1, <2>1, <2>2 DEF RowSet
<1>5. RowsTyped'
  <2>1. rows' \in [DOMAIN rows' -> RowSet]
    BY <1>1, <1>2, <1>4
  <2> QED
    BY <1>0, <1>2, <1>4, <2>1 DEF RowsTyped, RowSet
<1>6. touched' \in [Client -> 0..Throttle] /\ StampMeansWritten'
  <2>1. touched' \in [Client -> 0..Throttle]
    BY <1>0, <1>1 DEF Older
  <2>2. ASSUME NEW c \in DOMAIN rows, touched'[c] < Throttle
        PROVE  rows'[c].used \in {touched'[c], Never}
    <3>1. c \in Client /\ rows[c] \in RowSet
      BY <1>0 DEF RowsTyped
    <3>2. touched[c] < Throttle /\ touched'[c] = touched[c] + 1 /\ touched[c] \in 0..Throttle
      BY <1>0, <1>1, <2>2, <3>1 DEF Older
    <3>3. rows[c].used \in {touched[c], Never}
      BY <1>0, <3>2 DEF StampMeansWritten
    <3>4. rows'[c].used = IF rows[c].used = Never THEN Never ELSE Older(rows[c].used, Throttle)
      BY <1>1, <3>1 DEF RowSet
    <3> QED
      BY <3>2, <3>3, <3>4 DEF Older, Never
  <2> QED
    BY <1>2, <2>1, <2>2 DEF StampMeansWritten, Never
<1>7. Bound \in Nat /\ MaxPending < Bound /\ Bound = TTL + 2 * MaxPending
  BY DEF Bound
<1>8. PastTyped'
  <2>1. past' = [f \in {g \in DOMAIN past : past[g] < Bound} |-> past[f] + 1]
    BY DEF Tick
  <2>2. \A f \in DOMAIN past : past[f] \in 0..Bound
    BY <1>0 DEF PastTyped
  <2>3. \A f \in DOMAIN past' : past'[f] \in 0..Bound
    BY <1>7, <2>1, <2>2
  <2>4. DOMAIN past' \subseteq Fact
    BY <1>0, <2>1 DEF PastTyped
  <2>5. past' \in [DOMAIN past' -> 0..Bound]
    BY <2>1, <2>3
  <2> QED
    BY <2>4, <2>5 DEF PastTyped, Bound, Fact
<1>9. ASSUME NEW f, NEW n \in Nat, Since(f, n), n < Bound
      PROVE  f \in Facts' \/ (f \in DOMAIN past' /\ past'[f] <= n + 1)
  <2>1. past' = [g \in {h \in DOMAIN past : past[h] < Bound} |-> past[g] + 1]
    BY DEF Tick
  <2>2. f \in DOMAIN past => past[f] \in 0..Bound
    BY <1>0 DEF PastTyped
  <2> QED
    BY <1>3, <1>7, <1>9, <2>1, <2>2 DEF Since
<1>10. /\ \A i \in DOMAIN fills : Since(fills[i].fact, fills[i].age)
       /\ \A k \in DOMAIN cache : Since(cache[k].fact, MaxPending + TTL - cache[k].life)
       /\ \A q \in Request : \A f \in request[q].hit :
             Since(f, MaxPending + TTL - 1 + request[q].age)
  BY DEF AccessInv, Fresh
<1>11. /\ FillsTyped'
       /\ \A i \in DOMAIN fills' :
             \/ fills'[i].fact \in Facts'
             \/ fills'[i].fact \in DOMAIN past' /\ past'[fills'[i].fact] <= fills'[i].age
  <2>1. /\ fills \in Seq(FillSet) /\ Len(fills) <= MaxFills
        /\ \A i \in DOMAIN fills : fills[i] \in FillSet /\ fills[i].fact.key \in issued
    BY <1>0 DEF FillsTyped
  <2>2. /\ fills' = [i \in DOMAIN fills |-> [fills[i] EXCEPT !.age = @ + 1]]
        /\ \A i \in DOMAIN fills : fills[i].age < MaxPending
    BY DEF Tick
  <2>3. ASSUME NEW i \in DOMAIN fills
        PROVE  /\ fills'[i] \in FillSet /\ fills'[i].fact = fills[i].fact
               /\ fills'[i].age = fills[i].age + 1 /\ fills[i].age \in Nat
    BY <2>1, <2>2 DEF FillSet
  <2>4. fills' \in Seq(FillSet) /\ DOMAIN fills' = DOMAIN fills /\ Len(fills') = Len(fills)
    <3>1. DOMAIN fills = 1..Len(fills) /\ Len(fills) \in Nat
      BY <2>1
    <3>2. fills' \in [1..Len(fills) -> FillSet]
      BY <2>2, <2>3, <3>1
    <3> QED
      BY <3>1, <3>2
  <2>5. FillsTyped'
    BY <1>0, <2>1, <2>3, <2>4 DEF FillsTyped, FillSet
  <2>6. ASSUME NEW i \in DOMAIN fills
        PROVE  \/ fills'[i].fact \in Facts'
               \/ fills'[i].fact \in DOMAIN past' /\ past'[fills'[i].fact] <= fills'[i].age
    <3>1. fills[i].age \in Nat /\ fills[i].age < Bound
      <4>1. fills[i].age \in Nat /\ fills[i].age < MaxPending
        BY <2>2, <2>3
      <4>2. \A age \in Nat : age < MaxPending => age < Bound
        BY <1>7
      <4> QED
        BY <4>1, <4>2, Zenon
    <3>2. Since(fills[i].fact, fills[i].age)
      BY <1>10
    <3> QED
      BY <1>9, <2>3, <3>1, <3>2
  <2> QED
    BY <2>4, <2>5, <2>6
<1>12. /\ CacheTyped'
       /\ \A k \in DOMAIN cache' :
             \/ cache'[k].fact \in Facts'
             \/ /\ cache'[k].fact \in DOMAIN past'
                /\ past'[cache'[k].fact] <= MaxPending + TTL - cache'[k].life
  <2>1. cache' = [k \in {j \in DOMAIN cache : cache[j].life > 1} |->
                      [cache[k] EXCEPT !.life = @ - 1]]
    BY DEF Tick, Expire
  <2>2. ASSUME NEW k \in DOMAIN cache'
        PROVE  /\ k \in DOMAIN cache /\ cache'[k] \in EntrySet
               /\ cache'[k].fact = cache[k].fact
               /\ cache'[k].life = cache[k].life - 1 /\ cache[k].life \in 2..TTL
    <3>1. k \in DOMAIN cache /\ cache[k].life > 1 /\ cache[k] \in EntrySet
      BY <1>0, <2>1 DEF CacheTyped
    <3> QED
      BY <2>1, <3>1 DEF EntrySet
  <2>3. CacheTyped'
    <3>1. cache' \in [DOMAIN cache' -> EntrySet]
      BY <2>1, <2>2
    <3> QED
      BY <1>0, <2>2, <3>1 DEF CacheTyped, EntrySet, Fact
  <2>4. ASSUME NEW k \in DOMAIN cache'
        PROVE  \/ cache'[k].fact \in Facts'
               \/ /\ cache'[k].fact \in DOMAIN past'
                  /\ past'[cache'[k].fact] <= MaxPending + TTL - cache'[k].life
    <3> DEFINE n == MaxPending + TTL - cache[k].life
    <3>1. /\ n \in Nat /\ n < Bound /\ n + 1 = MaxPending + TTL - cache'[k].life
      BY <1>7, <2>2
    <3>2. Since(cache[k].fact, n)
      BY <1>10, <2>2
    <3> QED
      BY <1>9, <2>2, <3>1, <3>2
  <2> QED
    BY <2>3, <2>4
<1>13. /\ RequestsTyped'
       /\ \A q \in Request : \A f \in request'[q].hit :
             \/ f \in Facts'
             \/ f \in DOMAIN past' /\ past'[f] <= MaxPending + TTL - 1 + request'[q].age
  <2>1. /\ request' = [q \in Request |-> IF request[q] = Idle THEN Idle
                                         ELSE [request[q] EXCEPT !.age = @ + 1]]
        /\ \A q \in Request : request[q] # Idle => request[q].age < MaxPending
    BY DEF Tick
  <2>2. \A q \in Request : request[q] \in Asking
    BY <1>0 DEF RequestsTyped
  <2>3. ASSUME NEW q \in Request, request[q] # Idle
        PROVE  /\ request'[q] \in Asking /\ request'[q].key = request[q].key
               /\ request'[q].hit = request[q].hit
               /\ request'[q].age = request[q].age + 1
               /\ request[q].age \in Nat /\ request[q].age < MaxPending
    BY <2>1, <2>2, <2>3 DEF Asking
  <2>4. ASSUME NEW q \in Request, request[q] = Idle
        PROVE  request'[q] = Idle /\ Idle \in Asking /\ request'[q].hit = {}
    BY <2>1, <2>2, <2>4 DEF Idle
  <2>5. RequestsTyped'
    <3>1. \A q \in Request : request'[q] \in Asking
      BY <2>3, <2>4
    <3>2. request' \in [Request -> Asking]
      BY <2>1, <3>1
    <3> QED
      BY <1>0, <2>3, <2>4, <3>2 DEF RequestsTyped
  <2>6. ASSUME NEW q \in Request, NEW f \in request'[q].hit
        PROVE  \/ f \in Facts'
               \/ f \in DOMAIN past' /\ past'[f] <= MaxPending + TTL - 1 + request'[q].age
    <3>1. request[q] # Idle
      BY <2>4, <2>6
    <3> DEFINE n == MaxPending + TTL - 1 + request[q].age
    <3>2. /\ n \in Nat /\ n < Bound /\ n + 1 = MaxPending + TTL - 1 + request'[q].age
      BY <1>7, <2>3, <3>1
    <3>3. Since(f, n)
      BY <1>10, <2>3, <2>6, <3>1
    <3> QED
      BY <1>9, <3>2, <3>3
  <2> QED
    BY <2>5, <2>6
<1>14. Fresh'
  BY <1>11, <1>12, <1>13 DEF Fresh, Since
<1> QED
  BY <1>5, <1>6, <1>8, <1>11, <1>12, <1>13, <1>14 DEF AccessInv, Typed

\* A boot leaves a table of well-formed rows behind.
LEMMA Rebooted ==
    ASSUME AccessInv, Restart
    PROVE  AccessInv'
<1>0. RowsTyped /\ CacheTyped /\ PastTyped
  BY DEF AccessInv, Typed
<1>1. RowsTyped' /\ issued \subseteq issued'
  <2>1. CASE rows' = rows /\ issued' = issued
    BY <1>0, <2>1 DEF RowsTyped
  <2>2. ASSUME DOMAIN rows = {}, NEW key \in Key \ issued,
               rows' = Inserted(rows, Admin, key, AdminTerms),
               issued' = issued \cup {key}
        PROVE  RowsTyped' /\ issued \subseteq issued'
    <3>1. rows' = [d \in {Admin} |-> Row(key, AdminTerms)]
      BY <2>2 DEF Inserted
    <3>2. Row(key, AdminTerms) \in RowSet /\ Row(key, AdminTerms).key = key
      BY DEF Row, RowSet, Never
    <3> QED
      BY <1>0, <2>2, <3>1, <3>2 DEF RowsTyped, RowSet
  <2> QED
    BY <2>1, <2>2 DEF Restart, Boot
<1>2. PastTyped'
  BY <1>0, RememberTyped DEF Restart
<1>3. CacheTyped'
  BY <1>0, <1>1 DEF Restart, CacheTyped, EntrySet, Fact
<1>4. FillsTyped'
  BY DEF Restart, FillsTyped
<1>5. RequestsTyped'
  BY DEF Restart, RequestsTyped, Idle, Asking
<1>6. touched' \in [Client -> 0..Throttle] /\ StampMeansWritten'
  BY <1>1 DEF Restart, StampMeansWritten, RowsTyped
<1>7. Fresh'
  <2>1. \A k \in DOMAIN cache : /\ MaxPending + TTL - cache[k].life \in Nat
                                /\ Since(cache[k].fact, MaxPending + TTL - cache[k].life)
    BY Ages DEF AccessInv, Fresh
  <2>2. /\ fills' = <<>> /\ cache' = cache
        /\ \A q \in Request : request'[q].hit = {}
    BY DEF Restart, Idle
  <2>3. ASSUME NEW k \in DOMAIN cache'
        PROVE  \/ cache'[k].fact \in Facts'
               \/ /\ cache'[k].fact \in DOMAIN past'
                  /\ past'[cache'[k].fact] <= MaxPending + TTL - cache'[k].life
    BY <2>1, <2>2, RememberKeeps DEF Restart
  <2> QED
    BY <2>2, <2>3 DEF Fresh, Since
<1> QED
  BY <1>1, <1>2, <1>3, <1>4, <1>5, <1>6, <1>7 DEF AccessInv, Typed

\* The invariant is initially true.
LEMMA AccessInit == Init => AccessInv
<1> SUFFICES ASSUME Init PROVE AccessInv
  OBVIOUS
<1>1. RowsTyped
  <2>1. PICK key \in Key : rows = [c \in {Admin} |-> Row(key, AdminTerms)] /\ issued = {key}
    BY DEF Init
  <2>2. Row(key, AdminTerms) \in RowSet /\ Row(key, AdminTerms).key = key
    BY DEF Row, RowSet, Never
  <2> QED
    BY <2>1, <2>2 DEF RowsTyped
<1>2. CacheTyped /\ FillsTyped /\ PastTyped
  BY DEF Init, CacheTyped, FillsTyped, PastTyped
<1>3. RequestsTyped
  BY DEF Init, RequestsTyped, Idle, Asking
<1>4. touched \in [Client -> 0..Throttle] /\ StampMeansWritten
  BY <1>1 DEF Init, StampMeansWritten, RowsTyped
<1>5. Fresh
  BY DEF Init, Fresh, Idle
<1> QED
  BY <1>1, <1>2, <1>3, <1>4, <1>5 DEF AccessInv, Typed

\* What a verification serves was true lately.
LEMMA HitsAreFresh ==
    ASSUME AccessInv, NEW r \in Request, NEW f \in request[r].hit
    PROVE  f \in Fact /\ f \in Facts \cup DOMAIN past
BY DEF AccessInv, Typed, RequestsTyped, Asking, Fresh, Since

\* A row that a verification finds is one of the table's facts.
LEMMA RowsAreFacts ==
    ASSUME AccessInv, NEW c \in Active
    PROVE  /\ c \in Client /\ FactOf(c) \in Facts
           /\ FactOf(c).key \in issued
<1>1. c \in DOMAIN rows /\ RowsTyped
  BY DEF Active, AccessInv, Typed
<1> QED
  BY <1>1 DEF RowsTyped, Facts, FactOf

\* Every step keeps the invariant.
LEMMA AccessStep ==
    ASSUME AccessInv, [Next]_vars
    PROVE  AccessInv'
<1>1. ASSUME NEW c \in Client, NEW key, NEW t,
             \/ key \in Key /\ t \in Terms /\ Create(c, key, t)
             \/ t \in Terms /\ Update(c, t)
             \/ key \in Key /\ RotateKey(c, key)
             \/ Revoke(c) \/ Delete(c)
      PROVE  AccessInv'
  BY <1>1, Administration
<1>2. ASSUME NEW r \in Request, NEW key \in issued, Present(r, key)
      PROVE  AccessInv'
  BY <1>2, Asked
<1>3. ASSUME NEW r \in Request, NEW fact \in request[r].hit, AcceptCached(r, fact)
      PROVE  AccessInv'
  <2>1. fact.client \in Client
    BY HitsAreFresh DEF Fact
  <2> QED
    BY <1>3, <2>1, Verdict DEF AcceptCached
<1>4. ASSUME NEW r \in Request, NEW c \in Client, Accept(r, c)
      PROVE  AccessInv'
  <2>1. c \in Active
    BY <1>4 DEF Accept, findActiveByPrefix
  <2> QED
    BY <1>4, <2>1, RowsAreFacts, Verdict DEF Accept
<1>5. ASSUME NEW r \in Request, Refuse(r)
      PROVE  AccessInv'
  BY <1>5, Verdict DEF Refuse
<1>6. CASE (\E resent \in BOOLEAN : FillLands(resent)) \/ FillFails
           \/ (\E keys \in SUBSET DOMAIN cache : Evict(keys))
  BY <1>6, Redis
<1>7. CASE Tick
  BY <1>7, TickKeeps
<1>8. CASE Restart
  BY <1>8, Rebooted
<1>9. CASE UNCHANGED vars
  <2>1. UNCHANGED <<rows, issued, cache, fills, request, touched, past>>
    BY <1>9 DEF vars
  <2>2. RowsTyped' /\ CacheTyped' /\ FillsTyped' /\ RequestsTyped' /\ PastTyped'
    BY <2>1 DEF AccessInv, Typed, RowsTyped, CacheTyped, FillsTyped, RequestsTyped, PastTyped
  <2>3. Fresh'
    BY <2>1 DEF AccessInv, Fresh, Since, Facts, Active, FactOf
  <2>4. touched' \in [Client -> 0..Throttle] /\ StampMeansWritten'
    BY <2>1 DEF AccessInv, Typed, StampMeansWritten, Never
  <2> QED
    BY <2>2, <2>3, <2>4 DEF AccessInv, Typed
<1> QED
  BY <1>1, <1>2, <1>3, <1>4, <1>5, <1>6, <1>7, <1>8, <1>9 DEF Next

-----------------------------------------------------------------------------
(* The theorems                                                             *)

\* The inductive invariant holds of every behaviour.
THEOREM AccessInvariant == Spec => []AccessInv
<1>1. AccessInv /\ [Next]_vars => AccessInv'
  BY AccessStep
<1> QED
  BY AccessInit, <1>1, PTL DEF Spec

\* The table, the cache and what is between them are well typed: in particular
\* every cache entry is stored under the key its fact is about.
THEOREM AccessTypeCorrect == Spec => []TypeOK
<1>1. AccessInv => TypeOK
  <2> SUFFICES ASSUME Typed PROVE TypeOK
    BY DEF AccessInv
  <2>1. DOMAIN rows \subseteq Client /\ \A c \in DOMAIN rows : rows[c] \in RowSet
    BY DEF Typed, RowsTyped
  <2>2. issued \subseteq Key /\ DOMAIN cache \subseteq issued
    BY DEF Typed, RowsTyped, CacheTyped
  <2>3. ASSUME NEW k \in DOMAIN cache
        PROVE  /\ cache[k].fact \in Fact /\ cache[k].fact.key = k
               /\ cache[k].life \in 1..TTL
    BY DEF Typed, CacheTyped, EntrySet
  <2>4. Len(fills) <= MaxFills /\ \A i \in DOMAIN fills : fills[i] \in FillSet
    BY DEF Typed, FillsTyped
  <2>5. ASSUME NEW r \in Request, request[r] # Idle
        PROVE  request[r] \in [key : issued, hit : SUBSET Fact, age : 0..MaxPending]
    BY <2>5 DEF Typed, RequestsTyped, Asking
  <2>6. touched \in [Client -> 0..Throttle]
    BY DEF Typed
  <2>7. DOMAIN past \subseteq Fact /\ \A f \in DOMAIN past : past[f] \in 0..Bound
    BY DEF Typed, PastTyped
  <2> QED
    BY <2>1, <2>2, <2>3, <2>4, <2>5, <2>6, <2>7 DEF TypeOK, FillSet
<1> QED
  BY AccessInvariant, <1>1, PTL

\* last_used_at is what the throttle believes it wrote.
THEOREM StampsAreWritten == Spec => []StampMeansWritten
<1>1. AccessInv => StampMeansWritten
  BY DEF AccessInv
<1> QED
  BY AccessInvariant, <1>1, PTL

\* Which steps decide a request.
LEMMA WhoDecides ==
    ASSUME AccessInv, [Next]_vars, NEW r \in Request, Decides(r)
    PROVE  \/ \E fact \in request[r].hit : AcceptCached(r, fact)
           \/ \E c \in Client : Accept(r, c)
           \/ Refuse(r)
<1>0. /\ request[r] # Idle /\ request'[r] = Idle /\ verdict' # NoVerdict
      /\ request \in [Request -> Asking]
  BY DEF Decides, AccessInv, Typed, RequestsTyped
<1>1. request' # request
  BY <1>0
<1>2. ASSUME NEW q \in Request, NEW key \in issued, Present(q, key)
      PROVE  FALSE
  BY <1>0, <1>2 DEF Present
<1>3. ASSUME NEW q \in Request, q # r,
             request' = [request EXCEPT ![q] = Idle]
      PROVE  FALSE
  BY <1>0, <1>3
<1>4. CASE Tick
  <2>1. request'[r] = [request[r] EXCEPT !.age = @ + 1]
    BY <1>0, <1>4 DEF Tick
  <2>2. request[r].age \in Nat /\ request'[r].age = request[r].age + 1
    BY <1>0, <2>1 DEF Asking
  <2> QED
    BY <1>0, <2>2 DEF Idle
<1>5. CASE Restart
  BY <1>0, <1>5 DEF Restart
<1>6. \/ \E q \in Request :
            \/ \E key \in issued : Present(q, key)
            \/ \E fact \in request[q].hit : AcceptCached(q, fact)
            \/ \E c \in Client : Accept(q, c)
            \/ Refuse(q)
      \/ Tick \/ Restart
  BY <1>1 DEF Next, Create, Update, RotateKey, Revoke, Delete, FillLands, FillFails, Evict, vars
<1>7. ASSUME NEW q \in Request,
             \/ \E fact \in request[q].hit : AcceptCached(q, fact)
             \/ \E c \in Client : Accept(q, c)
             \/ Refuse(q)
      PROVE  q = r
  BY <1>3, <1>7 DEF AcceptCached, Accept, Refuse
<1> QED
  BY <1>2, <1>4, <1>5, <1>6, <1>7

\* A key is served only as the table had it at most TTL and two journeys of a
\* command ago, however many clients, keys and verifications there are.
THEOREM RevocationIsBounded == Spec => ServedAsOfLately
<1>1. ASSUME AccessInv, [Next]_vars, NEW r \in Request, Decides(r)
      PROVE  verdict'.served \subseteq Facts \cup DOMAIN past
  <2>1. ASSUME NEW fact \in request[r].hit, AcceptCached(r, fact)
        PROVE  verdict'.served \subseteq Facts \cup DOMAIN past
    BY <1>1, <2>1, HitsAreFresh DEF AcceptCached
  <2>2. ASSUME NEW c \in Client, Accept(r, c)
        PROVE  verdict'.served \subseteq Facts \cup DOMAIN past
    BY <1>1, <2>2, RowsAreFacts DEF Accept, findActiveByPrefix
  <2>3. CASE Refuse(r)
    BY <2>3 DEF Refuse
  <2> QED
    BY <1>1, <2>1, <2>2, <2>3, WhoDecides
<1>2. AccessInv /\ [Next]_vars =>
          [\A r \in Request : Decides(r) => verdict'.served \subseteq Facts \cup DOMAIN past]_vars
  BY <1>1
<1> QED
  BY AccessInvariant, <1>2, PTL DEF Spec, ServedAsOfLately

\* An active client's key is refused only for a prefix it shares.
THEOREM RefusalsHaveReasons == Spec => RefusedWithReason
<1>1. ASSUME AccessInv, [Next]_vars, NEW r \in Request, Decides(r), verdict'.served = {},
             NEW c \in Active, rows[c].key = request[r].key
      PROVE  \E d \in Active \ {c} : PrefixOf[rows[d].key] = PrefixOf[rows[c].key]
  <2>1. Refuse(r)
    <3>1. ASSUME NEW fact \in request[r].hit, AcceptCached(r, fact)
          PROVE  FALSE
      BY <1>1, <3>1 DEF AcceptCached
    <3>2. ASSUME NEW d \in Client, Accept(r, d)
          PROVE  FALSE
      BY <1>1, <3>2 DEF Accept
    <3> QED
      BY <1>1, <3>1, <3>2, WhoDecides
  <2>2. c \in findActiveByPrefix(PrefixOf[request[r].key])
    BY <1>1 DEF findActiveByPrefix
  <2>3. PICK d \in findActiveByPrefix(PrefixOf[request[r].key]) : rows[d].key # request[r].key
    BY <2>1, <2>2 DEF Refuse
  <2> QED
    BY <1>1, <2>3 DEF findActiveByPrefix
<1>2. AccessInv /\ [Next]_vars =>
          [\A r \in Request : Decides(r) /\ verdict'.served = {} =>
              \A c \in Active : rows[c].key = request[r].key =>
                  \E d \in Active \ {c} : PrefixOf[rows[d].key] = PrefixOf[rows[c].key]]_vars
  BY <1>1
<1> QED
  BY AccessInvariant, <1>2, PTL DEF Spec, RefusedWithReason
=============================================================================
