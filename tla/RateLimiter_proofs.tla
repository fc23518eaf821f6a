-------------------------- MODULE RateLimiter_proofs ---------------------------
(***************************************************************************)
(* What holds of the sliding window for any number of overlapping          *)
(* requests, any limits, and any window, lag and number of faults.         *)
(***************************************************************************)
EXTENDS RateLimiter, FiniteSetTheorems, TLAPS

-----------------------------------------------------------------------------
(* Counting members                                                         *)

Tally   == [Age -> Nat]
Upto(k) == {a \in Age : a <= k}

\* The members of at most this age.
Count(counts, k) == Cardinality(Members(counts, Upto(k)))

LEMMA AgesTyped ==
    /\ Window \in Nat /\ Window >= 1 /\ MaxLag \in Nat /\ MaxAge \in Nat
    /\ MaxAge = Window + MaxLag + 1 /\ Slack \in Nat /\ Slack >= 1
    /\ KeyTTL = Window + Slack /\ Forever = KeyTTL + 1
    /\ Age = 0..MaxAge /\ IsFiniteSet(Age)
<1>1. /\ Window \in Nat /\ Window >= 1 /\ MaxLag \in Nat /\ Slack \in Nat /\ Slack >= 1
  BY WindowAssumption
<1>2. MaxAge \in Nat /\ MaxAge = Window + MaxLag + 1
  BY <1>1 DEF MaxAge
<1>3. 0 \in Int /\ MaxAge \in Int
  BY <1>2
<1>4. IsFiniteSet(0..MaxAge)
  BY <1>3, FS_Interval
<1> QED
  BY <1>1, <1>2, <1>4 DEF Age, KeyTTL, Forever

LEMMA MemberIs ==
    ASSUME NEW counts, NEW ages, NEW m
    PROVE  m \in Members(counts, ages) <=> \E a \in ages : \E n \in 1..counts[a] : m = <<a, n>>
BY DEF Members

\* There are finitely many members.
LEMMA MembersFinite ==
    ASSUME NEW counts \in Tally, NEW ages \in SUBSET Age
    PROVE  IsFiniteSet(Members(counts, ages)) /\ Cardinality(Members(counts, ages)) \in Nat
<1>1. PICK sets : sets = {{a} \X (1..counts[a]) : a \in ages}
  OBVIOUS
<1>2. IsFiniteSet(ages)
  BY AgesTyped, FS_Subset
<1>3. PICK f : f = [a \in ages |-> {a} \X (1..counts[a])]
  OBVIOUS
<1>4. f \in Surjection(ages, sets)
  BY <1>1, <1>3 DEF Surjection
<1>5. IsFiniteSet(sets)
  BY <1>2, <1>4, FS_Surjection
<1>6. ASSUME NEW s \in sets PROVE IsFiniteSet(s)
  <2>1. PICK a \in ages : s = {a} \X (1..counts[a])
    BY <1>1
  <2>2. counts[a] \in Nat
    BY DEF Tally
  <2>3. IsFiniteSet({a})
    BY FS_Singleton
  <2>4. IsFiniteSet(1..counts[a])
    <3>1. 1 \in Int /\ counts[a] \in Int
      BY <2>2
    <3> QED
      BY <3>1, FS_Interval
  <2> QED
    BY <2>1, <2>3, <2>4, FS_Product
<1>7. IsFiniteSet(UNION sets)
  BY <1>5, <1>6, FS_UNION
<1>8. IsFiniteSet(Members(counts, ages))
  BY <1>1, <1>7 DEF Members
<1> QED
  BY <1>8, FS_CardinalityType

LEMMA CountTyped ==
    ASSUME NEW counts \in Tally, NEW k
    PROVE  Count(counts, k) \in Nat /\ Total(counts) \in Nat
<1>1. Upto(k) \in SUBSET Age /\ Age \in SUBSET Age
  BY DEF Upto
<1> QED
  BY <1>1, MembersFinite DEF Count, Total

\* Fewer members at every age are fewer members.
LEMMA MembersFewer ==
    ASSUME NEW few \in Tally, NEW many \in Tally, NEW ages \in SUBSET Age, NEW more \in SUBSET Age,
           \A a \in ages : few[a] = 0 \/ (a \in more /\ few[a] <= many[a])
    PROVE  Cardinality(Members(few, ages)) <= Cardinality(Members(many, more))
<1>1. PICK S, T : S = Members(few, ages) /\ T = Members(many, more)
  OBVIOUS
<1>2. ASSUME NEW m \in S PROVE m \in T
  <2>1. PICK a, n : a \in ages /\ n \in 1..few[a] /\ m = <<a, n>>
    BY <1>1, MemberIs
  <2>2. few[a] \in Nat /\ few[a] # 0
    BY <2>1 DEF Tally
  <2>3. a \in more /\ few[a] <= many[a]
    BY <2>1, <2>2
  <2>4. many[a] \in Nat
    BY <2>3 DEF Tally
  <2>5. n \in 1..many[a]
    BY <2>1, <2>2, <2>3, <2>4
  <2> QED
    BY <1>1, <2>1, <2>3, <2>5, MemberIs
<1>3. IsFiniteSet(T)
  BY <1>1, MembersFinite
<1>4. S \in SUBSET T
  BY <1>2
<1>5. Cardinality(S) <= Cardinality(T)
  BY <1>3, <1>4, FS_Subset
<1> QED
  BY <1>1, <1>5

LEMMA CountFewer ==
    ASSUME NEW few \in Tally, NEW many \in Tally, NEW k, \A a \in Age : a <= k => few[a] <= many[a]
    PROVE  Count(few, k) <= Count(many, k)
<1>1. Upto(k) \in SUBSET Age
  BY DEF Upto
<1>2. \A a \in Upto(k) : few[a] = 0 \/ (a \in Upto(k) /\ few[a] <= many[a])
  BY DEF Upto
<1> QED
  BY <1>1, <1>2, MembersFewer DEF Count

LEMMA CountSame ==
    ASSUME NEW one \in Tally, NEW other \in Tally, NEW k, \A a \in Age : a <= k => one[a] = other[a]
    PROVE  Count(one, k) = Count(other, k)
<1>1. \A a \in Age : one[a] \in Nat /\ other[a] \in Nat
  BY DEF Tally
<1>2. Count(one, k) <= Count(other, k) /\ Count(other, k) <= Count(one, k)
  BY <1>1, CountFewer
<1>3. Count(one, k) \in Nat /\ Count(other, k) \in Nat
  BY CountTyped
<1> QED
  BY <1>2, <1>3

\* No member is older than the oldest.
LEMMA CountTotal ==
    ASSUME NEW counts \in Tally, NEW k \in Int
    PROVE  /\ Count(counts, k) <= Total(counts)
           /\ (\A a \in Age : a > k => counts[a] = 0) => Total(counts) <= Count(counts, k)
<1>0. \A a \in Age : a \in Int /\ counts[a] \in Nat
  BY AgesTyped DEF Tally
<1>1. Upto(k) \in SUBSET Age /\ Age \in SUBSET Age
  BY DEF Upto
<1>2. \A a \in Upto(k) : counts[a] = 0 \/ (a \in Age /\ counts[a] <= counts[a])
  BY <1>0 DEF Upto
<1>3. Count(counts, k) <= Total(counts)
  BY <1>1, <1>2, MembersFewer DEF Count, Total
<1>4. ASSUME \A a \in Age : a > k => counts[a] = 0
      PROVE  Total(counts) <= Count(counts, k)
  <2>1. \A a \in Age : counts[a] = 0 \/ (a \in Upto(k) /\ counts[a] <= counts[a])
    BY <1>0, <1>4 DEF Upto
  <2> QED
    BY <1>1, <2>1, MembersFewer DEF Count, Total
<1> QED
  BY <1>3, <1>4

\* There is none at no age.
LEMMA CountNone ==
    ASSUME NEW counts \in Tally, NEW k \in Int, \A a \in Age : a <= k => counts[a] = 0
    PROVE  Count(counts, k) = 0
<1>1. Members(counts, Upto(k)) = {}
  BY MemberIs DEF Upto
<1> QED
  BY <1>1, FS_EmptySet DEF Count

\* A member more.
OneMore(counts, more, age) ==
    /\ more \in Tally
    /\ more[age] = counts[age] + 1
    /\ \A a \in Age : a # age => more[a] = counts[a]

LEMMA MoreMembers ==
    ASSUME NEW counts \in Tally, NEW more, NEW age \in Age, NEW ages \in SUBSET Age, age \in ages,
           OneMore(counts, more, age)
    PROVE  Cardinality(Members(more, ages)) = Cardinality(Members(counts, ages)) + 1
<1>1. counts[age] \in Nat /\ more[age] = counts[age] + 1
  BY DEF Tally, OneMore
<1>2. \A a \in ages : a # age => more[a] = counts[a]
  BY DEF OneMore
<1>3. PICK n : n = counts[age] + 1
  OBVIOUS
<1>4. n \in 1..more[age] /\ n \notin 1..counts[age] /\ \A m \in 1..more[age] : m # n => m \in 1..counts[age]
  BY <1>1, <1>3
<1>5. PICK S, T : S = Members(counts, ages) /\ T = Members(more, ages)
  OBVIOUS
<1>6. PICK new : new = <<age, n>>
  OBVIOUS
<1>7. new \notin S
  <2>1. ASSUME NEW a \in ages, NEW m \in 1..counts[a], new = <<a, m>>
        PROVE  FALSE
    <3>1. a = age /\ m = n
      BY <1>6, <2>1
    <3> QED
      BY <1>4, <3>1
  <2> QED
    BY <1>5, <2>1, MemberIs
<1>8. new \in T
  BY <1>4, <1>5, <1>6, MemberIs
<1>9. ASSUME NEW m \in S PROVE m \in T
  <2>1. PICK a, i : a \in ages /\ i \in 1..counts[a] /\ m = <<a, i>>
    BY <1>5, MemberIs
  <2>2. i \in 1..more[a]
    <3>1. CASE a = age
      BY <1>1, <2>1, <3>1
    <3>2. CASE a # age
      BY <1>2, <2>1, <3>2
    <3> QED
      BY <3>1, <3>2
  <2> QED
    BY <1>5, <2>1, <2>2, MemberIs
<1>10. ASSUME NEW m \in T, m # new PROVE m \in S
  <2>1. PICK a, i : a \in ages /\ i \in 1..more[a] /\ m = <<a, i>>
    BY <1>5, MemberIs
  <2>2. i \in 1..counts[a]
    <3>1. CASE a = age
      <4>1. i # n
        BY <1>6, <1>10, <2>1, <3>1
      <4> QED
        BY <1>4, <2>1, <3>1, <4>1
    <3>2. CASE a # age
      BY <1>2, <2>1, <3>2
    <3> QED
      BY <3>1, <3>2
  <2> QED
    BY <1>5, <2>1, <2>2, MemberIs
<1>11. T = S \cup {new}
  BY <1>8, <1>9, <1>10
<1>12. IsFiniteSet(S)
  BY <1>5, MembersFinite
<1>13. Cardinality(T) = Cardinality(S) + 1
  BY <1>7, <1>11, <1>12, FS_AddElement
<1> QED
  BY <1>5, <1>13

LEMMA CountMore ==
    ASSUME NEW counts \in Tally, NEW more, NEW age \in Age, NEW k,
           OneMore(counts, more, age)
    PROVE  Count(more, k) = IF age <= k THEN Count(counts, k) + 1 ELSE Count(counts, k)
<1>1. CASE age <= k
  <2>1. Upto(k) \in SUBSET Age /\ age \in Upto(k)
    BY <1>1 DEF Upto
  <2> QED
    BY <1>1, <2>1, MoreMembers DEF Count
<1>2. CASE ~(age <= k)
  <2>1. more \in Tally
    BY DEF OneMore
  <2>2. \A a \in Age : a <= k => more[a] = counts[a]
    BY <1>2 DEF OneMore
  <2> QED
    BY <1>2, <2>1, <2>2, CountSame
<1> QED
  BY <1>1, <1>2

\* What is older by one was younger by one.
Older(counts, aged, k) ==
    /\ aged \in Tally
    /\ \A a \in Age : a <= k => aged[a] = IF a = 0 THEN 0 ELSE counts[a - 1]

LEMMA CountAged ==
    ASSUME NEW counts \in Tally, NEW aged, NEW k \in Int, k < MaxAge, Older(counts, aged, k)
    PROVE  Count(aged, k) = Count(counts, k - 1)
<1>1. PICK S, T : S = Members(counts, Upto(k - 1)) /\ T = Members(aged, Upto(k))
  OBVIOUS
<1>2. /\ \A a \in Upto(k - 1) : a \in Nat /\ a + 1 \in Upto(k) /\ aged[a + 1] = counts[a]
      /\ \A a \in Upto(k) : aged[a] # 0 => a \in Nat /\ a - 1 \in Upto(k - 1) /\ aged[a] = counts[a - 1]
  <2>1. ASSUME NEW a \in Upto(k - 1)
        PROVE  a \in Nat /\ a + 1 \in Upto(k) /\ aged[a + 1] = counts[a]
    <3>1. a \in Nat /\ a <= k - 1 /\ a + 1 \in Age /\ a + 1 <= k /\ a + 1 # 0 /\ (a + 1) - 1 = a
      BY AgesTyped DEF Upto
    <3>2. PICK b : b = a + 1
      OBVIOUS
    <3>3. aged[b] = counts[b - 1]
      BY <3>1, <3>2 DEF Older
    <3> QED
      BY <3>1, <3>2, <3>3 DEF Upto
  <2>2. ASSUME NEW a \in Upto(k), aged[a] # 0
        PROVE  a \in Nat /\ a - 1 \in Upto(k - 1) /\ aged[a] = counts[a - 1]
    <3>1. a \in Nat /\ a \in Age /\ a <= k
      BY AgesTyped DEF Upto
    <3>2. a # 0 /\ aged[a] = counts[a - 1]
      BY <2>2, <3>1 DEF Older
    <3>3. a - 1 \in Age /\ a - 1 <= k - 1
      BY AgesTyped, <3>1, <3>2
    <3> QED
      BY <3>1, <3>2, <3>3 DEF Upto
  <2> QED
    BY <2>1, <2>2
<1>3. PICK f : f = [m \in S |-> <<m[1] + 1, m[2]>>]
  OBVIOUS
<1>4. f \in Injection(S, T)
  <2>1. ASSUME NEW m \in S PROVE f[m] \in T
    <3>1. PICK a, n : a \in Upto(k - 1) /\ n \in 1..counts[a] /\ m = <<a, n>>
      BY <1>1, MemberIs
    <3>2. PICK b : b = a + 1
      OBVIOUS
    <3>3. b \in Upto(k) /\ n \in 1..aged[b] /\ f[m] = <<b, n>>
      BY <1>2, <1>3, <3>1, <3>2
    <3> QED
      BY <1>1, <3>3, MemberIs
  <2>2. ASSUME NEW m \in S, NEW o \in S, f[m] = f[o] PROVE m = o
    <3>1. PICK a, n : a \in Upto(k - 1) /\ n \in 1..counts[a] /\ m = <<a, n>>
      BY <1>1, MemberIs
    <3>2. PICK b, i : b \in Upto(k - 1) /\ i \in 1..counts[b] /\ o = <<b, i>>
      BY <1>1, MemberIs
    <3>3. PICK c, d : c = a + 1 /\ d = b + 1
      OBVIOUS
    <3>4. f[m] = <<c, n>> /\ f[o] = <<d, i>>
      BY <1>3, <3>1, <3>2, <3>3
    <3>5. c = d /\ n = i
      <4>1. <<c, n>> = <<d, i>>
        BY <2>2, <3>4
      <4> QED
        BY ONLY <4>1
    <3>6. a \in Nat /\ b \in Nat
      BY <1>2, <3>1, <3>2
    <3> QED
      BY <3>1, <3>2, <3>3, <3>5, <3>6
  <2>3. f \in [S -> T]
    BY <1>3, <2>1
  <2> QED
    BY <2>2, <2>3 DEF Injection, IsInjective
<1>5. f \in Surjection(S, T)
  <2>1. ASSUME NEW m \in T PROVE \E o \in S : f[o] = m
    <3>1. PICK a, n : a \in Upto(k) /\ n \in 1..aged[a] /\ m = <<a, n>>
      BY <1>1, MemberIs
    <3>2. aged[a] # 0
      BY <3>1
    <3>3. PICK b : b = a - 1
      OBVIOUS
    <3>4. b \in Upto(k - 1) /\ n \in 1..counts[b] /\ b + 1 = a
      BY <1>2, <3>1, <3>2, <3>3
    <3>5. PICK o : o = <<b, n>>
      OBVIOUS
    <3>6. o \in S
      BY <1>1, <3>4, <3>5, MemberIs
    <3>7. f[o] = m
      BY <1>3, <3>1, <3>4, <3>5, <3>6
    <3> QED
      BY <3>6, <3>7
  <2>2. f \in [S -> T]
    BY <1>4 DEF Injection
  <2> QED
    BY <2>1, <2>2 DEF Surjection
<1>6. IsFiniteSet(T)
  <2>1. aged \in Tally /\ Upto(k) \in SUBSET Age
    BY DEF Older, Upto
  <2> QED
    BY <1>1, <2>1, MembersFinite
<1>7. Cardinality(S) = Cardinality(T)
  BY <1>4, <1>5, <1>6, FS_Injection
<1> QED
  BY <1>1, <1>7 DEF Count

LEMMA NoMembers ==
    ASSUME NEW counts \in Tally
    PROVE  Total(counts) = 0 <=> \A a \in Age : counts[a] = 0
<1>1. PICK S : S = Members(counts, Age)
  OBVIOUS
<1>2. \A a \in Age : counts[a] \in Nat
  BY DEF Tally
<1>3. IsFiniteSet(S) /\ Total(counts) = Cardinality(S)
  BY <1>1, MembersFinite DEF Total
<1>4. Total(counts) = 0 <=> S = {}
  BY <1>3, FS_EmptySet
<1>5. ASSUME \A a \in Age : counts[a] = 0 PROVE S = {}
  BY <1>1, <1>5, MemberIs
<1>6. ASSUME NEW a \in Age, counts[a] # 0 PROVE S # {}
  <2>1. PICK n : n = 1
    OBVIOUS
  <2>2. n \in 1..counts[a]
    BY <1>2, <1>6, <2>1
  <2>3. <<a, n>> \in S
    BY <1>1, <2>2, MemberIs
  <2> QED
    BY <2>3
<1> QED
  BY <1>4, <1>5, <1>6

-----------------------------------------------------------------------------
(* The commands                                                             *)

Lag == 0..MaxLag
Lifetime == 1..Forever
Key(counts, lifetime) ==
    /\ counts \in Tally
    /\ lifetime \in Lifetime
    /\ Total(counts) = 0 => lifetime = Forever

Wait == [next : {"trim", "count", "add", "expire"}, lag : Lag, limit : Limit]

LEMMA LagsTyped ==
    /\ \A lag \in Lag : lag \in Age /\ lag \in Nat
    /\ KeyTTL \in Lifetime /\ Forever \in Lifetime
BY AgesTyped DEF Lag, Lifetime

\* A trimmed set keeps the window and what the request is too old to trim.
LEMMA TrimmedKey ==
    ASSUME NEW counts, NEW lifetime, Key(counts, lifetime), NEW lag \in Lag,
           NEW kept, kept = Kept(counts, lag), NEW left, left = TtlOf(kept, lifetime)
    PROVE  /\ Key(kept, left)
           /\ \A a \in Age : kept[a] <= counts[a]
           /\ \A a \in Age : a <= Window => kept[a] = counts[a]
           /\ \A a \in Age : a > Window + lag => kept[a] = 0
           /\ left = lifetime \/ left = Forever
<1>1. \A a \in Age : a \in Int /\ counts[a] \in Nat
  BY AgesTyped DEF Key, Tally
<1>2. lag \in Nat /\ Window \in Nat
  BY AgesTyped, LagsTyped
<1>3. kept \in Tally /\ \A a \in Age : kept[a] = IF a - lag <= Window THEN counts[a] ELSE 0
  BY <1>1 DEF Kept, Tally
<1>4. Key(kept, left)
  BY <1>3, LagsTyped DEF Key, TtlOf
<1>5. left = lifetime \/ left = Forever
  BY DEF TtlOf
<1> QED
  BY <1>1, <1>2, <1>3, <1>4, <1>5

LEMMA AddedKey ==
    ASSUME NEW counts, NEW lifetime, Key(counts, lifetime), NEW lag \in Lag,
           NEW more, more = [counts EXCEPT ![lag] = @ + 1]
    PROVE  Key(more, lifetime) /\ OneMore(counts, more, lag)
<1>1. lag \in Age /\ counts \in Tally
  BY LagsTyped DEF Key
<1>2. OneMore(counts, more, lag)
  BY <1>1 DEF OneMore, Tally
<1>3. more[lag] # 0
  BY <1>1, <1>2 DEF OneMore, Tally
<1>4. Total(more) # 0
  BY <1>1, <1>2, <1>3, NoMembers DEF OneMore
<1> QED
  BY <1>2, <1>4 DEF Key, OneMore

LEMMA RenewedKey ==
    ASSUME NEW counts \in Tally, NEW left, left = TtlOf(counts, KeyTTL)
    PROVE  Key(counts, left) /\ (left = KeyTTL \/ left = Forever)
BY LagsTyped DEF Key, TtlOf

LEMMA AgedIs ==
    ASSUME NEW counts \in Tally, NEW aged, aged = Aged(counts)
    PROVE  /\ aged \in Tally
           /\ aged[0] = 0
           /\ aged[MaxAge] = counts[MaxAge - 1] + counts[MaxAge]
           /\ \A a \in Age : a # 0 /\ a # MaxAge => aged[a] = counts[a - 1]
<1>1. \A a \in Age : a \in Nat /\ counts[a] \in Nat /\ (a # 0 => a - 1 \in Age)
  BY AgesTyped DEF Tally
<1>2. 0 \in Age /\ MaxAge \in Age /\ MaxAge # 0
  BY AgesTyped
<1>3. ASSUME NEW a \in Age
      PROVE  aged[a] = CASE a = 0      -> 0
                         [] a = MaxAge -> counts[a - 1] + counts[a]
                         [] OTHER      -> counts[a - 1]
  BY DEF Aged
<1>4. aged = [a \in Age |-> aged[a]]
  BY DEF Aged
<1>5. ASSUME NEW a \in Age PROVE aged[a] \in Nat
  <2>1. CASE a = 0
    BY <1>2, <1>3, <2>1
  <2>2. CASE a = MaxAge
    <3>1. a # 0 /\ aged[a] = counts[a - 1] + counts[a]
      BY <1>2, <1>3, <2>2
    <3> QED
      BY <1>1, <3>1
  <2>3. CASE a # 0 /\ a # MaxAge
    <3>1. aged[a] = counts[a - 1]
      BY <1>3, <2>3
    <3> QED
      BY <1>1, <2>3, <3>1
  <2> QED
    BY <2>1, <2>2, <2>3
<1>6. aged \in Tally
  BY <1>4, <1>5 DEF Tally
<1> QED
  BY <1>2, <1>3, <1>6

\* With its lifetime a key loses all members, before it none.
LEMMA AgedKey ==
    ASSUME NEW counts, NEW lifetime, Key(counts, lifetime), NEW aged, NEW left,
           aged = IF lifetime = 1 THEN NoOne ELSE Aged(counts),
           left = IF lifetime = 1 \/ lifetime = Forever THEN Forever ELSE lifetime - 1
    PROVE  Key(aged, left)
<1>1. lifetime \in 1..Forever /\ Forever \in Nat /\ Forever >= 2 /\ counts \in Tally
  BY AgesTyped DEF Key, Lifetime
<1>2. CASE lifetime = 1
  BY <1>1, <1>2 DEF Key, NoOne, Tally, Lifetime
<1>3. CASE lifetime # 1
  <2>1. left \in 1..Forever
    BY <1>1, <1>3
  <2>2. aged = Aged(counts)
    BY <1>3
  <2>3. aged \in Tally
    BY <1>1, <2>2, AgedIs
  <2>4. ASSUME Total(aged) = 0 PROVE left = Forever
    <3>1. \A a \in Age : aged[a] = 0
      BY <2>3, <2>4, NoMembers
    <3>2. ASSUME NEW a \in Age PROVE counts[a] = 0
      <4>1. counts[a] \in Nat /\ a \in Nat /\ counts[MaxAge] \in Nat /\ counts[MaxAge - 1] \in Nat /\ a <= MaxAge /\ MaxAge \in Nat
        BY <1>1, AgesTyped DEF Tally
      <4>2. CASE a = MaxAge \/ a = MaxAge - 1
        <5>1. counts[MaxAge - 1] + counts[MaxAge] = 0
          BY <1>1, <2>2, <3>1, AgedIs, AgesTyped
        <5> QED
          BY <4>1, <4>2, <5>1
      <4>3. CASE a < MaxAge - 1
        <5>1. PICK b : b = a + 1
          OBVIOUS
        <5>2. b \in Age /\ b # 0 /\ b # MaxAge /\ b - 1 = a
          BY <4>1, <4>3, <5>1, AgesTyped
        <5> QED
          BY <1>1, <2>2, <3>1, <5>2, AgedIs
      <4> QED
        BY <4>1, <4>2, <4>3
    <3>3. Total(counts) = 0
      BY <1>1, <3>2, NoMembers
    <3> QED
      BY <1>3, <3>3 DEF Key
  <2> QED
    BY <2>1, <2>3, <2>4 DEF Key, Lifetime
<1> QED
  BY <1>2, <1>3

-----------------------------------------------------------------------------
(* Types                                                                    *)

Requests == [Request -> Wait \cup {Idle}]

LimiterTyped ==
    /\ Key(members, ttl)
    /\ request \in Requests
    /\ arrivals \in Tally
    /\ faults \in 0..MaxFaults

LEMMA RequestsTyped ==
    TypeOK <=> /\ Key(members, ttl)
               /\ request \in Requests
               /\ arrivals \in Tally
               /\ faults \in 0..MaxFaults
BY DEF TypeOK, Key, Lifetime, Tally, Requests, Wait, Lag

\* A request with a next command has read its clock.
LEMMA Waiting ==
    ASSUME request \in Requests, NEW r \in Request, request[r] # Idle
    PROVE  request[r] \in Wait /\ request[r].lag \in Lag /\ request[r].limit \in Limit
BY DEF Requests, Wait

LEMMA Idles ==
    ASSUME request \in Requests, NEW r \in Request, request[r].next # "none"
    PROVE  request[r] # Idle
BY DEF Idle

\* What an action of one request does to the requests.
Moves(r, next) ==
    /\ request'[r].next = next
    /\ request' \in Requests
    /\ \A q \in Request : q # r => request'[q] = request[q]

LEMMA GoesMoves ==
    ASSUME request \in Requests, NEW r \in Request, request[r] # Idle,
           NEW next \in {"count", "add", "expire"}, Goes(r, next)
    PROVE  Moves(r, next) /\ request'[r].lag = request[r].lag /\ request'[r].limit = request[r].limit
<1>1. request[r] \in Wait
  BY Waiting
<1>2. [request[r] EXCEPT !.next = next] \in Wait
  BY <1>1 DEF Wait
<1>3. request'[r] = [request[r] EXCEPT !.next = next] /\ \A q \in Request : q # r => request'[q] = request[q]
  BY DEF Goes, Requests
<1>4. request' \in Requests
  BY <1>2 DEF Goes, Requests
<1>5. request'[r].next = next /\ request'[r].lag = request[r].lag /\ request'[r].limit = request[r].limit
  BY <1>1, <1>3 DEF Wait
<1> QED
  BY <1>3, <1>4, <1>5 DEF Moves

LEMMA EndsMoves ==
    ASSUME request \in Requests, NEW r \in Request, Ends(r)
    PROVE  Moves(r, "none")
BY DEF Ends, Moves, Requests, Idle

LEMMA ArriveMoves ==
    ASSUME request \in Requests, NEW r \in Request, NEW limit \in Limit, Arrive(r, limit)
    PROVE  Moves(r, "trim") /\ UNCHANGED <<members, ttl, arrivals, faults>>
<1>1. PICK new : new = [next |-> "trim", lag |-> 0, limit |-> limit]
  OBVIOUS
<1>2. new \in Wait /\ new.next = "trim"
  BY <1>1, AgesTyped DEF Wait, Lag
<1>3. request' = [request EXCEPT ![r] = new]
  BY <1>1 DEF Arrive
<1> QED
  BY <1>2, <1>3 DEF Moves, Requests, Arrive

\* When time passes every waiting request ages.
LEMMA TickMoves ==
    ASSUME request \in Requests, Tick
    PROVE  /\ request' \in Requests
           /\ \A r \in Request : request'[r].next = request[r].next
           /\ \A r \in Request : request[r] # Idle => request'[r].lag = request[r].lag + 1
<1>1. ASSUME NEW r \in Request, request[r] # Idle
      PROVE  /\ request'[r] = [request[r] EXCEPT !.lag = @ + 1] /\ request'[r] \in Wait
             /\ request'[r].next = request[r].next /\ request'[r].lag = request[r].lag + 1
  <2>1. request[r] \in Wait /\ request[r].lag \in 0..MaxLag /\ request[r].lag < MaxLag /\ MaxLag \in Nat
    BY <1>1, Waiting, AgesTyped DEF Tick, Lag
  <2>2. request'[r] = [request[r] EXCEPT !.lag = @ + 1]
    BY <1>1 DEF Tick
  <2>3. request[r].lag + 1 \in Lag
    BY <2>1 DEF Lag
  <2> QED
    BY <2>1, <2>2, <2>3 DEF Wait
<1>2. ASSUME NEW r \in Request, request[r] = Idle
      PROVE  request'[r] = Idle
  BY <1>2 DEF Tick
<1>3. request' = [r \in Request |-> request'[r]]
  BY DEF Tick
<1>4. request' \in Requests
  BY <1>1, <1>2, <1>3 DEF Requests
<1> QED
  BY <1>1, <1>2, <1>4

\* What the commands of a request do to the set, executed.
LEMMA TrimIs ==
    ASSUME TypeOK, NEW r \in Request, request[r] # Idle, Trim(r)
    PROVE  /\ Key(members, ttl)'
           /\ \A a \in Age : members'[a] <= members[a]
           /\ \A a \in Age : a <= Window => members'[a] = members[a]
           /\ \A a \in Age : a > Window + request[r].lag => members'[a] = 0
           /\ ttl' = ttl \/ ttl' = Forever
<1>1. Key(members, ttl) /\ request[r].lag \in Lag
  BY RequestsTyped, Waiting
<1>2. members' = Kept(members, request[r].lag) /\ ttl' = TtlOf(members', ttl)
  BY DEF Trim
<1> QED
  BY <1>1, <1>2, TrimmedKey

LEMMA AddIs ==
    ASSUME TypeOK, NEW r \in Request, request[r] # Idle, Add(r)
    PROVE  Key(members, ttl)' /\ OneMore(members, members', request[r].lag) /\ ttl' = ttl
<1>1. Key(members, ttl) /\ request[r].lag \in Lag
  BY RequestsTyped, Waiting
<1>2. members' = [members EXCEPT ![request[r].lag] = @ + 1] /\ ttl' = ttl
  BY DEF Add
<1> QED
  BY <1>1, <1>2, AddedKey

LEMMA ExpireIs ==
    ASSUME TypeOK, NEW r \in Request, Expire(r), UNCHANGED members
    PROVE  Key(members, ttl)' /\ (ttl' = KeyTTL \/ ttl' = Forever)
<1>1. members \in Tally
  BY RequestsTyped DEF Key
<1> QED
  BY <1>1, RenewedKey DEF Expire

LEMMA AdmitIs ==
    ASSUME TypeOK, NEW r \in Request, request[r] # Idle, Admit(r)
    PROVE  OneMore(arrivals, arrivals', request[r].lag) /\ arrivals' \in Tally
<1>1. arrivals \in Tally /\ request[r].lag \in Age
  BY RequestsTyped, Waiting, LagsTyped
<1> QED
  BY <1>1 DEF Admit, OneMore, Tally

LEMMA TickIs ==
    ASSUME TypeOK, Tick
    PROVE  /\ Key(members, ttl)' /\ arrivals' \in Tally
           /\ \A k \in Int : k < MaxAge => Older(arrivals, arrivals', k)
           /\ ttl # 1 => \A k \in Int : k < MaxAge => Older(members, members', k)
           /\ ttl = 1 => members' = NoOne
           /\ ttl' = IF ttl = 1 \/ ttl = Forever THEN Forever ELSE ttl - 1
<1>1. Key(members, ttl) /\ arrivals \in Tally
  BY RequestsTyped
<1>2. /\ members' = IF ttl = 1 THEN NoOne ELSE Aged(members)
      /\ ttl' = IF ttl = 1 \/ ttl = Forever THEN Forever ELSE ttl - 1
      /\ arrivals' = [Aged(arrivals) EXCEPT ![MaxAge] = 0]
  BY DEF Tick
<1>3. Key(members, ttl)'
  BY <1>1, <1>2, AgedKey
<1>4. PICK old : old = Aged(arrivals)
  OBVIOUS
<1>5. /\ old \in Tally /\ old[0] = 0
      /\ \A a \in Age : a # 0 /\ a # MaxAge => old[a] = arrivals[a - 1]
  BY <1>1, <1>4, AgedIs
<1>6. arrivals' \in Tally /\ \A a \in Age : a # MaxAge => arrivals'[a] = old[a]
  <2>1. arrivals' = [old EXCEPT ![MaxAge] = 0]
    BY <1>2, <1>4
  <2> QED
    BY <1>5, <2>1 DEF Tally
<1>7. \A k \in Int : k < MaxAge => Older(arrivals, arrivals', k)
  BY <1>5, <1>6, AgesTyped DEF Older
<1>8. ASSUME ttl # 1, NEW k \in Int, k < MaxAge PROVE Older(members, members', k)
  <2>1. members' = Aged(members) /\ members \in Tally
    BY <1>1, <1>2, <1>8 DEF Key
  <2>2. members' \in Tally /\ members'[0] = 0 /\ \A a \in Age : a # 0 /\ a # MaxAge => members'[a] = members[a - 1]
    BY <2>1, AgedIs
  <2> QED
    BY <1>8, <2>2, AgesTyped DEF Older
<1> QED
  BY <1>2, <1>3, <1>6, <1>7, <1>8

\* What one request does, each command executed or not when it fails.
LEMMA TrimsIs ==
    ASSUME TypeOK, NEW r \in Request, Trims(r)
    PROVE  /\ request[r] # Idle /\ request[r].next = "trim" /\ Trim(r)
           /\ Moves(r, "count") /\ request'[r].lag = request[r].lag
           /\ UNCHANGED <<arrivals, faults>>
<1>1. request[r].next = "trim" /\ request \in Requests
  BY RequestsTyped DEF Trims
<1>2. request[r] # Idle
  BY <1>1, Idles
<1> QED
  BY <1>1, <1>2, GoesMoves DEF Trims

LEMMA CountsIs ==
    ASSUME TypeOK, NEW r \in Request, Counts(r)
    PROVE  /\ request[r] # Idle /\ request[r].next = "count" /\ Total(members) < request[r].limit
           /\ Moves(r, "add") /\ UNCHANGED <<members, ttl, arrivals, faults>>
<1>1. request[r].next = "count" /\ request \in Requests
  BY RequestsTyped DEF Counts
<1>2. request[r] # Idle
  BY <1>1, Idles
<1> QED
  BY <1>1, <1>2, GoesMoves DEF Counts

LEMMA DeniesIs ==
    ASSUME TypeOK, NEW r \in Request, Denies(r)
    PROVE  /\ request[r] # Idle /\ request[r].next = "count"
           /\ Moves(r, "none") /\ UNCHANGED <<members, ttl, arrivals, faults>>
<1>1. request[r].next = "count" /\ request \in Requests
  BY RequestsTyped DEF Denies
<1>2. request[r] # Idle
  BY <1>1, Idles
<1> QED
  BY <1>1, <1>2, EndsMoves DEF Denies

LEMMA AddsIs ==
    ASSUME TypeOK, NEW r \in Request, Adds(r)
    PROVE  /\ request[r] # Idle /\ request[r].next = "add" /\ Add(r) /\ Admit(r)
           /\ Moves(r, "expire") /\ UNCHANGED faults
<1>1. request[r].next = "add" /\ request \in Requests
  BY RequestsTyped DEF Adds
<1>2. request[r] # Idle
  BY <1>1, Idles
<1> QED
  BY <1>1, <1>2, GoesMoves DEF Adds

LEMMA ExpiresIs ==
    ASSUME TypeOK, NEW r \in Request, Expires(r)
    PROVE  /\ request[r] # Idle /\ request[r].next = "expire" /\ Expire(r)
           /\ Moves(r, "none") /\ UNCHANGED <<members, arrivals, faults>>
<1>1. request[r].next = "expire" /\ request \in Requests
  BY RequestsTyped DEF Expires
<1>2. request[r] # Idle
  BY <1>1, Idles
<1> QED
  BY <1>1, <1>2, EndsMoves DEF Expires

LEMMA FailsIs ==
    ASSUME TypeOK, NEW r \in Request, Fails(r)
    PROVE  /\ request[r] # Idle /\ Moves(r, "none")
           /\ \/ UNCHANGED <<members, ttl>>
              \/ request[r].next = "trim" /\ Trim(r)
              \/ request[r].next = "add" /\ Add(r)
              \/ request[r].next = "expire" /\ Expire(r) /\ UNCHANGED members
           /\ IF request[r].next = "expire" THEN UNCHANGED arrivals ELSE Admit(r)
           /\ faults \in Nat /\ faults' = faults + 1 /\ faults' \in 0..MaxFaults
<1>1. request \in Requests /\ faults \in 0..MaxFaults /\ faults < MaxFaults /\ MaxFaults \in Nat
  BY RequestsTyped, WindowAssumption DEF Fails
<1>2. faults \in Nat /\ faults' = faults + 1 /\ faults' \in 0..MaxFaults
  BY <1>1 DEF Fails
<1>3. Moves(r, "none")
  BY <1>1, EndsMoves DEF Fails
<1> QED
  BY <1>2, <1>3 DEF Fails

LEMMA InitTyped ==
    ASSUME Init
    PROVE  TypeOK
<1>1. NoOne \in Tally /\ \A a \in Age : NoOne[a] = 0
  BY DEF NoOne, Tally
<1>2. Key(members, ttl)
  BY <1>1, LagsTyped DEF Init, Key
<1>3. request \in Requests /\ arrivals \in Tally /\ faults \in 0..MaxFaults
  BY <1>1, WindowAssumption DEF Init, Requests
<1> QED
  BY <1>2, <1>3, RequestsTyped

\* TypeOK holds of every reachable state: commands that interleave in any order
\* keep the set, its lifetime and the requests well formed, and a set without
\* members has no lifetime.
THEOREM LimiterTypeCorrect == Spec => []TypeOK
<1>1. Init => TypeOK
  BY InitTyped
<1>2. TypeOK /\ [Next]_vars => TypeOK'
  <2> SUFFICES ASSUME TypeOK, [Next]_vars PROVE TypeOK'
    OBVIOUS
  <2>1. Key(members, ttl) /\ request \in Requests /\ arrivals \in Tally /\ faults \in 0..MaxFaults
    BY RequestsTyped
  <2>2. SUFFICES LimiterTyped'
    BY DEF LimiterTyped, TypeOK, Key, Lifetime, Tally, Requests, Wait, Lag
  <2>3. ASSUME NEW r \in Request, Trims(r) PROVE LimiterTyped'
    BY <2>1, <2>3, TrimsIs, TrimIs DEF LimiterTyped, Moves
  <2>4. ASSUME NEW r \in Request, Counts(r) PROVE LimiterTyped'
    BY <2>1, <2>4, CountsIs DEF LimiterTyped, Moves, Key
  <2>5. ASSUME NEW r \in Request, Denies(r) PROVE LimiterTyped'
    BY <2>1, <2>5, DeniesIs DEF LimiterTyped, Moves, Key
  <2>6. ASSUME NEW r \in Request, Adds(r) PROVE LimiterTyped'
    BY <2>1, <2>6, AddsIs, AddIs, AdmitIs DEF LimiterTyped, Moves
  <2>7. ASSUME NEW r \in Request, Expires(r) PROVE LimiterTyped'
    BY <2>1, <2>7, ExpiresIs, ExpireIs DEF LimiterTyped, Moves
  <2>8. ASSUME NEW r \in Request, Fails(r) PROVE LimiterTyped'
    <3>1. Key(members, ttl)'
      <4>1. CASE UNCHANGED <<members, ttl>>
        BY <2>1, <4>1 DEF Key
      <4>2. CASE Trim(r)
        BY <2>8, <4>2, FailsIs, TrimIs
      <4>3. CASE Add(r)
        BY <2>8, <4>3, FailsIs, AddIs
      <4>4. CASE Expire(r) /\ UNCHANGED members
        BY <4>4, ExpireIs
      <4> QED
        BY <2>8, <4>1, <4>2, <4>3, <4>4, FailsIs
    <3>2. arrivals' \in Tally
      BY <2>1, <2>8, FailsIs, AdmitIs
    <3> QED
      BY <2>8, <3>1, <3>2, FailsIs DEF LimiterTyped, Moves
  <2>9. ASSUME NEW r \in Request, NEW limit \in Limit, Arrive(r, limit) PROVE LimiterTyped'
    BY <2>1, <2>9, ArriveMoves DEF LimiterTyped, Moves, Key
  <2>10. ASSUME Tick PROVE LimiterTyped'
    <3>1. UNCHANGED faults
      BY <2>10 DEF Tick
    <3> QED
      BY <2>1, <2>10, <3>1, TickMoves, TickIs DEF LimiterTyped
  <2>11. CASE UNCHANGED vars
    BY <2>1, <2>11 DEF LimiterTyped, vars, Key
  <2> QED
    BY <2>3, <2>4, <2>5, <2>6, <2>7, <2>8, <2>9, <2>10, <2>11 DEF Next, Step
<1> QED
  BY <1>1, <1>2, PTL DEF Spec

-----------------------------------------------------------------------------
(* The overshoot                                                            *)

On(requests, next)   == {r \in Request : requests[r].next = next}
Size(requests, next) == Cardinality(On(requests, next))

LEMMA SizeTyped ==
    ASSUME NEW requests, NEW next
    PROVE  /\ IsFiniteSet(On(requests, next)) /\ Size(requests, next) \in Nat
           /\ Size(requests, next) <= Cardinality(Request) /\ Cardinality(Request) \in Nat
<1>1. IsFiniteSet(Request)
  BY WindowAssumption
<1>2. On(requests, next) \in SUBSET Request
  BY DEF On
<1> QED
  BY <1>1, <1>2, FS_Subset, FS_CardinalityType DEF Size

\* One request comes, goes or stays.
Others(requests, new, r) == \A q \in Request : q # r => new[q] = requests[q]

LEMMA SizeLess ==
    ASSUME NEW requests, NEW new, NEW r \in Request, NEW next, Others(requests, new, r),
           requests[r].next = next, new[r].next # next
    PROVE  Size(new, next) = Size(requests, next) - 1
<1>1. PICK S, T : S = On(requests, next) /\ T = On(new, next)
  OBVIOUS
<1>2. T = S \ {r} /\ r \in S
  BY <1>1 DEF On, Others
<1>3. IsFiniteSet(S)
  BY <1>1, SizeTyped
<1>4. Cardinality(T) = Cardinality(S) - 1
  BY <1>2, <1>3, FS_RemoveElement
<1> QED
  BY <1>1, <1>4 DEF Size

LEMMA SizeMore ==
    ASSUME NEW requests, NEW new, NEW r \in Request, NEW next, Others(requests, new, r),
           requests[r].next # next, new[r].next = next
    PROVE  Size(new, next) = Size(requests, next) + 1
<1>1. PICK S, T : S = On(requests, next) /\ T = On(new, next)
  OBVIOUS
<1>2. T = S \cup {r} /\ r \notin S
  BY <1>1 DEF On, Others
<1>3. IsFiniteSet(S)
  BY <1>1, SizeTyped
<1>4. Cardinality(T) = Cardinality(S) + 1
  BY <1>2, <1>3, FS_AddElement
<1> QED
  BY <1>1, <1>4 DEF Size

LEMMA SizeSame ==
    ASSUME NEW requests, NEW new, NEW r \in Request, NEW next, Others(requests, new, r),
           requests[r].next # next, new[r].next # next
    PROVE  Size(new, next) = Size(requests, next)
<1>1. On(new, next) = On(requests, next)
  BY DEF On, Others
<1> QED
  BY <1>1 DEF Size

\* Each request that another one overtakes between its count and its add was
\* counted below its limit.
Race ==
    \E limit \in Limit :
        Count(members, Window) + Size(request, "add") <= limit - 1 + Cardinality(Request)

\* Of the requests admitted since any time of the window the set misses those
\* that an expiring key took along, and those whose command failed.
Lost ==
    \A k \in Int : k <= Window =>
        Count(arrivals, k) <= Count(members, k) + Cardinality(Request) + faults

\* A request that arrived after the key was renewed has not renewed it yet, or
\* failed to.
Young ==
    ttl # Forever =>
        \A k \in Int : k <= Window /\ k < KeyTTL - ttl =>
            Count(arrivals, k) <= Size(request, "expire") + faults

RateInv == TypeOK /\ Race /\ Lost /\ Young

LEMMA CountedTyped ==
    ASSUME TypeOK, NEW k
    PROVE  /\ Count(members, k) \in Nat /\ Count(arrivals, k) \in Nat
           /\ Cardinality(Request) \in Nat /\ faults \in Nat
<1>1. members \in Tally /\ arrivals \in Tally /\ faults \in 0..MaxFaults
  BY RequestsTyped DEF Key
<1>2. MaxFaults \in Nat
  BY WindowAssumption
<1> QED
  BY <1>1, <1>2, CountTyped, SizeTyped

\* The window holds no more, or one more for a request that leaves its add.
LEMMA RaceKept ==
    ASSUME TypeOK, TypeOK', Race,
           Count(members', Window) + Size(request', "add") <= Count(members, Window) + Size(request, "add")
    PROVE  Race'
<1>1. PICK limit \in Limit :
          Count(members, Window) + Size(request, "add") <= limit - 1 + Cardinality(Request)
  BY DEF Race
<1>2. /\ Count(members, Window) \in Nat /\ Count(members', Window) \in Nat /\ limit \in Nat
      /\ Size(request, "add") \in Nat /\ Size(request', "add") \in Nat /\ Cardinality(Request) \in Nat
  <2>1. members \in Tally /\ members' \in Tally
    BY RequestsTyped DEF TypeOK, Tally
  <2> QED
    BY <2>1, CountTyped, SizeTyped, WindowAssumption
<1>3. Count(members', Window) + Size(request', "add") <= limit - 1 + Cardinality(Request)
  BY <1>1, <1>2
<1> QED
  BY <1>3 DEF Race

LEMMA LostKept ==
    ASSUME TypeOK, TypeOK', Lost,
           \A k \in Int : k <= Window =>
               Count(arrivals', k) + Count(members, k) + faults <= Count(arrivals, k) + Count(members', k) + faults'
    PROVE  Lost'
<1>1. ASSUME NEW k \in Int, k <= Window
      PROVE  Count(arrivals', k) <= Count(members', k) + Cardinality(Request) + faults'
  <2>1. Count(arrivals, k) <= Count(members, k) + Cardinality(Request) + faults
    BY <1>1 DEF Lost
  <2>2. /\ Count(members, k) \in Nat /\ Count(arrivals, k) \in Nat
        /\ Cardinality(Request) \in Nat /\ faults \in Nat
    BY CountedTyped
  <2>3. Count(members', k) \in Nat /\ Count(arrivals', k) \in Nat /\ faults' \in Nat
    <3>1. members' \in Tally /\ arrivals' \in Tally /\ faults' \in 0..MaxFaults /\ MaxFaults \in Nat
      BY WindowAssumption DEF TypeOK, Tally
    <3> QED
      BY <3>1, CountTyped
  <2> QED
    BY <1>1, <2>1, <2>2, <2>3
<1> QED
  BY <1>1 DEF Lost

LEMMA YoungKept ==
    ASSUME TypeOK, TypeOK', Young,
           ttl' = ttl \/ ttl' = Forever,
           \A k \in Int : k <= Window =>
               Count(arrivals', k) + Size(request, "expire") + faults
                   <= Count(arrivals, k) + Size(request', "expire") + faults'
    PROVE  Young'
<1>1. ASSUME ttl' # Forever, NEW k \in Int, k <= Window, k < KeyTTL - ttl'
      PROVE  Count(arrivals', k) <= Size(request', "expire") + faults'
  <2>1. Count(arrivals, k) <= Size(request, "expire") + faults
    BY <1>1 DEF Young
  <2>2. Count(arrivals, k) \in Nat /\ faults \in Nat
    BY CountedTyped
  <2>3. Count(arrivals', k) \in Nat /\ faults' \in Nat
    <3>1. arrivals' \in Tally /\ faults' \in 0..MaxFaults /\ MaxFaults \in Nat
      BY WindowAssumption DEF TypeOK, Tally
    <3> QED
      BY <3>1, CountTyped
  <2>4. Size(request, "expire") \in Nat /\ Size(request', "expire") \in Nat
    BY SizeTyped
  <2> QED
    BY <1>1, <2>1, <2>2, <2>3, <2>4
<1> QED
  BY <1>1 DEF Young

\* Nothing arrived since now.
LEMMA YoungRenewed ==
    ASSUME TypeOK', ttl' = KeyTTL \/ ttl' = Forever
    PROVE  Young'
<1>1. ASSUME ttl' # Forever, NEW k \in Int, k <= Window, k < KeyTTL - ttl'
      PROVE  Count(arrivals', k) <= Size(request', "expire") + faults'
  <2>1. k < 0
    BY <1>1, AgesTyped
  <2>2. arrivals' \in Tally /\ \A a \in Age : ~(a <= k)
    BY <2>1, AgesTyped DEF TypeOK, Tally
  <2>3. Count(arrivals', k) = 0
    BY <2>2, CountNone
  <2>4. faults' \in Nat
    BY WindowAssumption DEF TypeOK
  <2> QED
    BY <2>3, <2>4, SizeTyped
<1> QED
  BY <1>1 DEF Young

\* The counts after the commands.
LEMMA TrimCounts ==
    ASSUME TypeOK, TypeOK', NEW r \in Request, request[r] # Idle, Trim(r), NEW k \in Int, k <= Window
    PROVE  Count(members', k) = Count(members, k)
<1>1. members \in Tally /\ members' \in Tally
  BY DEF TypeOK, Tally
<1>2. \A a \in Age : a <= Window => members'[a] = members[a]
  BY TrimIs
<1>3. \A a \in Age : a <= k => members'[a] = members[a]
  BY <1>2, AgesTyped
<1> QED
  BY <1>1, <1>3, CountSame

LEMMA AddCounts ==
    ASSUME TypeOK, NEW r \in Request, request[r] # Idle, Add(r), NEW k \in Int
    PROVE  Count(members', k) = IF request[r].lag <= k THEN Count(members, k) + 1 ELSE Count(members, k)
<1>1. members \in Tally /\ OneMore(members, members', request[r].lag)
  BY AddIs DEF TypeOK, Tally
<1>2. request[r].lag \in Age
  BY RequestsTyped, Waiting, LagsTyped
<1> QED
  BY <1>1, <1>2, CountMore

LEMMA AdmitCounts ==
    ASSUME TypeOK, NEW r \in Request, request[r] # Idle, Admit(r), NEW k \in Int
    PROVE  Count(arrivals', k) = IF request[r].lag <= k THEN Count(arrivals, k) + 1 ELSE Count(arrivals, k)
<1>1. arrivals \in Tally /\ OneMore(arrivals, arrivals', request[r].lag)
  BY AdmitIs DEF TypeOK, Tally
<1>2. request[r].lag \in Age
  BY RequestsTyped, Waiting, LagsTyped
<1> QED
  BY <1>1, <1>2, CountMore

\* The parts are kept by an action that adds and admits nobody.
LEMMA QuietKeeps ==
    ASSUME TypeOK, TypeOK', Race, Lost, Young, UNCHANGED <<arrivals, faults>>,
           \A k \in Int : k <= Window => Count(members', k) = Count(members, k),
           Size(request', "add") <= Size(request, "add"),
           \/ ttl' = KeyTTL \/ ttl' = Forever
           \/ ttl' = ttl /\ Size(request, "expire") <= Size(request', "expire")
    PROVE  Race' /\ Lost' /\ Young'
<1>1. /\ \A k \in Int : Count(members, k) \in Nat /\ Count(arrivals, k) \in Nat /\ Count(arrivals', k) = Count(arrivals, k)
      /\ faults \in Nat /\ faults' = faults
      /\ Size(request, "add") \in Nat /\ Size(request', "add") \in Nat
      /\ Size(request, "expire") \in Nat /\ Size(request', "expire") \in Nat
  BY CountedTyped, SizeTyped
<1>2. Window \in Int /\ Count(members', Window) = Count(members, Window)
  BY AgesTyped
<1>3. Count(members', Window) + Size(request', "add") <= Count(members, Window) + Size(request, "add")
  BY <1>1, <1>2
<1>4. Race'
  BY <1>3, RaceKept
<1>5. \A k \in Int : k <= Window =>
          Count(arrivals', k) + Count(members, k) + faults <= Count(arrivals, k) + Count(members', k) + faults'
  BY <1>1
<1>6. Lost'
  BY <1>5, LostKept
<1>7. ASSUME ttl' = KeyTTL \/ ttl' = Forever PROVE Young'
  BY <1>7, YoungRenewed
<1>8. ASSUME ttl' = ttl, Size(request, "expire") <= Size(request', "expire") PROVE Young'
  <2>1. \A k \in Int : k <= Window =>
            Count(arrivals', k) + Size(request, "expire") + faults
                <= Count(arrivals, k) + Size(request', "expire") + faults'
    BY <1>1, <1>8
  <2> QED
    BY <1>8, <2>1, YoungKept
<1> QED
  BY <1>4, <1>6, <1>7, <1>8

LEMMA AddsKeeps ==
    ASSUME TypeOK, TypeOK', Race, Lost, Young, NEW r \in Request, Adds(r)
    PROVE  Race' /\ Lost' /\ Young'
<1>1. request[r] # Idle /\ request[r].next = "add" /\ Add(r) /\ Admit(r) /\ Moves(r, "expire") /\ UNCHANGED faults
  BY AddsIs
<1>2. Size(request', "add") = Size(request, "add") - 1 /\ Size(request', "expire") = Size(request, "expire") + 1
  <2>1. request'[r].next = "expire" /\ Others(request, request', r)
    BY <1>1 DEF Moves, Others
  <2> QED
    BY <1>1, <2>1, SizeLess, SizeMore
<1>3. /\ Size(request, "add") \in Nat /\ Size(request, "expire") \in Nat /\ faults \in Nat
      /\ \A k \in Int : Count(members, k) \in Nat /\ Count(arrivals, k) \in Nat
  BY CountedTyped, SizeTyped
<1>4. \A k \in Int :
          /\ Count(members', k) = IF request[r].lag <= k THEN Count(members, k) + 1 ELSE Count(members, k)
          /\ Count(arrivals', k) = IF request[r].lag <= k THEN Count(arrivals, k) + 1 ELSE Count(arrivals, k)
  BY <1>1, AddCounts, AdmitCounts
<1>5. Count(members', Window) + Size(request', "add") <= Count(members, Window) + Size(request, "add")
  <2>1. Window \in Int
    BY AgesTyped
  <2>2. PICK lag : lag = request[r].lag
    OBVIOUS
  <2>3. Count(members', Window) = IF lag <= Window THEN Count(members, Window) + 1 ELSE Count(members, Window)
    BY <1>4, <2>1, <2>2
  <2>4. Count(members, Window) \in Nat
    BY <1>3, <2>1
  <2> QED
    BY <1>2, <1>3, <2>3, <2>4
<1>6. \A k \in Int : k <= Window =>
          Count(arrivals', k) + Count(members, k) + faults <= Count(arrivals, k) + Count(members', k) + faults'
  BY <1>1, <1>3, <1>4
<1>7. \A k \in Int : k <= Window =>
          Count(arrivals', k) + Size(request, "expire") + faults
              <= Count(arrivals, k) + Size(request', "expire") + faults'
  BY <1>1, <1>2, <1>3, <1>4
<1>8. ttl' = ttl
  BY <1>1 DEF Add
<1> QED
  BY <1>5, <1>6, <1>7, <1>8, RaceKept, LostKept, YoungKept

LEMMA FailsKeeps ==
    ASSUME TypeOK, TypeOK', Race, Lost, Young, NEW r \in Request, Fails(r)
    PROVE  Race' /\ Lost' /\ Young'
<1>1. /\ request[r] # Idle /\ Moves(r, "none")
      /\ \/ UNCHANGED <<members, ttl>>
         \/ request[r].next = "trim" /\ Trim(r)
         \/ request[r].next = "add" /\ Add(r)
         \/ request[r].next = "expire" /\ Expire(r) /\ UNCHANGED members
      /\ IF request[r].next = "expire" THEN UNCHANGED arrivals ELSE Admit(r)
      /\ faults \in Nat /\ faults' = faults + 1
  BY FailsIs
<1>2. /\ Size(request', "add") = IF request[r].next = "add" THEN Size(request, "add") - 1 ELSE Size(request, "add")
      /\ Size(request', "expire") = IF request[r].next = "expire" THEN Size(request, "expire") - 1
                                    ELSE Size(request, "expire")
  <2>1. request'[r].next = "none" /\ Others(request, request', r)
    BY <1>1 DEF Moves, Others
  <2>2. ASSUME request[r].next = "add" PROVE Size(request', "add") = Size(request, "add") - 1
    BY <2>1, <2>2, SizeLess
  <2>3. ASSUME request[r].next # "add" PROVE Size(request', "add") = Size(request, "add")
    BY <2>1, <2>3, SizeSame
  <2>4. ASSUME request[r].next = "expire" PROVE Size(request', "expire") = Size(request, "expire") - 1
    BY <2>1, <2>4, SizeLess
  <2>5. ASSUME request[r].next # "expire" PROVE Size(request', "expire") = Size(request, "expire")
    BY <2>1, <2>5, SizeSame
  <2> QED
    BY <2>2, <2>3, <2>4, <2>5
<1>3. /\ Size(request, "add") \in Nat /\ Size(request, "expire") \in Nat
      /\ \A k \in Int : Count(members, k) \in Nat /\ Count(arrivals, k) \in Nat
  BY CountedTyped, SizeTyped
<1>4. ASSUME NEW k \in Int, k <= Window
      PROVE  /\ Count(members', k) \in Nat
             /\ Count(members', k) >= Count(members, k)
             /\ Count(members', k) <= Count(members, k) + 1
             /\ request[r].next # "add" => Count(members', k) = Count(members, k)
  <2>1. CASE UNCHANGED members
    BY <1>3, <1>4, <2>1
  <2>2. CASE Trim(r)
    <3>1. Count(members', k) = Count(members, k)
      BY <1>1, <1>4, <2>2, TrimCounts
    <3> QED
      BY <1>3, <1>4, <3>1
  <2>3. CASE request[r].next = "add" /\ Add(r)
    <3>1. Count(members', k) = IF request[r].lag <= k THEN Count(members, k) + 1 ELSE Count(members, k)
      BY <1>1, <2>3, AddCounts
    <3> QED
      BY <1>3, <1>4, <2>3, <3>1
  <2> QED
    BY <1>1, <2>1, <2>2, <2>3
<1>5. ASSUME NEW k \in Int
      PROVE  /\ Count(arrivals', k) \in Nat
             /\ Count(arrivals', k) <= Count(arrivals, k) + 1
             /\ request[r].next = "expire" => Count(arrivals', k) = Count(arrivals, k)
  <2>1. CASE request[r].next = "expire"
    <3>1. arrivals' = arrivals
      BY <1>1, <2>1
    <3> QED
      BY <1>3, <3>1
  <2>2. CASE request[r].next # "expire"
    <3>1. Count(arrivals', k) = IF request[r].lag <= k THEN Count(arrivals, k) + 1 ELSE Count(arrivals, k)
      BY <1>1, <2>2, AdmitCounts
    <3> QED
      BY <1>3, <2>2, <3>1
  <2> QED
    BY <2>1, <2>2
<1>6. Count(members', Window) + Size(request', "add") <= Count(members, Window) + Size(request, "add")
  <2>1. Window \in Int /\ Window <= Window
    BY AgesTyped
  <2> QED
    BY <1>2, <1>3, <1>4, <2>1
<1>7. \A k \in Int : k <= Window =>
          Count(arrivals', k) + Count(members, k) + faults <= Count(arrivals, k) + Count(members', k) + faults'
  BY <1>1, <1>3, <1>4, <1>5
<1>8. \A k \in Int : k <= Window =>
          Count(arrivals', k) + Size(request, "expire") + faults
              <= Count(arrivals, k) + Size(request', "expire") + faults'
  BY <1>1, <1>2, <1>3, <1>5
<1>9. Young'
  <2>1. CASE ttl' = ttl \/ ttl' = Forever
    BY <1>8, <2>1, YoungKept
  <2>2. CASE Expire(r) /\ UNCHANGED members
    BY <2>2, ExpireIs, YoungRenewed
  <2> QED
    BY <1>1, <2>1, <2>2, TrimIs DEF Add
<1> QED
  BY <1>6, <1>7, <1>9, RaceKept, LostKept

\* With the key the set loses what it missed already, or what is young.
LEMMA TickKeeps ==
    ASSUME TypeOK, TypeOK', Race, Lost, Young, Tick
    PROVE  Race' /\ Lost' /\ Young'
<1>1. /\ members \in Tally /\ members' \in Tally /\ arrivals \in Tally /\ arrivals' \in Tally
      /\ request \in Requests /\ ttl \in 1..Forever
  BY RequestsTyped DEF TypeOK, Tally, Key
<1>2. Window \in Nat /\ Window < MaxAge /\ \A k \in Int : k <= Window => k < MaxAge /\ k - 1 \in Int /\ k - 1 <= Window
  BY AgesTyped
<1>3. ASSUME NEW k \in Int, k <= Window PROVE Count(arrivals', k) = Count(arrivals, k - 1)
  BY <1>1, <1>2, <1>3, TickIs, CountAged
<1>4. ASSUME ttl # 1, NEW k \in Int, k <= Window PROVE Count(members', k) = Count(members, k - 1)
  BY <1>1, <1>2, <1>4, TickIs, CountAged
<1>5. ASSUME ttl = 1, NEW k \in Int PROVE Count(members', k) = 0
  BY <1>1, <1>5, TickIs, CountNone DEF NoOne
<1>6. /\ \A k \in Int : Count(members, k) \in Nat /\ Count(arrivals, k) \in Nat
      /\ faults \in Nat /\ faults' = faults /\ Cardinality(Request) \in Nat
      /\ Size(request, "add") \in Nat /\ Size(request, "expire") \in Nat
  BY CountedTyped, SizeTyped DEF Tick
<1>7. Size(request', "add") = Size(request, "add") /\ Size(request', "expire") = Size(request, "expire")
  <2>1. \A r \in Request : request'[r].next = request[r].next
    BY <1>1, TickMoves
  <2>2. On(request', "add") = On(request, "add") /\ On(request', "expire") = On(request, "expire")
    BY <2>1 DEF On
  <2> QED
    BY <2>2 DEF Size
<1>8. Race'
  <2>1. Count(members', Window) <= Count(members, Window)
    <3>1. CASE ttl = 1
      BY <1>2, <1>5, <1>6, <3>1
    <3>2. CASE ttl # 1
      <4>1. PICK k : k = Window - 1
        OBVIOUS
      <4>2. \A a \in Age : a <= k => a <= Window
        BY <1>2, <4>1, AgesTyped
      <4>3. Upto(k) \in SUBSET Age /\ Upto(Window) \in SUBSET Age
        BY DEF Upto
      <4>4. \A a \in Upto(k) : members[a] = 0 \/ (a \in Upto(Window) /\ members[a] <= members[a])
        BY <1>1, <4>2 DEF Upto, Tally
      <4>5. Count(members, k) <= Count(members, Window)
        BY <1>1, <4>3, <4>4, MembersFewer DEF Count
      <4> QED
        BY <1>2, <1>4, <3>2, <4>1, <4>5
    <3> QED
      BY <3>1, <3>2
  <2>2. Count(members, Window) \in Nat /\ Count(members', Window) \in Nat
    BY <1>1, CountTyped
  <2>3. Count(members', Window) + Size(request', "add") <= Count(members, Window) + Size(request, "add")
    BY <1>6, <1>7, <2>1, <2>2
  <2> QED
    BY <2>3, RaceKept
<1>9. Lost'
  <2>1. ASSUME NEW k \in Int, k <= Window
        PROVE  Count(arrivals', k) <= Count(members', k) + Cardinality(Request) + faults'
    <3>1. PICK j \in Int : j = k - 1 /\ j <= Window
      BY <1>2, <2>1
    <3>2. CASE ttl = 1
      <4>1. ttl # Forever /\ j < KeyTTL - ttl
        BY <2>1, <3>1, <3>2, AgesTyped
      <4>2. Count(arrivals, j) <= Size(request, "expire") + faults
        BY <3>1, <4>1 DEF Young
      <4>3. Size(request, "expire") <= Cardinality(Request)
        BY SizeTyped
      <4>4. Count(arrivals', k) = Count(arrivals, j) /\ Count(members', k) = 0
        BY <1>3, <1>5, <2>1, <3>1, <3>2
      <4> QED
        BY <1>6, <3>1, <4>2, <4>3, <4>4
    <3>3. CASE ttl # 1
      <4>1. Count(arrivals, j) <= Count(members, j) + Cardinality(Request) + faults
        BY <3>1 DEF Lost
      <4>2. Count(arrivals', k) = Count(arrivals, j) /\ Count(members', k) = Count(members, j)
        BY <1>3, <1>4, <2>1, <3>1, <3>3
      <4> QED
        BY <1>6, <4>1, <4>2
    <3> QED
      BY <3>2, <3>3
  <2> QED
    BY <2>1 DEF Lost
<1>10. Young'
  <2>1. ASSUME ttl' # Forever, NEW k \in Int, k <= Window, k < KeyTTL - ttl'
        PROVE  Count(arrivals', k) <= Size(request', "expire") + faults'
    <3>1. PICK j \in Int : j = k - 1 /\ j <= Window
      BY <1>2, <2>1
    <3>2. ttl # Forever /\ ttl' = ttl - 1
      BY <2>1, TickIs
    <3>3. j < KeyTTL - ttl
      BY <1>1, <2>1, <3>1, <3>2, AgesTyped
    <3>4. Count(arrivals, j) <= Size(request, "expire") + faults
      BY <3>1, <3>2, <3>3 DEF Young
    <3>5. Count(arrivals', k) = Count(arrivals, j)
      BY <1>3, <2>1, <3>1
    <3> QED
      BY <1>6, <1>7, <3>4, <3>5
  <2> QED
    BY <2>1 DEF Young
<1> QED
  BY <1>8, <1>9, <1>10

\* Where a request came from and went to says which sizes it changed.
LEMMA QuietSizes ==
    ASSUME NEW r \in Request, NEW next, Moves(r, next), request[r].next # "expire", next # "expire"
    PROVE  /\ Size(request', "expire") = Size(request, "expire")
           /\ request[r].next # "add" /\ next # "add" => Size(request', "add") = Size(request, "add")
<1>1. request'[r].next = next /\ Others(request, request', r)
  BY DEF Moves, Others
<1>2. Size(request', "expire") = Size(request, "expire")
  BY <1>1, SizeSame
<1>3. ASSUME request[r].next # "add", next # "add" PROVE Size(request', "add") = Size(request, "add")
  BY <1>1, <1>3, SizeSame
<1> QED
  BY <1>2, <1>3

LEMMA TrimsKeeps ==
    ASSUME TypeOK, TypeOK', Race, Lost, Young, NEW r \in Request, Trims(r)
    PROVE  Race' /\ Lost' /\ Young'
<1>1. /\ request[r] # Idle /\ request[r].next = "trim" /\ Trim(r) /\ Moves(r, "count")
      /\ UNCHANGED <<arrivals, faults>>
  BY TrimsIs
<1>2. Size(request', "expire") = Size(request, "expire") /\ Size(request', "add") = Size(request, "add")
  BY <1>1, QuietSizes
<1>3. \A k \in Int : k <= Window => Count(members', k) = Count(members, k)
  BY <1>1, TrimCounts
<1>4. ttl' = ttl \/ ttl' = Forever
  BY <1>1, TrimIs
<1>5. Size(request, "expire") \in Nat /\ Size(request, "add") \in Nat
  BY SizeTyped
<1>6. Size(request', "add") <= Size(request, "add") /\ Size(request, "expire") <= Size(request', "expire")
  BY <1>2, <1>5
<1> QED
  BY <1>1, <1>3, <1>4, <1>6, QuietKeeps

LEMMA CountsKeeps ==
    ASSUME TypeOK, TypeOK', Race, Lost, Young, NEW r \in Request, Counts(r)
    PROVE  Race' /\ Lost' /\ Young'
<1>1. /\ request[r] # Idle /\ request[r].next = "count" /\ Total(members) < request[r].limit
      /\ Moves(r, "add") /\ UNCHANGED <<members, ttl, arrivals, faults>>
  BY CountsIs
<1>2. Size(request', "expire") = Size(request, "expire")
  BY <1>1, QuietSizes
<1>3. PICK limit \in Limit : limit = request[r].limit
  BY <1>1, RequestsTyped, Waiting
<1>4. limit \in Nat /\ members \in Tally /\ Window \in Int
  BY WindowAssumption, RequestsTyped, AgesTyped DEF Key
<1>5. Count(members', Window) + Size(request', "add") <= limit - 1 + Cardinality(Request)
  <2>1. Count(members, Window) <= Total(members) /\ Count(members, Window) \in Nat /\ Total(members) \in Nat
    BY <1>4, CountTotal, CountTyped
  <2>2. Size(request', "add") <= Cardinality(Request) /\ Size(request', "add") \in Nat /\ Cardinality(Request) \in Nat
    BY SizeTyped
  <2>3. Count(members', Window) = Count(members, Window) /\ Total(members) < limit
    BY <1>1, <1>3
  <2> QED
    BY <1>4, <2>1, <2>2, <2>3
<1>6. Race'
  BY <1>5 DEF Race
<1>7. /\ \A k \in Int : /\ Count(members, k) \in Nat /\ Count(arrivals, k) \in Nat
                        /\ Count(members', k) = Count(members, k) /\ Count(arrivals', k) = Count(arrivals, k)
      /\ faults \in Nat /\ faults' = faults /\ Size(request, "expire") \in Nat
  BY <1>1, CountedTyped, SizeTyped
<1>8. Lost'
  BY <1>7, LostKept
<1>9. Young'
  BY <1>1, <1>2, <1>7, YoungKept
<1> QED
  BY <1>6, <1>8, <1>9

LEMMA DeniesKeeps ==
    ASSUME TypeOK, TypeOK', Race, Lost, Young, NEW r \in Request, Denies(r)
    PROVE  Race' /\ Lost' /\ Young'
<1>1. /\ request[r].next = "count" /\ Moves(r, "none")
      /\ UNCHANGED <<members, ttl, arrivals, faults>>
  BY DeniesIs
<1>2. Size(request', "expire") = Size(request, "expire") /\ Size(request', "add") = Size(request, "add")
  BY <1>1, QuietSizes
<1>3. Size(request, "expire") \in Nat /\ Size(request, "add") \in Nat
  BY SizeTyped
<1> QED
  BY <1>1, <1>2, <1>3, QuietKeeps

LEMMA ExpiresKeeps ==
    ASSUME TypeOK, TypeOK', Race, Lost, Young, NEW r \in Request, Expires(r)
    PROVE  Race' /\ Lost' /\ Young'
<1>1. /\ request[r].next = "expire" /\ Expire(r) /\ Moves(r, "none")
      /\ UNCHANGED <<members, arrivals, faults>>
  BY ExpiresIs
<1>2. Size(request', "add") = Size(request, "add")
  <2>1. request'[r].next = "none" /\ Others(request, request', r)
    BY <1>1 DEF Moves, Others
  <2> QED
    BY <1>1, <2>1, SizeSame
<1>3. Size(request, "add") \in Nat
  BY SizeTyped
<1>4. ttl' = KeyTTL \/ ttl' = Forever
  BY <1>1, ExpireIs
<1>5. \A k \in Int : k <= Window => Count(members', k) = Count(members, k)
  BY <1>1
<1>6. Size(request', "add") <= Size(request, "add")
  BY <1>2, <1>3
<1> QED
  BY <1>1, <1>4, <1>5, <1>6, QuietKeeps

LEMMA ArriveKeeps ==
    ASSUME TypeOK, TypeOK', Race, Lost, Young, NEW r \in Request, NEW limit \in Limit, Arrive(r, limit)
    PROVE  Race' /\ Lost' /\ Young'
<1>1. Moves(r, "trim") /\ UNCHANGED <<members, ttl, arrivals, faults>> /\ request[r].next = "none"
  <2>1. request \in Requests /\ request[r] = Idle
    BY RequestsTyped DEF Arrive
  <2>2. Moves(r, "trim") /\ UNCHANGED <<members, ttl, arrivals, faults>>
    BY <2>1, ArriveMoves
  <2> QED
    BY <2>1, <2>2 DEF Idle
<1>2. Size(request', "expire") = Size(request, "expire") /\ Size(request', "add") = Size(request, "add")
  BY <1>1, QuietSizes
<1>3. Size(request, "expire") \in Nat /\ Size(request, "add") \in Nat
  BY SizeTyped
<1> QED
  BY <1>1, <1>2, <1>3, QuietKeeps

LEMMA RateKept == Spec => []RateInv
<1>1. Init => RateInv
  <2> SUFFICES ASSUME Init PROVE TypeOK /\ Race /\ Lost /\ Young
    BY DEF RateInv
  <2>1. TypeOK
    BY InitTyped
  <2>2. \A k \in Int : Count(members, k) = 0 /\ Count(arrivals, k) = 0
    BY <2>1, CountNone DEF Init, NoOne, TypeOK, Tally
  <2>3. Window \in Int /\ faults = 0 /\ ttl = Forever /\ Cardinality(Request) \in Nat
    BY AgesTyped, SizeTyped DEF Init
  <2>4. Race
    <3>1. PICK limit \in Limit : limit \in Nat /\ limit >= 1
      <4>1. PICK limit \in Limit : TRUE
        BY WindowAssumption
      <4>2. limit \in Nat \ {0}
        BY WindowAssumption
      <4> QED
        BY <4>2
    <3>2. Size(request, "add") <= Cardinality(Request) /\ Size(request, "add") \in Nat
      BY SizeTyped
    <3> QED
      BY <2>2, <2>3, <3>1, <3>2 DEF Race
  <2>5. Lost
    BY <2>2, <2>3 DEF Lost
  <2>6. Young
    BY <2>3 DEF Young
  <2> QED
    BY <2>1, <2>4, <2>5, <2>6
<1>2. TypeOK /\ TypeOK' /\ RateInv /\ [Next]_vars => RateInv'
  <2> SUFFICES ASSUME TypeOK, TypeOK', Race, Lost, Young, [Next]_vars PROVE Race' /\ Lost' /\ Young'
    BY DEF RateInv
  <2>1. ASSUME UNCHANGED vars PROVE Race' /\ Lost' /\ Young'
    BY <2>1 DEF vars, Race, Lost, Young
  <2>2. ASSUME NEW r \in Request, Step(r) \/ Fails(r) \/ \E limit \in Limit : Arrive(r, limit)
        PROVE  Race' /\ Lost' /\ Young'
    BY <2>2, TrimsKeeps, CountsKeeps, DeniesKeeps, AddsKeeps, ExpiresKeeps, FailsKeeps, ArriveKeeps DEF Step
  <2>3. ASSUME Tick PROVE Race' /\ Lost' /\ Young'
    BY <2>3, TickKeeps
  <2> QED
    BY <2>1, <2>2, <2>3 DEF Next
<1> QED
  BY <1>1, <1>2, LimiterTypeCorrect, PTL DEF Spec

\* BoundedOvershoot holds of every reachable state: of the requests admitted
\* within a window, those beyond the largest limit are no more than the overlap
\* of the four round trips allows, and one for each command that failed.
THEOREM OvershootBounded == Spec => []BoundedOvershoot
<1>1. RateInv => BoundedOvershoot
  <2> SUFFICES ASSUME TypeOK, Race, Lost PROVE BoundedOvershoot
    BY DEF RateInv
  <2>1. PICK limit \in Limit :
            Count(members, Window) + Size(request, "add") <= limit - 1 + Cardinality(Request)
    BY DEF Race
  <2>2. Window \in Int /\ \A a \in Age : a - 0 <= Window <=> a <= Window
    BY AgesTyped
  <2>3. Count(arrivals, Window) <= Count(members, Window) + Cardinality(Request) + faults
    BY <2>2 DEF Lost
  <2>4. InWindow(arrivals, 0) = Count(arrivals, Window)
    <3>1. {a \in Age : a - 0 <= Window} = Upto(Window)
      BY <2>2 DEF Upto
    <3> QED
      BY <3>1 DEF InWindow, Count
  <2>5. /\ Count(members, Window) \in Nat /\ Count(arrivals, Window) \in Nat
        /\ Cardinality(Request) \in Nat /\ faults \in Nat /\ limit \in Nat /\ Size(request, "add") \in Nat
    BY CountedTyped, SizeTyped, WindowAssumption
  <2>6. Count(arrivals, Window) <= limit + Overlap + faults
    BY <2>1, <2>3, <2>5 DEF Overlap
  <2> QED
    BY <2>4, <2>6 DEF BoundedOvershoot
<1> QED
  BY <1>1, RateKept, PTL

-----------------------------------------------------------------------------
(* The denials                                                              *)

\* A request that counts has trimmed, and nothing was added since that it
\* would have had to trim.
Trimmed ==
    \A r \in Request : request[r].next = "count" =>
        \A a \in Age : a > Window + request[r].lag => members[a] = 0

\* Only admitted requests are members.
Recorded == \A a \in Age : a < MaxAge => members[a] <= arrivals[a]

LEMMA TalliesTyped ==
    TypeOK => \A a \in Age : members[a] \in Nat /\ arrivals[a] \in Nat /\ a \in Nat
BY AgesTyped DEF TypeOK

\* Requests that count have the same clock as before, members of no age appear
\* beyond the window, and no more than are admitted.
LEMMA FairKept ==
    ASSUME TypeOK, TypeOK', Trimmed, Recorded, NEW r \in Request, NEW next, Moves(r, next), next # "count",
           \A a \in Age : a > Window => members'[a] <= members[a],
           \A a \in Age : \/ members'[a] <= members[a] /\ arrivals[a] <= arrivals'[a]
                          \/ members'[a] = members[a] + 1 /\ arrivals'[a] = arrivals[a] + 1
    PROVE  Trimmed' /\ Recorded'
<1>1. \A a \in Age : /\ members[a] \in Nat /\ arrivals[a] \in Nat /\ a \in Nat
                     /\ members'[a] \in Nat /\ arrivals'[a] \in Nat
  BY TalliesTyped DEF TypeOK
<1>2. ASSUME NEW q \in Request, request'[q].next = "count", NEW a \in Age, a > Window + request'[q].lag
      PROVE  members'[a] = 0
  <2>1. q # r /\ request'[q] = request[q]
    BY <1>2 DEF Moves
  <2>2. request[q].next = "count" /\ request \in Requests
    BY <1>2, <2>1, RequestsTyped
  <2>3. PICK lag \in Nat : lag = request[q].lag
    BY <2>2, Idles, Waiting, LagsTyped
  <2>4. members[a] = 0
    BY <1>2, <2>1, <2>2 DEF Trimmed
  <2>5. a > Window
    BY <1>1, <1>2, <2>1, <2>3, AgesTyped
  <2>6. members'[a] <= members[a]
    BY <2>5
  <2> QED
    BY <1>1, <2>4, <2>6
<1>3. Trimmed'
  BY <1>2 DEF Trimmed
<1>4. ASSUME NEW a \in Age, a < MaxAge PROVE members'[a] <= arrivals'[a]
  <2>1. members[a] <= arrivals[a]
    BY <1>4 DEF Recorded
  <2> QED
    BY <1>1, <2>1
<1>5. Recorded'
  BY <1>4 DEF Recorded
<1> QED
  BY <1>3, <1>5

\* An add is a member of the window: a request takes no longer than that.
LEMMA AddFairly ==
    ASSUME TypeOK, MaxLag <= Window, NEW r \in Request, request[r] # Idle, Add(r), Admit(r)
    PROVE  /\ \A a \in Age : a > Window => members'[a] <= members[a]
           /\ \A a \in Age : \/ members'[a] <= members[a] /\ arrivals[a] <= arrivals'[a]
                             \/ members'[a] = members[a] + 1 /\ arrivals'[a] = arrivals[a] + 1
<1>1. PICK lag \in Lag : lag = request[r].lag /\ lag <= Window /\ lag \in Age
  <2>1. request[r].lag \in 0..MaxLag /\ request[r].lag \in Age
    BY RequestsTyped, Waiting, LagsTyped DEF Lag
  <2>2. request[r].lag <= Window
    BY <2>1, AgesTyped
  <2> QED
    BY <2>1, <2>2 DEF Lag
<1>2. OneMore(members, members', lag) /\ OneMore(arrivals, arrivals', lag)
  BY <1>1, AddIs, AdmitIs
<1>3. \A a \in Age : members[a] \in Nat /\ arrivals[a] \in Nat /\ a \in Nat
  BY TalliesTyped
<1>4. \A a \in Age : IF a = lag THEN members'[a] = members[a] + 1 /\ arrivals'[a] = arrivals[a] + 1
                                ELSE members'[a] = members[a] /\ arrivals'[a] = arrivals[a]
  BY <1>1, <1>2 DEF OneMore
<1>5. Window \in Nat
  BY AgesTyped
<1> QED
  BY <1>1, <1>3, <1>4, <1>5

LEMMA AdmitMore ==
    ASSUME TypeOK, NEW r \in Request, request[r] # Idle, Admit(r)
    PROVE  \A a \in Age : arrivals[a] <= arrivals'[a]
<1>1. OneMore(arrivals, arrivals', request[r].lag)
  BY AdmitIs
<1>2. \A a \in Age : arrivals[a] \in Nat
  BY TalliesTyped
<1> QED
  BY <1>1, <1>2 DEF OneMore

LEMMA TrimsFairly ==
    ASSUME TypeOK, TypeOK', Trimmed, Recorded, NEW r \in Request, Trims(r)
    PROVE  Trimmed' /\ Recorded'
<1>1. /\ request[r] # Idle /\ Trim(r) /\ Moves(r, "count") /\ request'[r].lag = request[r].lag
      /\ UNCHANGED arrivals
  BY TrimsIs
<1>2. \A a \in Age : /\ members[a] \in Nat /\ arrivals[a] \in Nat /\ members'[a] \in Nat
                     /\ members'[a] <= members[a]
                     /\ a > Window + request[r].lag => members'[a] = 0
  BY <1>1, TrimIs, TalliesTyped DEF TypeOK
<1>3. ASSUME NEW q \in Request, request'[q].next = "count", NEW a \in Age, a > Window + request'[q].lag
      PROVE  members'[a] = 0
  <2>1. CASE q = r
    BY <1>1, <1>2, <1>3, <2>1
  <2>2. CASE q # r
    <3>1. request'[q] = request[q]
      BY <1>1, <2>2 DEF Moves
    <3>2. members[a] = 0
      BY <1>3, <3>1 DEF Trimmed
    <3> QED
      BY <1>2, <3>2
  <2> QED
    BY <2>1, <2>2
<1>4. Recorded'
  BY <1>1, <1>2 DEF Recorded
<1> QED
  BY <1>3, <1>4 DEF Trimmed

LEMMA FailsFairly ==
    ASSUME TypeOK, TypeOK', Trimmed, Recorded, MaxLag <= Window, NEW r \in Request, Fails(r)
    PROVE  Trimmed' /\ Recorded'
<1>1. /\ request[r] # Idle /\ Moves(r, "none")
      /\ \/ UNCHANGED members
         \/ Trim(r)
         \/ Add(r) /\ Admit(r)
      /\ UNCHANGED arrivals \/ Admit(r)
  BY FailsIs
<1>2. \A a \in Age : members[a] \in Nat /\ arrivals[a] \in Nat
  BY TalliesTyped
<1>3. \A a \in Age : arrivals[a] <= arrivals'[a]
  BY <1>1, <1>2, AdmitMore
<1>4. CASE UNCHANGED members \/ Trim(r)
  <2>1. \A a \in Age : members'[a] <= members[a]
    BY <1>1, <1>2, <1>4, TrimIs
  <2> QED
    BY <1>1, <1>3, <2>1, FairKept
<1>5. CASE Add(r) /\ Admit(r)
  BY <1>1, <1>5, AddFairly, FairKept
<1> QED
  BY <1>1, <1>4, <1>5

LEMMA TickFairly ==
    ASSUME TypeOK, TypeOK', Trimmed, Recorded, Tick
    PROVE  Trimmed' /\ Recorded'
<1>1. \A a \in Age : /\ members[a] \in Nat /\ arrivals[a] \in Nat /\ a \in Nat
                     /\ members'[a] \in Nat /\ arrivals'[a] \in Nat
  BY TalliesTyped DEF TypeOK
<1>2. members \in Tally /\ request \in Requests
  BY RequestsTyped DEF Key
<1>3. \/ members' = NoOne
      \/ /\ members'[0] = 0 /\ members'[MaxAge] = members[MaxAge - 1] + members[MaxAge]
         /\ \A a \in Age : a # 0 /\ a # MaxAge => members'[a] = members[a - 1]
  <2>1. members' = NoOne \/ members' = Aged(members)
    BY DEF Tick
  <2> QED
    BY <1>2, <2>1, AgedIs
<1>4. \A a \in Age : a # MaxAge => arrivals'[a] = IF a = 0 THEN 0 ELSE arrivals[a - 1]
  <2>1. ASSUME NEW a \in Age, a # MaxAge
        PROVE  arrivals'[a] = IF a = 0 THEN 0 ELSE arrivals[a - 1]
    <3>1. PICK k \in Int : k = MaxAge - 1 /\ k < MaxAge /\ a <= k
      BY <1>1, <2>1, AgesTyped
    <3> QED
      BY <3>1, TickIs DEF Older
  <2> QED
    BY <2>1
<1>5. ASSUME NEW q \in Request, request'[q].next = "count", NEW a \in Age, a > Window + request'[q].lag
      PROVE  members'[a] = 0
  <2>1. request[q].next = "count" /\ request[q] # Idle
    BY <1>2, <1>5, TickMoves, Idles
  <2>2. PICK lag \in Nat : lag = request[q].lag /\ lag < MaxLag
    BY <1>2, <2>1, Waiting, LagsTyped DEF Tick
  <2>3. request'[q].lag = lag + 1
    BY <1>2, <2>1, <2>2, TickMoves
  <2>4. a > Window + lag + 1 /\ Window \in Nat
    BY <1>5, <2>2, <2>3, AgesTyped
  <2>5. \A b \in Age : b > Window + lag => members[b] = 0
    BY <2>1, <2>2 DEF Trimmed
  <2>6. PICK b : b = a - 1
    OBVIOUS
  <2>7. a # 0 /\ b \in Age /\ b > Window + lag /\ a > Window + lag
    <3>1. a \in Nat /\ a <= MaxAge /\ MaxAge \in Nat
      BY <1>1, AgesTyped
    <3>2. b \in Nat /\ b <= MaxAge /\ b > Window + lag /\ a > Window + lag /\ a # 0
      BY <2>2, <2>4, <2>6, <3>1
    <3> QED
      BY <3>1, <3>2, AgesTyped
  <2>8. members[b] = 0 /\ members[a] = 0
    BY <2>5, <2>7
  <2> QED
    BY <1>3, <2>6, <2>7, <2>8 DEF NoOne
<1>6. ASSUME NEW a \in Age, a < MaxAge PROVE members'[a] <= arrivals'[a]
  <2>1. MaxAge \in Nat /\ a # MaxAge
    BY <1>1, <1>6, AgesTyped
  <2>2. CASE members' = NoOne \/ a = 0
    <3>1. members'[a] = 0
      BY <1>3, <2>2 DEF NoOne
    <3> QED
      BY <1>1, <3>1
  <2>3. CASE members' # NoOne /\ a # 0
    <3>1. PICK b : b = a - 1
      OBVIOUS
    <3>2. b \in Age /\ b < MaxAge
      BY <1>1, <1>6, <2>3, <3>1, AgesTyped
    <3>3. members'[a] = members[b] /\ arrivals'[a] = arrivals[b]
      BY <1>3, <1>4, <2>1, <2>3, <3>1
    <3> QED
      BY <3>2, <3>3 DEF Recorded
  <2> QED
    BY <2>2, <2>3
<1> QED
  BY <1>5, <1>6 DEF Trimmed, Recorded

LEMMA FairStep ==
    ASSUME MaxLag <= Window, TypeOK, TypeOK', Trimmed, Recorded, [Next]_vars
    PROVE  Trimmed' /\ Recorded'
<1>1. ASSUME NEW r \in Request, NEW next, Moves(r, next), next # "count", UNCHANGED <<members, arrivals>>
      PROVE  Trimmed' /\ Recorded'
  <2>1. \A a \in Age : members'[a] <= members[a] /\ arrivals[a] <= arrivals'[a]
    BY <1>1, TalliesTyped
  <2> QED
    BY <1>1, <2>1, FairKept
<1>2. ASSUME NEW r \in Request, Counts(r) PROVE Trimmed' /\ Recorded'
  BY <1>1, <1>2, CountsIs
<1>3. ASSUME NEW r \in Request, Denies(r) PROVE Trimmed' /\ Recorded'
  BY <1>1, <1>3, DeniesIs
<1>4. ASSUME NEW r \in Request, Expires(r) PROVE Trimmed' /\ Recorded'
  BY <1>1, <1>4, ExpiresIs
<1>5. ASSUME NEW r \in Request, NEW limit \in Limit, Arrive(r, limit) PROVE Trimmed' /\ Recorded'
  BY <1>1, <1>5, ArriveMoves, RequestsTyped
<1>6. ASSUME NEW r \in Request, Adds(r) PROVE Trimmed' /\ Recorded'
  <2>1. request[r] # Idle /\ Add(r) /\ Admit(r) /\ Moves(r, "expire")
    BY <1>6, AddsIs
  <2> QED
    BY <2>1, AddFairly, FairKept
<1>7. CASE UNCHANGED vars
  BY <1>7 DEF vars, Trimmed, Recorded
<1> QED
  BY <1>2, <1>3, <1>4, <1>5, <1>6, <1>7, TrimsFairly, FailsFairly, TickFairly DEF Next, Step

\* What was counted beyond the limit was admitted in the window.
LEMMA DenialReason ==
    ASSUME MaxLag <= Window, TypeOK, Trimmed, Recorded, NEW r \in Request, Denies(r)
    PROVE  InWindow(arrivals, request[r].lag) >= request[r].limit
<1>1. request[r].next = "count" /\ Total(members) >= request[r].limit
  BY DEF Denies
<1>2. members \in Tally /\ arrivals \in Tally /\ request \in Requests
  BY RequestsTyped DEF Key
<1>3. PICK lag, limit : lag = request[r].lag /\ limit = request[r].limit /\ lag \in 0..MaxLag /\ limit \in Nat
  BY <1>1, <1>2, Idles, Waiting, WindowAssumption DEF Lag
<1>4. PICK ages : ages = {a \in Age : a - lag <= Window}
  OBVIOUS
<1>5. \A a \in Age : members[a] = 0 \/ (a \in ages /\ members[a] <= arrivals[a])
  <2>1. ASSUME NEW a \in Age, members[a] # 0 PROVE a \in ages /\ members[a] <= arrivals[a]
    <3>1. a \in Nat /\ Window \in Nat /\ MaxAge \in Nat /\ MaxLag \in Nat /\ MaxAge = Window + MaxLag + 1
      BY AgesTyped, TalliesTyped
    <3>2. ~(a > Window + lag)
      BY <1>1, <1>3, <2>1 DEF Trimmed
    <3>3. a - lag <= Window /\ a < MaxAge
      BY <1>3, <3>1, <3>2
    <3> QED
      BY <1>4, <3>3 DEF Recorded
  <2> QED
    BY <2>1
<1>6. Total(members) <= Cardinality(Members(arrivals, ages))
  <2>1. Age \in SUBSET Age /\ ages \in SUBSET Age
    BY <1>4
  <2> QED
    BY <1>2, <1>5, <2>1, MembersFewer DEF Total
<1>7. InWindow(arrivals, lag) = Cardinality(Members(arrivals, ages))
  BY <1>4 DEF InWindow
<1>8. Total(members) \in Nat /\ InWindow(arrivals, lag) \in Nat
  <2>1. ages \in SUBSET Age
    BY <1>4
  <2> QED
    BY <1>2, <1>7, <2>1, CountTyped, MembersFinite
<1>9. InWindow(arrivals, lag) >= limit
  BY <1>1, <1>3, <1>6, <1>7, <1>8
<1> QED
  BY <1>3, <1>9

\* DeniedForAReason holds of every step, if the four commands together take no
\* longer than the window: a 429 answers a request in whose window the limit was
\* reached by admitted requests alone.
THEOREM DenialsHaveReasons == MaxLag <= Window => (Spec => DeniedForAReason)
<1> SUFFICES ASSUME MaxLag <= Window PROVE Spec => DeniedForAReason
  OBVIOUS
<1>1. Init => Trimmed /\ Recorded
  <2> SUFFICES ASSUME Init PROVE Trimmed /\ Recorded
    OBVIOUS
  <2>1. \A a \in Age : members[a] = 0 /\ arrivals[a] = 0
    BY DEF Init, NoOne
  <2> QED
    BY <2>1 DEF Trimmed, Recorded
<1>2. TypeOK /\ TypeOK' /\ Trimmed /\ Recorded /\ [Next]_vars => Trimmed' /\ Recorded'
  BY FairStep
<1>3. TypeOK /\ Trimmed /\ Recorded /\ [Next]_vars
          => [\A r \in Request : Denies(r) => InWindow(arrivals, request[r].lag) >= request[r].limit]_vars
  BY DenialReason
<1> QED
  BY <1>1, <1>2, <1>3, LimiterTypeCorrect, PTL DEF Spec, DeniedForAReason
=============================================================================
