----------------------------- MODULE LeafProofs -----------------------------
(***************************************************************************)
(* What inserting into a leaf and deleting from it do to the pairs of a    *)
(* key and a value that it holds, and how many bytes a leaf takes whose    *)
(* keys have one value each.                                               *)
(***************************************************************************)
EXTENDS LeafMap, FiniteSetTheorems, SequenceTheorems, WellFoundedInduction,
        TLAPS

(* A leaf the operations leave behind: no key without a value, no value    *)
(* twice under a key.                                                      *)
Distinct(s) == \A i, j \in 1 .. Len(s) : s[i] = s[j] => i = j

LeafOK(leaf) ==
  \A k \in DOMAIN leaf :
    leaf[k] \in Seq(Nat) /\ leaf[k] # <<>> /\ Distinct(leaf[k])

-----------------------------------------------------------------------------
(* Min is what it is called.                                               *)
LEMMA LeastNatural ==
  ASSUME NEW T, T \subseteq Nat, T # {}
  PROVE  Min(T) \in T /\ \A y \in T : Min(T) <= y
<1> DEFINE R == {ss \in Nat \X Nat : ss[1] < ss[2]}
<1>1. IsWellFoundedOn(R, Nat)
  BY NatLessThanWellFounded DEF OpToRel
<1>2. \E x \in T : \A y \in T : <<y, x>> \notin R
  <2> HIDE DEF R
  <2> QED BY <1>1, WFMin
<1>3. \E x \in T : \A y \in T : x <= y
  <2>1. PICK x \in T : \A y \in T : <<y, x>> \notin R
    BY <1>2
  <2>2. ASSUME NEW y \in T PROVE x <= y
    <3>1. x \in Nat /\ y \in Nat
      OBVIOUS
    <3>2. <<y, x>> \in R <=> y < x
      BY <3>1
    <3> QED BY <2>1, <3>1, <3>2
  <2> QED BY <2>2
<1> QED BY <1>3 DEF Min

-----------------------------------------------------------------------------
(* What is where after the shifting loops of the B-tree.                   *)
LEMMA RemoveAtEffect ==
  ASSUME NEW S, NEW s \in Seq(S), NEW n \in 1 .. Len(s)
  PROVE  LET r == RemoveAt(s, n)
         IN  /\ r \in Seq(S) /\ Len(r) = Len(s) - 1
             /\ \A i \in 1 .. (Len(s) - 1) :
                  r[i] = IF i < n THEN s[i] ELSE s[i + 1]
<1> DEFINE a == SubSeq(s, 1, n - 1)
           b == SubSeq(s, n + 1, Len(s))
           r == a \o b
<1>1. /\ a \in Seq(S) /\ Len(a) = n - 1
      /\ \A i \in 1 .. (n - 1) : a[i] = s[i]
  OBVIOUS
<1>2. /\ b \in Seq(S) /\ Len(b) = Len(s) - n
      /\ \A i \in 1 .. (Len(s) - n) : b[i] = s[n + i]
  OBVIOUS
<1>3. Len(s) \in Nat /\ n \in Nat /\ n >= 1 /\ n <= Len(s)
  OBVIOUS
<1> HIDE DEF a, b
<1>4. /\ r \in Seq(S) /\ Len(r) = Len(a) + Len(b)
      /\ \A i \in 1 .. (Len(a) + Len(b)) :
           r[i] = IF i <= Len(a) THEN a[i] ELSE b[i - Len(a)]
  BY <1>1, <1>2, ConcatProperties
<1> HIDE DEF r
<1>5. Len(r) = Len(s) - 1
  BY <1>1, <1>2, <1>3, <1>4
<1>6. ASSUME NEW i \in 1 .. (Len(s) - 1)
      PROVE  r[i] = IF i < n THEN s[i] ELSE s[i + 1]
  <2>1. CASE i < n
    <3>1. i \in 1 .. (n - 1) /\ i <= Len(a) /\ i \in 1 .. (Len(a) + Len(b))
      BY <1>1, <1>2, <1>3, <2>1
    <3> QED BY <1>1, <1>4, <2>1, <3>1
  <2>2. CASE ~(i < n)
    <3>1. /\ i - (n - 1) \in 1 .. (Len(s) - n) /\ ~(i <= Len(a))
          /\ i \in 1 .. (Len(a) + Len(b))
          /\ i - Len(a) = i - (n - 1) /\ n + (i - (n - 1)) = i + 1
      BY <1>1, <1>2, <1>3, <2>2
    <3>2. r[i] = b[i - (n - 1)]
      BY <1>4, <3>1
    <3>3. b[i - (n - 1)] = s[i + 1]
      BY <1>2, <3>1
    <3> QED BY <2>2, <3>2, <3>3
  <2> QED BY <2>1, <2>2
<1> QED BY <1>4, <1>5, <1>6 DEF RemoveAt, r, a, b

LEMMA InsertAtEffect ==
  ASSUME NEW S, NEW s \in Seq(S), NEW n \in 1 .. (Len(s) + 1), NEW e \in S
  PROVE  LET r == InsertAt(s, n, e)
         IN  /\ r \in Seq(S) /\ Len(r) = Len(s) + 1
             /\ r[n] = e
             /\ \A i \in 1 .. Len(s) : r[IF i < n THEN i ELSE i + 1] = s[i]
<1> DEFINE a == SubSeq(s, 1, n - 1)
           b == SubSeq(s, n, Len(s))
           c == <<e>>
           d == a \o c
           r == d \o b
<1>1. /\ a \in Seq(S) /\ Len(a) = n - 1
      /\ \A i \in 1 .. (n - 1) : a[i] = s[i]
  OBVIOUS
<1>2. /\ b \in Seq(S) /\ Len(b) = Len(s) - n + 1
      /\ \A i \in 1 .. (Len(s) - n + 1) : b[i] = s[n + i - 1]
  OBVIOUS
<1>3. Len(s) \in Nat /\ n \in Nat /\ n >= 1 /\ n <= Len(s) + 1
  OBVIOUS
<1>4. c \in Seq(S) /\ Len(c) = 1 /\ c[1] = e
  OBVIOUS
<1> HIDE DEF a, b, c
<1>5. /\ d \in Seq(S) /\ Len(d) = Len(a) + Len(c)
      /\ \A i \in 1 .. (Len(a) + Len(c)) :
           d[i] = IF i <= Len(a) THEN a[i] ELSE c[i - Len(a)]
  BY <1>1, <1>4, ConcatProperties
<1> HIDE DEF d
<1>6. /\ r \in Seq(S) /\ Len(r) = Len(d) + Len(b)
      /\ \A i \in 1 .. (Len(d) + Len(b)) :
           r[i] = IF i <= Len(d) THEN d[i] ELSE b[i - Len(d)]
  <2>1. d \in Seq(S) /\ b \in Seq(S)
    BY <1>2, <1>5
  <2> QED BY <2>1, ConcatProperties, Zenon
<1> HIDE DEF r
<1>7. Len(d) = n /\ Len(r) = Len(s) + 1
  BY <1>1, <1>2, <1>3, <1>4, <1>5, <1>6
<1>8. r[n] = e
  <2>1. /\ n \in 1 .. (Len(d) + Len(b)) /\ n <= Len(d)
        /\ n \in 1 .. (Len(a) + Len(c)) /\ ~(n <= Len(a)) /\ n - Len(a) = 1
    BY <1>1, <1>2, <1>3, <1>4, <1>7
  <2> QED BY <1>4, <1>5, <1>6, <2>1
<1>9. ASSUME NEW i \in 1 .. Len(s)
      PROVE  r[IF i < n THEN i ELSE i + 1] = s[i]
  <2>1. CASE i < n
    <3>1. /\ i \in 1 .. (Len(d) + Len(b)) /\ i <= Len(d)
          /\ i \in 1 .. (Len(a) + Len(c)) /\ i <= Len(a) /\ i \in 1 .. (n - 1)
      BY <1>1, <1>2, <1>3, <1>4, <1>7, <2>1
    <3> QED BY <1>1, <1>5, <1>6, <2>1, <3>1
  <2>2. CASE ~(i < n)
    <3>1. /\ i + 1 \in 1 .. (Len(d) + Len(b)) /\ ~(i + 1 <= Len(d))
          /\ (i + 1) - Len(d) = i + 1 - n
          /\ i + 1 - n \in 1 .. (Len(s) - n + 1) /\ n + (i + 1 - n) - 1 = i
      BY <1>1, <1>2, <1>3, <1>4, <1>7, <2>2
    <3>2. r[i + 1] = b[i + 1 - n]
      BY <1>6, <3>1
    <3>3. b[i + 1 - n] = s[i]
      BY <1>2, <3>1
    <3> QED BY <2>2, <3>2, <3>3
  <2> QED BY <2>1, <2>2
<1> QED BY <1>6, <1>7, <1>8, <1>9 DEF InsertAt, r, d, a, b, c

(* RemoveFirst takes one element out and keeps the order of the others.    *)
LEMMA RemoveFirstIsRemoveAt ==
  ASSUME NEW S, NEW s \in Seq(S), NEW n \in 1 .. Len(s), Distinct(s)
  PROVE  RemoveFirst(s, s[n]) = RemoveAt(s, n)
<1> DEFINE v == s[n]
           I == {i \in 1 .. Len(s) : s[i] = v}
<1>1. I = {n}
  BY DEF Distinct
<1>2. Min({n}) = n
  BY DEF Min
<1>3. SelectInSeq(s, LAMBDA e : e = v) = n
  BY <1>1, <1>2 DEF SelectInSeq
<1> QED BY <1>3 DEF RemoveFirst, RemoveFirstMatch

LEMMA RemoveOne ==
  ASSUME NEW s \in Seq(Nat), NEW v, Contains(s, v), Distinct(s)
  PROVE  LET rest == RemoveFirst(s, v)
         IN  /\ rest \in Seq(Nat) /\ Distinct(rest)
             /\ \A w : Contains(rest, w) <=> Contains(s, w) /\ w # v
<1>1. PICK n \in 1 .. Len(s) : s[n] = v
  BY DEF Contains
<1> DEFINE r == RemoveAt(s, n)
           h(i) == IF i < n THEN i ELSE i + 1
<1>2. RemoveFirst(s, v) = r
  BY <1>1, RemoveFirstIsRemoveAt
<1>3. Len(s) \in Nat /\ n \in Nat /\ n >= 1 /\ n <= Len(s)
  BY <1>1
<1>4. /\ r \in Seq(Nat) /\ Len(r) = Len(s) - 1
       /\ \A i \in 1 .. (Len(s) - 1) : r[i] = s[h(i)]
  BY <1>1, RemoveAtEffect
<1> HIDE DEF r
<1>5. ASSUME NEW i \in 1 .. (Len(s) - 1)
       PROVE  h(i) \in 1 .. Len(s) /\ h(i) # n /\ r[i] = s[h(i)]
  <2>1. h(i) \in 1 .. Len(s) /\ h(i) # n
    <3>1. \A l, m, j \in Int :
            m \in 1 .. l /\ j \in 1 .. (l - 1) =>
              LET g == IF j < m THEN j ELSE j + 1
              IN  g \in 1 .. l /\ g # m
      OBVIOUS
    <3> QED BY <1>3, <3>1
  <2>2. r[i] = s[h(i)]
    BY <1>4
  <2> QED BY <2>1, <2>2
<1>6. \A i, j \in 1 .. (Len(s) - 1) : h(i) = h(j) => i = j
  BY <1>3
<1> HIDE DEF h
<1>7. Distinct(r)
  <2>1. SUFFICES ASSUME NEW i \in 1 .. (Len(s) - 1), NEW j \in 1 .. (Len(s) - 1),
                        r[i] = r[j]
                 PROVE  i = j
    BY <1>4 DEF Distinct
  <2>2. s[h(i)] = s[h(j)] /\ h(i) \in 1 .. Len(s) /\ h(j) \in 1 .. Len(s)
    BY <1>5, <2>1
  <2>3. h(i) = h(j)
    BY <2>2 DEF Distinct
  <2> QED BY <1>6, <2>3
<1>8. ASSUME NEW w PROVE Contains(r, w) <=> Contains(s, w) /\ w # v
  <2>1. ASSUME NEW i \in 1 .. Len(r), r[i] = w
        PROVE  Contains(s, w) /\ w # v
    <3>1. h(i) \in 1 .. Len(s) /\ h(i) # n /\ s[h(i)] = w
      BY <1>4, <1>5, <2>1
    <3>2. w # v
      BY <1>1, <3>1 DEF Distinct
    <3> QED BY <3>1, <3>2 DEF Contains
  <2>2. ASSUME NEW j \in 1 .. Len(s), s[j] = w, w # v
        PROVE  Contains(r, w)
    <3>1. CASE j < n
      <4>1. j \in 1 .. (Len(s) - 1) /\ h(j) = j
        BY <1>3, <3>1 DEF h
      <4>2. j \in 1 .. Len(r) /\ r[j] = w
        BY <1>4, <1>5, <2>2, <4>1
      <4> QED BY <4>2 DEF Contains
    <3>2. CASE j > n
      <4>1. j - 1 \in 1 .. (Len(s) - 1) /\ h(j - 1) = j
        BY <1>3, <3>2 DEF h
      <4>2. j - 1 \in 1 .. Len(r) /\ r[j - 1] = w
        BY <1>4, <1>5, <2>2, <4>1
      <4> QED BY <4>2 DEF Contains
    <3>3. j # n
      BY <1>1, <2>2
    <3> QED BY <1>3, <3>1, <3>2, <3>3
  <2> QED BY <2>1, <2>2 DEF Contains
<1> QED BY <1>2, <1>4, <1>7, <1>8

(* Append adds one element.                                                *)
LEMMA AppendOne ==
  ASSUME NEW s \in Seq(Nat), NEW v \in Nat, ~Contains(s, v), Distinct(s)
  PROVE  LET t == Append(s, v)
         IN  /\ t \in Seq(Nat) /\ t # <<>> /\ Distinct(t)
             /\ \A w : Contains(t, w) <=> Contains(s, w) \/ w = v
<1> DEFINE t == Append(s, v)
<1>1. /\ t \in Seq(Nat) /\ Len(t) = Len(s) + 1
      /\ \A i \in 1 .. Len(s) : t[i] = s[i]
      /\ t[Len(s) + 1] = v
  OBVIOUS
<1> HIDE DEF t
<1>2. \A l \in 1 .. Len(t) : l \in 1 .. Len(s) \/ l = Len(s) + 1
  BY <1>1
<1>3. Distinct(t)
  <2>1. SUFFICES ASSUME NEW i \in 1 .. Len(t), NEW j \in 1 .. Len(t), t[i] = t[j]
                 PROVE  i = j
    BY DEF Distinct
  <2>2. \A l \in 1 .. Len(s) : t[l] # v
    BY <1>1 DEF Contains
  <2>3. CASE i \in 1 .. Len(s) /\ j \in 1 .. Len(s)
    BY <1>1, <2>1, <2>3 DEF Distinct
  <2>4. CASE i = Len(s) + 1 /\ j \in 1 .. Len(s)
    BY <1>1, <2>1, <2>2, <2>4
  <2>5. CASE j = Len(s) + 1 /\ i \in 1 .. Len(s)
    BY <1>1, <2>1, <2>2, <2>5
  <2>6. /\ i \in 1 .. Len(s) \/ i = Len(s) + 1
        /\ j \in 1 .. Len(s) \/ j = Len(s) + 1
    BY <1>2
  <2> QED BY <2>3, <2>4, <2>5, <2>6, Zenon
<1>4. ASSUME NEW w PROVE Contains(t, w) <=> Contains(s, w) \/ w = v
  <2>1. ASSUME NEW i \in 1 .. Len(t), t[i] = w PROVE Contains(s, w) \/ w = v
    <3>1. CASE i \in 1 .. Len(s)
      <4>1. s[i] = w
        BY <1>1, <2>1, <3>1
      <4> QED BY <3>1, <4>1 DEF Contains
    <3>2. CASE i = Len(s) + 1
      BY <1>1, <2>1, <3>2, Zenon
    <3> QED BY <1>2, <3>1, <3>2
  <2>2. ASSUME NEW i \in 1 .. Len(s), s[i] = w PROVE Contains(t, w)
    <3>1. i \in 1 .. Len(t) /\ t[i] = w
      BY <1>1, <2>2
    <3> QED BY <3>1 DEF Contains
  <2>3. Contains(t, v)
    BY <1>1 DEF Contains
  <2> QED BY <2>1, <2>2, <2>3 DEF Contains
<1>5. t # <<>>
  BY <1>1
<1> QED BY <1>1, <1>3, <1>4, <1>5 DEF t

-----------------------------------------------------------------------------
(* BTreeInsert: the leaf is as it was, or it holds one pair more.          *)
LEMMA InsertEffect ==
  ASSUME NEW leaf, LeafOK(leaf), NEW key, NEW value \in Nat
  PROVE  LET r == LeafInsert(leaf, key, value)
         IN  /\ LeafOK(r.leaf) /\ r.ok \in BOOLEAN
             /\ ~r.ok => r.leaf = leaf
             /\ r.ok => \A k, v : LeafHolds(r.leaf, k, v) <=>
                          LeafHolds(leaf, k, v) \/ (k = key /\ v = value)
<1> DEFINE values == IF key \in DOMAIN leaf THEN leaf[key] ELSE <<>>
           grown == WithEntry(leaf, key, Append(values, value))
           room == /\ IF key \in DOMAIN leaf THEN Len(values) < BT_MAX_VALUES
                      ELSE Cardinality(DOMAIN leaf) < BT_MAX_KEYS
                   /\ Fits(grown)
           r == LeafInsert(leaf, key, value)
<1>1. values \in Seq(Nat) /\ Distinct(values)
  BY DEF LeafOK, Distinct
<1>2. CASE Contains(values, value)
  <2>1. key \in DOMAIN leaf /\ r = [ok |-> TRUE, leaf |-> leaf]
    BY <1>2 DEF LeafInsert, Contains
  <2>2. LeafHolds(leaf, key, value)
    BY <1>2, <2>1 DEF LeafHolds
  <2> QED BY <2>1, <2>2
<1>3. CASE ~Contains(values, value) /\ ~room
  <2>1. r = [ok |-> FALSE, leaf |-> leaf]
    BY <1>3 DEF LeafInsert
  <2> QED BY <2>1
<1>4. CASE ~Contains(values, value) /\ room
  <2>1. r = [ok |-> TRUE, leaf |-> grown]
    BY <1>4 DEF LeafInsert
  <2> DEFINE t == Append(values, value)
  <2>2. /\ t \in Seq(Nat) /\ t # <<>> /\ Distinct(t)
        /\ \A w : Contains(t, w) <=> Contains(values, w) \/ w = value
    <3> HIDE DEF values
    <3> QED BY <1>1, <1>4, AppendOne
  <2> HIDE DEF t
  <2>3. /\ DOMAIN grown = DOMAIN leaf \cup {key}
        /\ \A k \in DOMAIN grown : grown[k] = IF k = key THEN t ELSE leaf[k]
    BY DEF WithEntry, t
  <2> HIDE DEF grown
  <2>4. LeafOK(grown)
    BY <2>2, <2>3 DEF LeafOK
  <2>5. ASSUME NEW v
        PROVE  Contains(values, v) <=> LeafHolds(leaf, key, v)
    BY DEF Contains, LeafHolds
  <2> HIDE DEF values
  <2>6. ASSUME NEW k, NEW v
        PROVE  LeafHolds(grown, k, v) <=>
                 LeafHolds(leaf, k, v) \/ (k = key /\ v = value)
    BY <2>2, <2>3, <2>5 DEF LeafHolds
  <2> QED BY <2>1, <2>4, <2>6
<1> QED BY <1>2, <1>3, <1>4

(* BTreeDeleteValue: the leaf holds one pair less.                         *)
LEMMA DeleteEffect ==
  ASSUME NEW leaf, LeafOK(leaf), NEW key, NEW value
  PROVE  LET r == LeafDeleteValue(leaf, key, value)
         IN  /\ LeafOK(r)
             /\ \A k, v : LeafHolds(r, k, v) <=>
                            LeafHolds(leaf, k, v) /\ ~(k = key /\ v = value)
<1> DEFINE rest == RemoveFirst(leaf[key], value)
           r == LeafDeleteValue(leaf, key, value)
<1>1. CASE ~LeafHolds(leaf, key, value)
  <2>1. r = leaf
    BY <1>1 DEF LeafDeleteValue
  <2> QED BY <1>1, <2>1
<1>2. CASE LeafHolds(leaf, key, value)
  <2>1. /\ key \in DOMAIN leaf /\ Contains(leaf[key], value)
        /\ leaf[key] \in Seq(Nat) /\ Distinct(leaf[key])
    BY <1>2 DEF LeafHolds, LeafOK
  <2>2. /\ rest \in Seq(Nat) /\ Distinct(rest)
        /\ \A w : Contains(rest, w) <=> Contains(leaf[key], w) /\ w # value
    BY <2>1, RemoveOne
  <2>3. r = IF rest = <<>> THEN WithoutKey(leaf, key)
                           ELSE WithEntry(leaf, key, rest)
    BY <1>2 DEF LeafDeleteValue
  <2> HIDE DEF rest, r
  <2>4. CASE rest = <<>>
    <3>1. /\ DOMAIN r = DOMAIN leaf \ {key}
          /\ \A k \in DOMAIN r : r[k] = leaf[k]
      BY <2>3, <2>4 DEF WithoutKey
    <3>2. LeafOK(r)
      BY <3>1 DEF LeafOK
    <3>3. \A w : ~Contains(rest, w)
      BY <2>4 DEF Contains
    <3>4. ASSUME NEW k, NEW v
          PROVE  LeafHolds(r, k, v) <=>
                   LeafHolds(leaf, k, v) /\ ~(k = key /\ v = value)
      BY <2>1, <2>2, <3>1, <3>3 DEF LeafHolds
    <3> QED BY <3>2, <3>4 DEF r
  <2>5. CASE rest # <<>>
    <3>1. /\ DOMAIN r = DOMAIN leaf
          /\ \A k \in DOMAIN r : r[k] = IF k = key THEN rest ELSE leaf[k]
      BY <2>1, <2>3, <2>5 DEF WithEntry
    <3>2. LeafOK(r)
      BY <2>2, <2>5, <3>1 DEF LeafOK
    <3>3. ASSUME NEW k, NEW v
          PROVE  LeafHolds(r, k, v) <=>
                   LeafHolds(leaf, k, v) /\ ~(k = key /\ v = value)
      BY <2>1, <2>2, <3>1 DEF LeafHolds
    <3> QED BY <3>2, <3>3 DEF r
  <2> QED BY <2>4, <2>5
<1> QED BY <1>1, <1>2

-----------------------------------------------------------------------------
(* A leaf with one value under each key takes 14 bytes a key.              *)
LEMMA SingleValuesBytes ==
  ASSUME NEW leaf, IsFiniteSet(DOMAIN leaf),
         \A k \in DOMAIN leaf : Len(leaf[k]) = 1
  PROVE  LeafBytes(leaf) = 7 + 14 * Cardinality(DOMAIN leaf)
<1> DEFINE D == DOMAIN leaf
           S == {<<k, 1>> : k \in D}
           g == [k \in D |-> <<k, 1>>]
<1>1. Slots(leaf) = S
  <2>1. \A k \in D : {k} \X (1 .. Len(leaf[k])) = {<<k, 1>>}
    <3>1. SUFFICES ASSUME NEW k \in D
                   PROVE  {k} \X (1 .. Len(leaf[k])) = {<<k, 1>>}
      OBVIOUS
    <3>2. Len(leaf[k]) = 1
      BY <3>1
    <3> HIDE DEF D
    <3>3. 1 .. Len(leaf[k]) = {1}
      BY <3>2
    <3> QED BY <3>3
  <2> QED BY <2>1 DEF Slots
<1>2. g \in Bijection(D, S)
  BY DEF Bijection, Injection, Surjection, IsInjective
<1>3. ExistsBijection(D, S)
  BY <1>2 DEF ExistsBijection
<1>4. Cardinality(S) = Cardinality(D)
  BY <1>3, FS_Bijection
<1>5. Cardinality(D) \in Nat
  BY FS_CardinalityType
<1> QED BY <1>1, <1>4, <1>5 DEF LeafBytes
=============================================================================
