---------------------------- MODULE BTreeProofs ----------------------------
(***************************************************************************)
(* A B-tree file implements the multimap, for every page size, every limit *)
(* on keys and values and all sets of keys and values.  The proof has      *)
(* three parts: a leaf that SerializeLeaf writes is read back entry by     *)
(* entry; the bytes a leaf takes are those of the multimap it denotes; and *)
(* the shifting loops keep the keys in order, so the search finds every    *)
(* key.                                                                    *)
(***************************************************************************)
EXTENDS BTree, LeafProofs

Entries == [key : TreeKeys, values : Seq(TreeValues)]

(* The leaves the calls make, and those of them that are written.          *)
Regular(leaf) ==
  /\ leaf \in Seq(Entries)
  /\ WellFormed(leaf)
  /\ Len(leaf) <= BT_MAX_KEYS
  /\ \A i \in DOMAIN leaf : Len(leaf[i].values) <= BT_MAX_VALUES

Writable(leaf) ==
  /\ Regular(leaf)
  /\ leaf # <<>> => EntryOffset(leaf, Len(leaf) + 1) <= BT_PAGE_SIZE

ValuesBefore(leaf, i) == [j \in 1 .. i - 1 |-> leaf[j].values]

-----------------------------------------------------------------------------
(* The parts of an entry.                                                  *)
LEMMA EntryParts ==
  ASSUME NEW leaf \in Seq(Entries), NEW i \in DOMAIN leaf
  PROVE  /\ leaf[i] = Entry(leaf[i].key, leaf[i].values)
         /\ leaf[i].key \in TreeKeys /\ leaf[i].key \in Int
         /\ leaf[i].values \in Seq(TreeValues) /\ Len(leaf[i].values) \in Nat
<1>1. PICK e : e = leaf[i]
  OBVIOUS
<1>2. e \in Entries
  BY <1>1
<1>3. /\ e = Entry(e.key, e.values)
      /\ e.key \in TreeKeys /\ e.values \in Seq(TreeValues)
  BY <1>2 DEF Entries, Entry
<1>4. Len(e.values) \in Nat
  BY <1>3
<1> QED BY <1>1, <1>3, <1>4, TreeAssumption

-----------------------------------------------------------------------------
(* What SerializeLeaf's position is before each entry.                     *)

(* The values under one key.                                               *)
LEMMA OneKeySlots ==
  ASSUME NEW k, NEW n \in Nat
  PROVE  IsFiniteSet({k} \X (1 .. n)) /\ Cardinality({k} \X (1 .. n)) = n
<1> DEFINE g == [i \in 1 .. n |-> <<k, i>>]
<1>1. g \in Bijection(1 .. n, {k} \X (1 .. n))
  <2>1. g \in [1 .. n -> {k} \X (1 .. n)]
    OBVIOUS
  <2>2. \A i, j \in 1 .. n : g[i] = g[j] => i = j
    OBVIOUS
  <2>3. ASSUME NEW p \in {k} \X (1 .. n) PROVE \E i \in 1 .. n : g[i] = p
    <3>1. PICK i \in 1 .. n : p = <<k, i>>
      OBVIOUS
    <3> QED BY <3>1
  <2> HIDE DEF g
  <2> QED BY <2>1, <2>2, <2>3 DEF Bijection, Injection, Surjection, IsInjective
<1>2. ExistsBijection(1 .. n, {k} \X (1 .. n))
  BY <1>1 DEF ExistsBijection
<1>3. IsFiniteSet(1 .. n) /\ Cardinality(1 .. n) = n
  BY FS_Interval
<1> QED BY <1>2, <1>3, FS_Bijection

(* Slots of finitely many lists of bounded length.                         *)
LEMMA SlotsFinite ==
  ASSUME NEW lists, IsFiniteSet(DOMAIN lists), NEW m \in Nat,
         \A k \in DOMAIN lists : Len(lists[k]) \in Nat /\ Len(lists[k]) <= m
  PROVE  IsFiniteSet(Slots(lists)) /\ Cardinality(Slots(lists)) \in Nat
<1>1. IsFiniteSet(1 .. m)
  BY FS_Interval
<1>2. IsFiniteSet((DOMAIN lists) \X (1 .. m))
  BY <1>1, FS_Product
<1>3. Slots(lists) \in SUBSET ((DOMAIN lists) \X (1 .. m))
  BY DEF Slots
<1>4. IsFiniteSet(Slots(lists))
  BY <1>2, <1>3, FS_Subset
<1> QED BY <1>4, FS_CardinalityType

(* A slot is a key of the lists with an index of its list.                 *)
LEMMA InSlots ==
  ASSUME NEW lists
  PROVE  \A p : p \in Slots(lists) <=>
           \E k \in DOMAIN lists : \E i \in 1 .. Len(lists[k]) : p = <<k, i>>
<1>1. ASSUME NEW p, p \in Slots(lists)
      PROVE  \E k \in DOMAIN lists : \E i \in 1 .. Len(lists[k]) : p = <<k, i>>
  <2>1. PICK k \in DOMAIN lists : p \in {k} \X (1 .. Len(lists[k]))
    BY <1>1 DEF Slots
  <2> QED BY <2>1
<1>2. ASSUME NEW k \in DOMAIN lists, NEW i \in 1 .. Len(lists[k])
      PROVE  <<k, i>> \in Slots(lists)
  BY DEF Slots
<1> QED BY <1>1, <1>2

(* It starts behind the header, grows by the bytes of each entry and so    *)
(* never falls.                                                            *)
LEMMA OffsetSteps ==
  ASSUME NEW leaf \in Seq(Entries),
         \A i \in DOMAIN leaf : Len(leaf[i].values) <= BT_MAX_VALUES
  PROVE  /\ EntryOffset(leaf, 1) = HeaderBytes
         /\ \A i \in 1 .. Len(leaf) + 1 : EntryOffset(leaf, i) \in Nat
         /\ \A i \in 1 .. Len(leaf) :
              EntryOffset(leaf, i + 1) =
                EntryOffset(leaf, i) + EntryBytes(Len(leaf[i].values))
         /\ \A i, j \in 1 .. Len(leaf) + 1 :
              i <= j => EntryOffset(leaf, i) <= EntryOffset(leaf, j)
<1> DEFINE N == Len(leaf)
           S(i) == Slots(ValuesBefore(leaf, i))
<1>1. N \in Nat /\ DOMAIN leaf = 1 .. N
  OBVIOUS
<1>2. \A i \in 1 .. N : leaf[i].values \in Seq(TreeValues)
                        /\ Len(leaf[i].values) \in Nat
  BY <1>1, EntryParts
<1> HIDE DEF N
<1>3. ASSUME NEW i \in 1 .. N + 1
      PROVE  /\ IsFiniteSet(S(i)) /\ Cardinality(S(i)) \in Nat
             /\ EntryOffset(leaf, i) = 7 + 10 * (i - 1) + 4 * Cardinality(S(i))
  <2>1. DOMAIN ValuesBefore(leaf, i) = 1 .. i - 1 /\ IsFiniteSet(1 .. i - 1)
    BY <1>1, FS_Interval DEF ValuesBefore
  <2>2. \A k \in 1 .. i - 1 : /\ Len(ValuesBefore(leaf, i)[k]) \in Nat
                              /\ Len(ValuesBefore(leaf, i)[k]) <= BT_MAX_VALUES
    BY <1>1, <1>2 DEF ValuesBefore
  <2>3. BT_MAX_VALUES \in Nat
    BY LeafLimitsAssumption
  <2>4. IsFiniteSet(S(i)) /\ Cardinality(S(i)) \in Nat
    BY <2>1, <2>2, <2>3, SlotsFinite
  <2> QED BY <2>4 DEF EntryOffset, ValuesBefore, HeaderBytes, EntryBytes
<1>4. EntryOffset(leaf, 1) = HeaderBytes
  <2>1. S(1) = {}
    BY DEF Slots, ValuesBefore
  <2>2. Cardinality(S(1)) = 0
    BY <2>1, FS_EmptySet
  <2> QED BY <1>1, <1>3, <2>2 DEF HeaderBytes
<1>5. ASSUME NEW i \in 1 .. N
      PROVE  Cardinality(S(i + 1)) = Cardinality(S(i)) + Len(leaf[i].values)
  <2> DEFINE new == {i} \X (1 .. Len(leaf[i].values))
  <2>1. i \in 1 .. N + 1 /\ i + 1 \in 1 .. N + 1
    BY <1>1
  <2>2. S(i + 1) = S(i) \cup new
    <3>1. (1 .. (i + 1) - 1) = (1 .. i - 1) \cup {i}
      BY <1>1
    <3> QED BY <3>1 DEF Slots, ValuesBefore
  <2>3. S(i) \cap new = {}
    BY <1>1 DEF Slots, ValuesBefore
  <2>4. IsFiniteSet(new) /\ Cardinality(new) = Len(leaf[i].values)
    BY <1>2, OneKeySlots
  <2>5. Cardinality({}) = 0
    BY FS_EmptySet
  <2> HIDE DEF new, S
  <2>6. Cardinality(S(i) \cup new) =
          Cardinality(S(i)) + Cardinality(new) - Cardinality(S(i) \cap new)
    BY <1>3, <2>1, <2>4, FS_Union
  <2>7. Cardinality(S(i + 1)) = Cardinality(S(i)) + Cardinality(new)
    <3>1. Cardinality(S(i)) \in Nat /\ Cardinality(new) \in Nat
      BY <1>2, <1>3, <2>1, <2>4
    <3>2. \A a, b \in Nat : a + b - 0 = a + b
      OBVIOUS
    <3>3. Cardinality(S(i) \cup new) =
            Cardinality(S(i)) + Cardinality(new) - 0
      BY <2>3, <2>5, <2>6, Zenon
    <3> QED BY <2>2, <3>1, <3>2, <3>3, Zenon
  <2> QED BY <2>4, <2>7
<1>6. ASSUME NEW i \in 1 .. N + 1, NEW j \in 1 .. N + 1, i <= j
      PROVE  Cardinality(S(i)) <= Cardinality(S(j))
  <2>1. (1 .. i - 1) \subseteq (1 .. j - 1)
    BY <1>1, <1>6
  <2>2. S(i) \in SUBSET S(j)
    BY <2>1 DEF Slots, ValuesBefore
  <2> HIDE DEF S
  <2> QED BY <1>3, <2>2, FS_Subset
<1>7. ASSUME NEW i \in 1 .. N
      PROVE  EntryOffset(leaf, i + 1) =
               EntryOffset(leaf, i) + EntryBytes(Len(leaf[i].values))
  <2> HIDE DEF S
  <2>1. i \in 1 .. N + 1 /\ i + 1 \in 1 .. N + 1
    BY <1>1
  <2>2. PICK n \in Nat : n = Len(leaf[i].values)
    BY <1>2
  <2>3. PICK c \in Nat : c = Cardinality(S(i))
    BY <1>3, <2>1
  <2>4. EntryOffset(leaf, i) = 7 + 10 * (i - 1) + 4 * c
    BY <1>3, <2>1, <2>3
  <2>5. EntryOffset(leaf, i + 1) = 7 + 10 * ((i + 1) - 1) + 4 * (c + n)
    <3>1. Cardinality(S(i + 1)) = c + n
      BY <1>5, <2>2, <2>3
    <3> QED BY <1>3, <2>1, <3>1
  <2>6. EntryBytes(n) = 10 + 4 * n
    BY DEF EntryBytes
  <2>7. EntryOffset(leaf, i + 1) = EntryOffset(leaf, i) + EntryBytes(n)
    BY <1>1, <2>4, <2>5, <2>6
  <2> QED BY <2>2, <2>7
<1>8. \A i, j \in 1 .. N + 1 :
        i <= j => EntryOffset(leaf, i) <= EntryOffset(leaf, j)
  <2> HIDE DEF S
  <2> QED BY <1>1, <1>3, <1>6
<1>9. \A i \in 1 .. N + 1 : EntryOffset(leaf, i) \in Nat
  <2> HIDE DEF S
  <2> QED BY <1>1, <1>3
<1> QED BY <1>4, <1>7, <1>8, <1>9 DEF N

-----------------------------------------------------------------------------
(* A field of an image is read back when no other one is at its place.     *)
LEMMA ImageAt ==
  ASSUME NEW fields, NEW f \in fields,
         \A g \in fields : g.at = f.at => g.value = f.value
  PROVE  Image(fields)[f.at] = f.value
<1>1. f.at \in {g.at : g \in fields}
  OBVIOUS
<1>2. PICK c : c = CHOOSE g \in fields : g.at = f.at
  OBVIOUS
<1>3. c \in fields /\ c.at = f.at
  BY <1>2
<1> QED BY <1>1, <1>2, <1>3 DEF Image

(* The fields of an entry with a list of n values.                         *)
FieldsOf(key, values, n, pos) ==
  {Field(pos, key), Field(pos + 4, n), Field(pos + 6 + 4 * n, 0)}
    \cup {Field(pos + 6 + 4 * (j - 1), values[j]) : j \in 1 .. n}

(* They lie within its bytes, each at its own place.                       *)
LEMMA FieldsOfPlaces ==
  ASSUME NEW key, NEW values, NEW n \in Nat, NEW pos \in Nat
  PROVE  /\ \A f \in FieldsOf(key, values, n, pos) :
              f.at \in Int /\ pos <= f.at /\ f.at < pos + EntryBytes(n)
         /\ \A f, g \in FieldsOf(key, values, n, pos) :
              f.at = g.at => f.value = g.value
<1> DEFINE F == FieldsOf(key, values, n, pos)
<1>1. ASSUME NEW f \in F
      PROVE  \/ f.at = pos /\ f.value = key
             \/ f.at = pos + 4 /\ f.value = n
             \/ f.at = pos + 6 + 4 * n /\ f.value = 0
             \/ \E j \in 1 .. n :
                  f.at = pos + 6 + 4 * (j - 1) /\ f.value = values[j]
  BY DEF FieldsOf, Field
<1> HIDE DEF F
<1>2. EntryBytes(n) = 10 + 4 * n
  BY DEF EntryBytes
<1>3. ASSUME NEW f \in F
      PROVE  f.at \in Int /\ pos <= f.at /\ f.at < pos + EntryBytes(n)
  BY <1>1, <1>2
<1>4. ASSUME NEW f \in F, NEW g \in F, f.at = g.at
      PROVE  f.value = g.value
  <2>1. CASE \E j \in 1 .. n :
               f.at = pos + 6 + 4 * (j - 1) /\ f.value = values[j]
    <3>1. PICK j \in 1 .. n :
            f.at = pos + 6 + 4 * (j - 1) /\ f.value = values[j]
      BY <2>1
    <3>2. f.at # pos /\ f.at # pos + 4 /\ f.at # pos + 6 + 4 * n
      BY <3>1
    <3>3. PICK k \in 1 .. n :
            g.at = pos + 6 + 4 * (k - 1) /\ g.value = values[k]
      BY <1>1, <1>4, <3>2
    <3>4. j = k
      <4>1. pos + 6 + 4 * (j - 1) = pos + 6 + 4 * (k - 1)
        BY <1>4, <3>1, <3>3, Zenon
      <4> QED BY <4>1
    <3> QED BY <3>1, <3>3, <3>4
  <2>2. CASE ~\E j \in 1 .. n :
               f.at = pos + 6 + 4 * (j - 1) /\ f.value = values[j]
    <3>1. \A j \in 1 .. n : g.at # pos + 6 + 4 * (j - 1)
      <4>1. \/ f.at = pos \/ f.at = pos + 4 \/ f.at = pos + 6 + 4 * n
        BY <1>1, <2>2
      <4> QED BY <1>4, <4>1
    <3>2. /\ \/ f.at = pos /\ f.value = key
             \/ f.at = pos + 4 /\ f.value = n
             \/ f.at = pos + 6 + 4 * n /\ f.value = 0
          /\ \/ g.at = pos /\ g.value = key
             \/ g.at = pos + 4 /\ g.value = n
             \/ g.at = pos + 6 + 4 * n /\ g.value = 0
      BY <1>1, <2>2, <3>1
    <3>3. pos # pos + 4 /\ pos # pos + 6 + 4 * n /\ pos + 4 # pos + 6 + 4 * n
      OBVIOUS
    <3> QED BY <1>4, <3>2, <3>3
  <2> QED BY <2>1, <2>2
<1> QED BY <1>3, <1>4 DEF F

LeafFields(leaf) ==
  {Field(1, Len(leaf)), Field(3, 0)} \cup
  UNION {EntryFields(leaf[i], EntryOffset(leaf, i)) : i \in DOMAIN leaf}

(* No two fields of a leaf are at the same place.                          *)
LEMMA LeafFieldPlaces ==
  ASSUME NEW leaf \in Seq(Entries),
         \A i \in DOMAIN leaf : Len(leaf[i].values) <= BT_MAX_VALUES
  PROVE  \A f \in LeafFields(leaf) : LeafImage(leaf)[f.at] = f.value
<1> DEFINE N == Len(leaf)
           fields(i) == EntryFields(leaf[i], EntryOffset(leaf, i))
<1>1. N \in Nat /\ DOMAIN leaf = 1 .. N
  OBVIOUS
<1>2. ASSUME NEW i \in 1 .. N
      PROVE  /\ \A f \in fields(i) : /\ f.at \in Int
                                     /\ EntryOffset(leaf, i) <= f.at
                                     /\ f.at < EntryOffset(leaf, i + 1)
             /\ \A f, g \in fields(i) : f.at = g.at => f.value = g.value
             /\ EntryOffset(leaf, i) >= 7
  <2>1. PICK n \in Nat : n = Len(leaf[i].values)
    BY EntryParts
  <2>2. /\ i \in 1 .. N + 1 /\ 1 \in 1 .. N + 1 /\ 1 <= i
    BY <1>1
  <2>3. /\ EntryOffset(leaf, i) \in Nat
        /\ EntryOffset(leaf, i + 1) = EntryOffset(leaf, i) + EntryBytes(n)
        /\ EntryOffset(leaf, i) >= 7
    BY <2>1, <2>2, OffsetSteps DEF HeaderBytes
  <2>4. fields(i) =
          FieldsOf(leaf[i].key, leaf[i].values, n, EntryOffset(leaf, i))
    BY <2>1 DEF EntryFields, FieldsOf
  <2> HIDE DEF fields
  <2>5. /\ \A f \in fields(i) :
             /\ f.at \in Int /\ EntryOffset(leaf, i) <= f.at
             /\ f.at < EntryOffset(leaf, i) + EntryBytes(n)
        /\ \A f, g \in fields(i) : f.at = g.at => f.value = g.value
    BY <2>3, <2>4, FieldsOfPlaces
  <2> QED BY <2>3, <2>5, Zenon
<1>3. ASSUME NEW i \in 1 .. N, NEW j \in 1 .. N, i < j,
             NEW f \in fields(i), NEW g \in fields(j)
      PROVE  f.at < g.at
  <2>1. i + 1 \in 1 .. N + 1 /\ j \in 1 .. N + 1 /\ i + 1 <= j
    BY <1>1, <1>3
  <2>2. /\ EntryOffset(leaf, i + 1) <= EntryOffset(leaf, j)
        /\ EntryOffset(leaf, i + 1) \in Nat /\ EntryOffset(leaf, j) \in Nat
    BY <2>1, OffsetSteps
  <2>3. /\ f.at \in Int /\ f.at < EntryOffset(leaf, i + 1)
        /\ g.at \in Int /\ EntryOffset(leaf, j) <= g.at
    BY <1>2
  <2> QED BY <2>2, <2>3
<1> HIDE DEF N, fields
<1>4. ASSUME NEW i \in 1 .. N, NEW f \in fields(i)
      PROVE  f.at \in Int /\ f.at >= 7
  <2>1. EntryOffset(leaf, i) \in Nat
    <3>1. i \in 1 .. N + 1
      BY <1>1
    <3> QED BY <3>1, OffsetSteps DEF N
  <2> QED BY <1>2, <2>1
<1>5. \A f \in LeafFields(leaf) :
        \/ f.at = 1 /\ f.value = Len(leaf)
        \/ f.at = 3 /\ f.value = 0
        \/ \E i \in 1 .. N : f \in fields(i)
  BY <1>1 DEF LeafFields, Field, fields
<1>6. ASSUME NEW f \in LeafFields(leaf), NEW g \in LeafFields(leaf),
             g.at = f.at
      PROVE  g.value = f.value
  <2>1. CASE \E i \in 1 .. N : f \in fields(i)
    <3>1. PICK i \in 1 .. N : f \in fields(i)
      BY <2>1
    <3>2. f.at \in Int /\ f.at >= 7
      BY <1>4, <3>1
    <3>3. PICK j \in 1 .. N : g \in fields(j)
      BY <1>5, <1>6, <3>2
    <3>4. ~(i < j) /\ ~(j < i)
      <4>1. i < j => f.at < g.at
        BY <1>3, <3>1, <3>3
      <4>2. j < i => g.at < f.at
        BY <1>3, <3>1, <3>3
      <4> QED BY <1>6, <3>2, <4>1, <4>2
    <3>5. i = j
      BY <1>1, <3>4
    <3> QED BY <1>2, <1>6, <3>1, <3>3, <3>5
  <2>2. CASE ~\E i \in 1 .. N : f \in fields(i)
    <3>1. f.at = 1 \/ f.at = 3
      BY <1>5, <2>2
    <3>2. ~\E i \in 1 .. N : g \in fields(i)
      BY <1>4, <1>6, <3>1
    <3> QED BY <1>5, <1>6, <2>2, <3>2
  <2> QED BY <2>1, <2>2
<1>7. LeafImage(leaf) = Image(LeafFields(leaf))
  BY DEF LeafImage, LeafFields
<1> QED BY <1>6, <1>7, ImageAt

(* What DeserializeLeaf finds at the positions of an entry.                *)
LEMMA EntryRead ==
  ASSUME NEW leaf \in Seq(Entries),
         \A i \in DOMAIN leaf : Len(leaf[i].values) <= BT_MAX_VALUES
  PROVE  LET page == LeafImage(leaf)
         IN  /\ page[1] = Len(leaf)
             /\ \A i \in DOMAIN leaf :
                  LET at == EntryOffset(leaf, i)
                  IN  /\ page[at] = leaf[i].key
                      /\ page[at + 4] = Len(leaf[i].values)
                      /\ \A j \in 1 .. Len(leaf[i].values) :
                           page[at + 6 + 4 * (j - 1)] = leaf[i].values[j]
<1> DEFINE page == LeafImage(leaf)
<1>1. \A f \in LeafFields(leaf) : page[f.at] = f.value
  BY LeafFieldPlaces
<1> HIDE DEF page
<1>2. ASSUME NEW at, NEW value, Field(at, value) \in LeafFields(leaf)
      PROVE  page[at] = value
  <2>1. Field(at, value).at = at /\ Field(at, value).value = value
    BY DEF Field
  <2> QED BY <1>1, <1>2, <2>1
<1>3. page[1] = Len(leaf)
  <2>1. Field(1, Len(leaf)) \in LeafFields(leaf)
    BY DEF LeafFields
  <2> QED BY <1>2, <2>1
<1>4. ASSUME NEW i \in DOMAIN leaf
      PROVE  LET at == EntryOffset(leaf, i)
             IN  /\ page[at] = leaf[i].key
                 /\ page[at + 4] = Len(leaf[i].values)
                 /\ \A j \in 1 .. Len(leaf[i].values) :
                      page[at + 6 + 4 * (j - 1)] = leaf[i].values[j]
  <2> DEFINE at == EntryOffset(leaf, i)
  <2>1. EntryFields(leaf[i], at) \subseteq LeafFields(leaf)
    BY DEF LeafFields
  <2> HIDE DEF at
  <2>2. Field(at, leaf[i].key) \in EntryFields(leaf[i], at)
    BY DEF EntryFields
  <2>3. Field(at + 4, Len(leaf[i].values)) \in EntryFields(leaf[i], at)
    BY DEF EntryFields
  <2>4. ASSUME NEW j \in 1 .. Len(leaf[i].values)
        PROVE  Field(at + 6 + 4 * (j - 1), leaf[i].values[j])
                 \in EntryFields(leaf[i], at)
    BY DEF EntryFields
  <2> QED BY <1>2, <2>1, <2>2, <2>3, <2>4 DEF at
<1> QED BY <1>3, <1>4 DEF page

-----------------------------------------------------------------------------
(* A leaf that fits is accepted and read back as it was written.           *)
LEMMA RoundTrip ==
  ASSUME NEW leaf, Writable(leaf)
  PROVE  DeserializeLeaf(LeafImage(leaf)) = [ok |-> TRUE, leaf |-> leaf]
<1> DEFINE page == LeafImage(leaf)
           N    == Len(leaf)
           w    == [i \in 1 .. page[1] |-> EntryOffset(leaf, i)]
           pos[i \in 1 .. page[1]] ==
             IF i = 1 THEN HeaderBytes
             ELSE pos[i - 1] + EntryBytes(page[pos[i - 1] + 4])
<1>1. /\ leaf \in Seq(Entries) /\ N \in Nat /\ DOMAIN leaf = 1 .. N
      /\ \A i \in 1 .. N : Len(leaf[i].values) <= BT_MAX_VALUES
  BY DEF Writable, Regular
<1>2. /\ page[1] = N
      /\ \A i \in 1 .. N :
           LET at == EntryOffset(leaf, i)
           IN  /\ page[at] = leaf[i].key
               /\ page[at + 4] = Len(leaf[i].values)
               /\ \A j \in 1 .. Len(leaf[i].values) :
                    page[at + 6 + 4 * (j - 1)] = leaf[i].values[j]
  BY <1>1, EntryRead
<1>3. /\ EntryOffset(leaf, 1) = HeaderBytes
      /\ \A i \in 1 .. N + 1 : EntryOffset(leaf, i) \in Nat
      /\ \A i \in 1 .. N : EntryOffset(leaf, i + 1) =
           EntryOffset(leaf, i) + EntryBytes(Len(leaf[i].values))
      /\ \A i, j \in 1 .. N + 1 :
           i <= j => EntryOffset(leaf, i) <= EntryOffset(leaf, j)
  BY <1>1, OffsetSteps
<1> HIDE DEF page, N
<1>4. w = [i \in 1 .. N |-> EntryOffset(leaf, i)]
  BY <1>2
(* The positions solve the equation that DeserializeLeaf's loop computes,  *)
(* and nothing else does.                                                  *)
<1>5. w = [i \in 1 .. page[1] |->
             IF i = 1 THEN HeaderBytes
             ELSE w[i - 1] + EntryBytes(page[w[i - 1] + 4])]
  <2>1. ASSUME NEW i \in 1 .. N
        PROVE  EntryOffset(leaf, i) =
                 IF i = 1 THEN HeaderBytes
                 ELSE w[i - 1] + EntryBytes(page[w[i - 1] + 4])
    <3>1. CASE i = 1
      BY <1>3, <3>1
    <3>2. CASE i # 1
      <4>1. i - 1 \in 1 .. N /\ (i - 1) + 1 = i
        BY <1>1, <3>2
      <4>2. w[i - 1] = EntryOffset(leaf, i - 1)
        BY <1>4, <4>1
      <4>3. page[w[i - 1] + 4] = Len(leaf[i - 1].values)
        BY <1>2, <4>1, <4>2
      <4>4. EntryOffset(leaf, i) = w[i - 1] + EntryBytes(page[w[i - 1] + 4])
        BY <1>3, <4>1, <4>2, <4>3
      <4> QED BY <3>2, <4>4
    <3> QED BY <3>1, <3>2
  <2> QED BY <1>2, <1>4, <2>1
<1>6. ASSUME NEW p,
             p = [i \in 1 .. page[1] |->
                    IF i = 1 THEN HeaderBytes
                    ELSE p[i - 1] + EntryBytes(page[p[i - 1] + 4])]
      PROVE  p = w
  <2> DEFINE T == {i \in 1 .. N : p[i] # w[i]}
  <2>1. CASE T # {}
    <3>1. PICK m \in T : \A i \in T : m <= i
      <4>1. T \subseteq Nat
        BY <1>1
      <4> QED BY <2>1, <4>1, LeastNatural
    <3>2. CASE m = 1
      BY <1>2, <1>5, <1>6, <3>1, <3>2
    <3>3. CASE m # 1
      <4>1. m - 1 \in 1 .. N /\ ~(m <= m - 1)
        BY <1>1, <3>1, <3>3
      <4>2. p[m - 1] = w[m - 1]
        BY <3>1, <4>1
      <4>3. p[m] = w[m]
        <5>1. m \in 1 .. page[1]
          BY <1>2, <3>1
        <5>2. p[m] = p[m - 1] + EntryBytes(page[p[m - 1] + 4])
          <6> HIDE DEF w, T
          <6> QED BY <1>6, <3>3, <5>1
        <5>3. w[m] = w[m - 1] + EntryBytes(page[w[m - 1] + 4])
          <6> HIDE DEF w, T
          <6> QED BY <1>5, <3>3, <5>1
        <5> QED BY <4>2, <5>2, <5>3
      <4> QED BY <3>1, <4>3
    <3> QED BY <3>2, <3>3
  <2>2. CASE T = {}
    <3>1. \A i \in 1 .. N : p[i] = w[i]
      BY <2>2
    <3>2. p = [i \in 1 .. N |-> p[i]]
      BY <1>2, <1>6
    <3>3. w = [i \in 1 .. N |-> w[i]]
      BY <1>4
    <3> QED BY <3>1, <3>2, <3>3
  <2> QED BY <2>1, <2>2
<1>7. pos = w
  <2> HIDE DEF w
  <2> QED BY <1>5, <1>6
<1> HIDE DEF pos
<1> DEFINE Accepted(at) == /\ at + 10 <= BT_PAGE_SIZE
                           /\ page[at + 4] <= BT_MAX_VALUES
                           /\ at + 6 + 4 * page[at + 4] + 4 <= BT_PAGE_SIZE
           Read(at) == Entry(page[at], [j \in 1 .. page[at + 4] |->
                                          page[at + 6 + 4 * (j - 1)]])
           ok == /\ page[1] <= BT_MAX_KEYS
                 /\ \A i \in 1 .. page[1] : Accepted(pos[i])
<1>8. ASSUME NEW i \in 1 .. N PROVE Accepted(pos[i])
  <2>1. PICK n \in Nat : n = Len(leaf[i].values)
    BY <1>1, EntryParts
  <2>2. PICK at \in Nat : at = EntryOffset(leaf, i)
    BY <1>1, <1>3
  <2>3. pos[i] = at /\ page[at + 4] = n /\ n <= BT_MAX_VALUES
    BY <1>1, <1>2, <1>4, <1>7, <2>1, <2>2
  <2>4. EntryOffset(leaf, i + 1) = at + (10 + 4 * n)
    BY <1>3, <2>1, <2>2 DEF EntryBytes
  <2>5. EntryOffset(leaf, N + 1) <= BT_PAGE_SIZE
    BY <1>1 DEF Writable, Regular, N
  <2>6. /\ i + 1 \in 1 .. N + 1 /\ N + 1 \in 1 .. N + 1 /\ i + 1 <= N + 1
    BY <1>1
  <2>7. PICK e \in Nat : e = EntryOffset(leaf, N + 1)
    BY <1>3, <2>6
  <2>8. at + (10 + 4 * n) <= e /\ e <= BT_PAGE_SIZE
    BY <1>3, <2>4, <2>5, <2>6, <2>7, Zenon
  <2>9. at + 10 <= BT_PAGE_SIZE /\ at + 6 + 4 * n + 4 <= BT_PAGE_SIZE
    BY <2>8, LeafLimitsAssumption
  <2> QED BY <2>3, <2>9, Zenon
<1>9. ASSUME NEW i \in 1 .. N PROVE Read(pos[i]) = leaf[i]
  <2> DEFINE at == EntryOffset(leaf, i)
             vs == leaf[i].values
  <2>1. pos[i] = at
    BY <1>4, <1>7
  <2>2. vs = [j \in 1 .. Len(vs) |-> vs[j]]
    <3>1. vs \in Seq(TreeValues)
      BY <1>1, EntryParts
    <3> HIDE DEF vs
    <3> QED BY <3>1
  <2>3. [j \in 1 .. page[at + 4] |-> page[at + 6 + 4 * (j - 1)]] = vs
    BY <1>2, <2>2
  <2>4. leaf[i] = Entry(leaf[i].key, vs)
    BY <1>1, EntryParts
  <2>5. page[at] = leaf[i].key
    BY <1>2
  <2> HIDE DEF at, vs
  <2> QED BY <2>1, <2>3, <2>4, <2>5
<1>10. ok
  BY <1>2, <1>8 DEF Writable, Regular, N
<1>11. [i \in 1 .. page[1] |-> Read(pos[i])] = leaf
  <2>1. leaf = [i \in 1 .. N |-> leaf[i]]
    BY <1>1
  <2> HIDE DEF Read
  <2> QED BY <1>2, <1>9, <2>1
<1>12. DeserializeLeaf(page) =
         [ok |-> ok,
          leaf |-> IF ok THEN [i \in 1 .. page[1] |-> Read(pos[i])] ELSE <<>>]
  BY DEF DeserializeLeaf, pos
<1> HIDE DEF ok, Read
<1> QED BY <1>10, <1>11, <1>12 DEF page

-----------------------------------------------------------------------------
(* The multimap a leaf in key order denotes.                               *)

(* In key order no key is there twice.                                     *)
LEMMA KeysDistinct ==
  ASSUME NEW leaf \in Seq(Entries), Sorted(leaf)
  PROVE  \A i, j \in DOMAIN leaf : leaf[i].key = leaf[j].key => i = j
<1> SUFFICES ASSUME NEW i \in DOMAIN leaf, NEW j \in DOMAIN leaf,
                    leaf[i].key = leaf[j].key
             PROVE  i = j
  OBVIOUS
<1>1. i \in Int /\ j \in Int /\ leaf[i].key \in Int
  BY EntryParts
<1>2. ~(i < j) /\ ~(j < i)
  BY <1>1 DEF Sorted
<1> QED BY <1>1, <1>2

(* Its keys are those of the entries, with their values, and nothing else. *)
LEMMA MapFacts ==
  ASSUME NEW leaf \in Seq(Entries), Sorted(leaf)
  PROVE  /\ DOMAIN MapOf(leaf) = Keys(leaf)
         /\ \A i \in DOMAIN leaf : /\ leaf[i].key \in Keys(leaf)
                                   /\ MapOf(leaf)[leaf[i].key] = leaf[i].values
<1>1. ASSUME NEW i \in DOMAIN leaf
      PROVE  /\ leaf[i].key \in Keys(leaf)
             /\ MapOf(leaf)[leaf[i].key] = leaf[i].values
  <2>1. leaf[i].key \in Keys(leaf)
    BY DEF Keys
  <2>2. PICK c : c = CHOOSE j \in DOMAIN leaf : leaf[j].key = leaf[i].key
    OBVIOUS
  <2>3. c \in DOMAIN leaf /\ leaf[c].key = leaf[i].key
    BY <2>2
  <2>4. c = i
    BY <2>3, KeysDistinct
  <2> QED BY <2>1, <2>2, <2>4 DEF MapOf
<1> QED BY <1>1 DEF MapOf

(* A function is that multimap if it has the entries' keys and values.     *)
LEMMA MapOfIs ==
  ASSUME NEW leaf \in Seq(Entries), Sorted(leaf),
         NEW m, m = [k \in DOMAIN m |-> m[k]],
         \A k : k \in DOMAIN m <=> \E i \in DOMAIN leaf : leaf[i].key = k,
         \A i \in DOMAIN leaf : m[leaf[i].key] = leaf[i].values
  PROVE  MapOf(leaf) = m
<1>1. DOMAIN m = Keys(leaf)
  BY DEF Keys
<1>2. ASSUME NEW k \in Keys(leaf) PROVE MapOf(leaf)[k] = m[k]
  <2>1. PICK i \in DOMAIN leaf : leaf[i].key = k
    BY DEF Keys
  <2> QED BY <2>1, MapFacts
<1>3. MapOf(leaf) = [k \in Keys(leaf) |-> MapOf(leaf)[k]]
  BY DEF MapOf
<1> QED BY <1>1, <1>2, <1>3

(* The bytes SerializeLeaf writes are those the multimap takes.            *)
LEMMA BytesOfMap ==
  ASSUME NEW leaf \in Seq(Entries), Sorted(leaf),
         \A i \in DOMAIN leaf : Len(leaf[i].values) <= BT_MAX_VALUES
  PROVE  /\ IsFiniteSet(DOMAIN MapOf(leaf))
         /\ Cardinality(DOMAIN MapOf(leaf)) = Len(leaf)
         /\ IsFiniteSet(Slots(MapOf(leaf)))
         /\ EntryOffset(leaf, Len(leaf) + 1) = LeafBytes(MapOf(leaf))
<1> DEFINE N == Len(leaf)
           K == Keys(leaf)
           lists == [j \in 1 .. N |-> leaf[j].values]
           g == [i \in 1 .. N |-> leaf[i].key]
           h == [p \in Slots(lists) |-> <<leaf[p[1]].key, p[2]>>]
<1>1. N \in Nat /\ DOMAIN leaf = 1 .. N
  OBVIOUS
<1>2. \A i, j \in 1 .. N : leaf[i].key = leaf[j].key => i = j
  BY <1>1, KeysDistinct
<1>3. /\ DOMAIN MapOf(leaf) = K
      /\ \A i \in 1 .. N : /\ leaf[i].key \in K
                           /\ MapOf(leaf)[leaf[i].key] = leaf[i].values
      /\ \A k \in K : \E i \in 1 .. N : leaf[i].key = k
  <2>1. \A k \in K : \E i \in 1 .. N : leaf[i].key = k
    BY <1>1 DEF Keys
  <2> QED BY <1>1, <2>1, MapFacts
<1> HIDE DEF N, K
<1>4. IsFiniteSet(K) /\ Cardinality(K) = N
  <2>1. g \in [1 .. N -> K]
    BY <1>3
  <2>2. \A i, j \in 1 .. N : g[i] = g[j] => i = j
    BY <1>2
  <2>3. \A k \in K : \E i \in 1 .. N : g[i] = k
    BY <1>3
  <2> HIDE DEF g
  <2>4. g \in Bijection(1 .. N, K)
    BY <2>1, <2>2, <2>3 DEF Bijection, Injection, Surjection, IsInjective
  <2>5. ExistsBijection(1 .. N, K)
    BY <2>4 DEF ExistsBijection
  <2>6. IsFiniteSet(1 .. N) /\ Cardinality(1 .. N) = N
    BY <1>1, FS_Interval
  <2> QED BY <2>5, <2>6, FS_Bijection
<1>5. DOMAIN lists = 1 .. N /\ \A j \in 1 .. N : lists[j] = leaf[j].values
  OBVIOUS
<1> HIDE DEF lists
<1>6. /\ IsFiniteSet(Slots(MapOf(leaf)))
      /\ Cardinality(Slots(lists)) \in Nat
      /\ Cardinality(Slots(MapOf(leaf))) = Cardinality(Slots(lists))
  <2>1. \A p : p \in Slots(lists) <=>
          \E i \in 1 .. N : \E j \in 1 .. Len(leaf[i].values) : p = <<i, j>>
    <3>1. \A p : p \in Slots(lists) <=>
            \E i \in DOMAIN lists : \E j \in 1 .. Len(lists[i]) : p = <<i, j>>
      BY InSlots
    <3>2. \A i \in 1 .. N : 1 .. Len(lists[i]) = 1 .. Len(leaf[i].values)
      BY <1>5
    <3> QED BY <1>5, <3>1, <3>2
  <2>2. \A p : p \in Slots(MapOf(leaf)) <=>
          \E i \in 1 .. N : \E j \in 1 .. Len(leaf[i].values) :
            p = <<leaf[i].key, j>>
    <3>1. \A p : p \in Slots(MapOf(leaf)) <=>
            \E k \in K : \E j \in 1 .. Len(MapOf(leaf)[k]) : p = <<k, j>>
      BY <1>3, InSlots
    <3> QED BY <1>3, <3>1
  <2>3. h \in [Slots(lists) -> Slots(MapOf(leaf))]
    BY <2>1, <2>2
  <2>4. ASSUME NEW p \in Slots(lists), NEW q \in Slots(lists), h[p] = h[q]
        PROVE  p = q
    <3>1. PICK i \in 1 .. N : \E j \in 1 .. Len(leaf[i].values) : p = <<i, j>>
      BY <2>1
    <3>2. PICK k \in 1 .. N : \E l \in 1 .. Len(leaf[k].values) : q = <<k, l>>
      BY <2>1
    <3>3. PICK j \in 1 .. Len(leaf[i].values) : p = <<i, j>>
      BY <3>1
    <3>4. PICK l \in 1 .. Len(leaf[k].values) : q = <<k, l>>
      BY <3>2
    <3>5. h[p] = <<leaf[i].key, j>> /\ h[q] = <<leaf[k].key, l>>
      BY <3>3, <3>4
    <3> QED BY <1>2, <2>4, <3>3, <3>4, <3>5
  <2>5. ASSUME NEW p \in Slots(MapOf(leaf))
        PROVE  \E q \in Slots(lists) : h[q] = p
    <3>1. PICK i \in 1 .. N :
            \E j \in 1 .. Len(leaf[i].values) : p = <<leaf[i].key, j>>
      BY <2>2
    <3>2. PICK j \in 1 .. Len(leaf[i].values) : p = <<leaf[i].key, j>>
      BY <3>1
    <3>3. <<i, j>> \in Slots(lists)
      BY <2>1
    <3> QED BY <3>2, <3>3
  <2> HIDE DEF h
  <2>6. h \in Bijection(Slots(lists), Slots(MapOf(leaf)))
    BY <2>3, <2>4, <2>5 DEF Bijection, Injection, Surjection, IsInjective
  <2>7. ExistsBijection(Slots(lists), Slots(MapOf(leaf)))
    BY <2>6 DEF ExistsBijection
  <2>8. IsFiniteSet(Slots(lists))
    <3>1. IsFiniteSet(DOMAIN lists)
      BY <1>1, <1>5, FS_Interval
    <3>2. \A j \in DOMAIN lists : /\ Len(lists[j]) \in Nat
                                  /\ Len(lists[j]) <= BT_MAX_VALUES
      BY <1>1, <1>5, EntryParts
    <3> QED BY <3>1, <3>2, SlotsFinite, LeafLimitsAssumption
  <2> QED BY <2>7, <2>8, FS_Bijection, FS_CardinalityType
<1>7. EntryOffset(leaf, N + 1) = 7 + 10 * N + 4 * Cardinality(Slots(lists))
  <2>1. (N + 1) - 1 = N
    BY <1>1
  <2>2. EntryOffset(leaf, N + 1) =
          HeaderBytes + EntryBytes(0) * N + 4 * Cardinality(Slots(lists))
    BY <2>1 DEF EntryOffset, lists
  <2> QED BY <1>1, <2>2 DEF HeaderBytes, EntryBytes
<1> QED BY <1>3, <1>4, <1>6, <1>7 DEF LeafBytes, N

-----------------------------------------------------------------------------
(* In a leaf in key order the search, which stops at the first key that is *)
(* not smaller, finds every key.                                           *)
LEMMA FindFacts ==
  ASSUME NEW leaf \in Seq(Entries), Sorted(leaf), NEW key \in Int
  PROVE  LET idx == FindEntryIndex(leaf, key)
         IN  /\ idx = 0 <=> key \notin Keys(leaf)
             /\ idx # 0 => idx \in DOMAIN leaf /\ leaf[idx].key = key
<1> DEFINE stops == {i \in DOMAIN leaf : leaf[i].key >= key}
           idx == FindEntryIndex(leaf, key)
<1>1. \A i \in DOMAIN leaf : i \in Nat /\ i # 0 /\ leaf[i].key \in Int
  BY EntryParts
<1>2. stops # {} => Min(stops) \in stops /\ \A i \in stops : Min(stops) <= i
  <2>1. stops \subseteq Nat
    BY <1>1
  <2> HIDE DEF stops
  <2> QED BY <2>1, LeastNatural
<1>3. idx = IF stops # {} /\ leaf[Min(stops)].key = key THEN Min(stops) ELSE 0
  BY DEF FindEntryIndex
<1> HIDE DEF idx
<1>4. idx # 0 => idx \in DOMAIN leaf /\ leaf[idx].key = key
  BY <1>2, <1>3
<1>5. ASSUME NEW i \in DOMAIN leaf, leaf[i].key = key PROVE idx # 0
  <2>1. i \in stops
    BY <1>1, <1>5
  <2>2. PICK m \in stops : m = Min(stops) /\ m <= i
    BY <1>2, <2>1
  <2>3. ~(m < i)
    <3>1. m < i => leaf[m].key < leaf[i].key
      BY DEF Sorted
    <3> QED BY <1>1, <1>5, <2>2, <3>1
  <2>4. m = i
    BY <1>1, <2>2, <2>3
  <2> QED BY <1>1, <1>3, <1>5, <2>1, <2>2, <2>4
<1> QED BY <1>4, <1>5 DEF Keys, idx

(* BTreeInsert's position for a new key: behind all smaller keys, before   *)
(* all larger ones.                                                        *)
LEMMA InsertPositionFacts ==
  ASSUME NEW leaf \in Seq(Entries), Sorted(leaf),
         NEW key \in Int, key \notin Keys(leaf)
  PROVE  LET pos == InsertPosition(leaf, key)
         IN  /\ pos \in 1 .. (Len(leaf) + 1)
             /\ \A i \in DOMAIN leaf :
                  IF i < pos THEN leaf[i].key < key ELSE leaf[i].key > key
<1> DEFINE larger == {i \in DOMAIN leaf : leaf[i].key > key}
           pos == InsertPosition(leaf, key)
<1>1. /\ DOMAIN leaf = 1 .. Len(leaf) /\ Len(leaf) \in Nat
      /\ \A i \in DOMAIN leaf :
           i \in Nat /\ leaf[i].key \in Int /\ leaf[i].key # key
  BY EntryParts DEF Keys
<1>2. larger # {} => /\ Min(larger) \in larger
                     /\ \A i \in larger : Min(larger) <= i
  <2>1. larger \subseteq Nat
    BY <1>1
  <2> HIDE DEF larger
  <2> QED BY <2>1, LeastNatural
<1>3. pos = IF larger = {} THEN Len(leaf) + 1 ELSE Min(larger)
  BY DEF InsertPosition
<1> HIDE DEF pos
<1>4. pos \in 1 .. (Len(leaf) + 1)
  BY <1>1, <1>2, <1>3
<1>5. ASSUME NEW i \in DOMAIN leaf
      PROVE  IF i < pos THEN leaf[i].key < key ELSE leaf[i].key > key
  <2>1. CASE i < pos
    <3>1. i \notin larger
      <4> HIDE DEF larger
      <4> QED BY <1>1, <1>2, <1>3, <1>4, <2>1
    <3> QED BY <1>1, <2>1, <3>1
  <2>2. CASE ~(i < pos)
    <3>1. larger # {} /\ pos \in larger
      BY <1>1, <1>2, <1>3, <2>2
    <3>2. pos = i \/ leaf[pos].key < leaf[i].key
      BY <1>1, <1>4, <2>2, <3>1 DEF Sorted
    <3> QED BY <1>1, <2>2, <3>1, <3>2
  <2> QED BY <2>1, <2>2
<1> QED BY <1>4, <1>5 DEF pos

-----------------------------------------------------------------------------
(* What the changes of a leaf's arrays do to the multimap it denotes.      *)

(* What every entry of a leaf that the calls make is like.                 *)
LEMMA EntryValues ==
  ASSUME NEW leaf, Regular(leaf), NEW i \in DOMAIN leaf
  PROVE  /\ leaf[i].key \in TreeKeys /\ leaf[i].key \in Int
         /\ leaf[i].values \in Seq(TreeValues)
         /\ leaf[i].values # <<>> /\ IsInjective(leaf[i].values)
         /\ Len(leaf[i].values) <= BT_MAX_VALUES
  BY EntryParts DEF Regular, WellFormed

(* BTreeInsert of a new key: the others keep their place in the order.     *)
LEMMA NewEntryEffect ==
  ASSUME NEW leaf, Regular(leaf), Len(leaf) < BT_MAX_KEYS,
         NEW key \in TreeKeys, key \notin Keys(leaf), NEW value \in TreeValues
  PROVE  LET r == WithNewEntry(leaf, key, value)
         IN  /\ Regular(r) /\ r # <<>>
             /\ MapOf(r) = WithEntry(MapOf(leaf), key, <<value>>)
<1> DEFINE N == Len(leaf)
           e == Entry(key, <<value>>)
           pos == InsertPosition(leaf, key)
           r == InsertAt(leaf, pos, e)
           m == WithEntry(MapOf(leaf), key, <<value>>)
<1>1. /\ leaf \in Seq(Entries) /\ Sorted(leaf) /\ key \in Int
      /\ N \in Nat /\ DOMAIN leaf = 1 .. N
  BY TreeAssumption DEF Regular, WellFormed
<1>2. e \in Entries /\ e.key = key /\ e.values = <<value>>
  <2>1. <<value>> \in Seq(TreeValues)
    OBVIOUS
  <2> QED BY <2>1 DEF Entries, Entry
<1>3. /\ pos \in 1 .. (N + 1)
      /\ \A i \in 1 .. N :
           IF i < pos THEN leaf[i].key < key ELSE leaf[i].key > key
  BY <1>1, InsertPositionFacts
<1> HIDE DEF pos, e
<1>4. /\ r \in Seq(Entries) /\ Len(r) = N + 1 /\ r[pos] = e
      /\ \A i \in 1 .. N : r[IF i < pos THEN i ELSE i + 1] = leaf[i]
  <2>1. leaf \in Seq(Entries) /\ pos \in 1 .. (Len(leaf) + 1) /\ e \in Entries
    BY <1>1, <1>2, <1>3
  <2> QED BY <2>1, InsertAtEffect
<1> HIDE DEF r, N
<1>5. DOMAIN r = 1 .. (N + 1)
  BY <1>4
<1>6. ASSUME NEW j \in 1 .. (N + 1)
      PROVE  \/ j = pos /\ r[j] = e
             \/ j < pos /\ j \in 1 .. N /\ r[j] = leaf[j]
             \/ j > pos /\ j - 1 \in 1 .. N /\ ~(j - 1 < pos)
                /\ r[j] = leaf[j - 1]
  <2>1. CASE j = pos
    BY <1>4, <2>1
  <2>2. CASE j < pos
    <3>1. j \in 1 .. N
      BY <1>1, <1>3, <2>2
    <3> QED BY <1>4, <2>2, <3>1
  <2>3. CASE j > pos
    <3>1. j - 1 \in 1 .. N /\ ~(j - 1 < pos) /\ (j - 1) + 1 = j
      BY <1>1, <1>3, <2>3
    <3> QED BY <1>4, <2>3, <3>1
  <2> QED BY <1>1, <1>3, <2>1, <2>2, <2>3
<1>7. Sorted(r)
  <2> SUFFICES ASSUME NEW j \in 1 .. (N + 1), NEW k \in 1 .. (N + 1), j < k
               PROVE  r[j].key < r[k].key
    BY <1>5 DEF Sorted
  <2>1. \A i \in 1 .. N : leaf[i].key \in Int
    BY <1>1, EntryParts
  <2>2. CASE j = pos
    <3>1. k > pos /\ k - 1 \in 1 .. N /\ ~(k - 1 < pos) /\ r[k] = leaf[k - 1]
      BY <1>3, <1>6, <2>2
    <3> QED BY <1>1, <1>2, <1>3, <1>4, <2>1, <2>2, <3>1
  <2>3. CASE k = pos
    <3>1. j < pos /\ j \in 1 .. N /\ r[j] = leaf[j]
      BY <1>3, <1>6, <2>3
    <3> QED BY <1>1, <1>2, <1>3, <1>4, <2>1, <2>3, <3>1
  <2>4. CASE j # pos /\ k # pos
    <3>1. PICK i \in 1 .. N : r[j] = leaf[i] /\ i = IF j < pos THEN j ELSE j - 1
      BY <1>1, <1>3, <1>6, <2>4
    <3>2. PICK l \in 1 .. N : r[k] = leaf[l] /\ l = IF k < pos THEN k ELSE k - 1
      BY <1>1, <1>3, <1>6, <2>4
    <3>3. i < l
      BY <1>1, <1>3, <2>4, <3>1, <3>2
    <3> QED BY <1>1, <3>1, <3>2, <3>3 DEF Sorted
  <2> QED BY <2>2, <2>3, <2>4
<1>8. \A j \in 1 .. (N + 1) : r[j] = e \/ \E i \in 1 .. N : r[j] = leaf[i]
  BY <1>6
<1>9. ASSUME NEW j \in 1 .. (N + 1)
      PROVE  /\ r[j].values # <<>> /\ IsInjective(r[j].values)
             /\ Len(r[j].values) <= BT_MAX_VALUES
  <2>1. CASE r[j] = e
    <3>1. <<value>> # <<>> /\ IsInjective(<<value>>) /\ Len(<<value>>) = 1
      BY DEF IsInjective
    <3>2. 1 <= BT_MAX_VALUES
      BY LeafLimitsAssumption
    <3> QED BY <1>2, <2>1, <3>1, <3>2
  <2>2. CASE \E i \in 1 .. N : r[j] = leaf[i]
    BY <1>1, <2>2, EntryValues
  <2> QED BY <1>8, <2>1, <2>2
<1>10. Regular(r)
  <2>1. Len(r) <= BT_MAX_KEYS
    BY <1>1, <1>4, LeafLimitsAssumption DEF N
  <2> QED BY <1>4, <1>5, <1>7, <1>9, <2>1 DEF Regular, WellFormed
<1>11. r # <<>>
  BY <1>1, <1>4
<1>12. MapOf(r) = m
  <2>1. /\ DOMAIN m = Keys(leaf) \cup {key} /\ m[key] = <<value>>
        /\ \A k \in Keys(leaf) : k # key => m[k] = MapOf(leaf)[k]
        /\ m = [k \in DOMAIN m |-> m[k]]
    BY <1>1, MapFacts DEF WithEntry
  <2> HIDE DEF m
  <2>2. \A i \in 1 .. N : /\ leaf[i].key \in Keys(leaf)
                          /\ MapOf(leaf)[leaf[i].key] = leaf[i].values
    BY <1>1, MapFacts
  <2>3. ASSUME NEW j \in DOMAIN r
        PROVE  r[j].key \in DOMAIN m /\ m[r[j].key] = r[j].values
    <3>1. CASE r[j] = e
      BY <1>2, <2>1, <3>1
    <3>2. CASE \E i \in 1 .. N : r[j] = leaf[i]
      BY <2>1, <2>2, <3>2
    <3> QED BY <1>5, <1>8, <3>1, <3>2
  <2>4. ASSUME NEW k \in DOMAIN m PROVE \E j \in DOMAIN r : r[j].key = k
    <3>1. CASE k = key
      BY <1>2, <1>3, <1>4, <1>5, <3>1
    <3>2. CASE k \in Keys(leaf)
      <4>1. PICK i \in 1 .. N : leaf[i].key = k
        BY <1>1, <3>2 DEF Keys
      <4>2. (IF i < pos THEN i ELSE i + 1) \in 1 .. (N + 1)
        BY <1>1
      <4> QED BY <1>4, <1>5, <4>1, <4>2
    <3> QED BY <2>1, <3>1, <3>2
  <2>5. \A k : k \in DOMAIN m <=> \E j \in DOMAIN r : r[j].key = k
    BY <2>3, <2>4
  <2>6. \A j \in DOMAIN r : m[r[j].key] = r[j].values
    BY <2>3
  <2>7. r \in Seq(Entries)
    BY <1>4
  <2> QED BY <1>7, <2>1, <2>5, <2>6, <2>7, MapOfIs
<1> QED BY <1>10, <1>11, <1>12 DEF WithNewEntry, r, pos, e

(* An entry gets another list of values.                                   *)
LEMMA NewValuesEffect ==
  ASSUME NEW leaf, Regular(leaf), NEW idx \in DOMAIN leaf,
         NEW values \in Seq(TreeValues), values # <<>>, IsInjective(values),
         Len(values) <= BT_MAX_VALUES
  PROVE  LET r == [leaf EXCEPT ![idx] = Entry(leaf[idx].key, values)]
         IN  /\ Regular(r) /\ r # <<>>
             /\ MapOf(r) = WithEntry(MapOf(leaf), leaf[idx].key, values)
<1> DEFINE key == leaf[idx].key
           e == Entry(key, values)
           r == [leaf EXCEPT ![idx] = e]
           m == WithEntry(MapOf(leaf), key, values)
<1>1. /\ leaf \in Seq(Entries) /\ Sorted(leaf) /\ Len(leaf) <= BT_MAX_KEYS
      /\ key \in TreeKeys
  BY EntryValues DEF Regular, WellFormed
<1>2. e \in Entries /\ e.key = key /\ e.values = values
  BY <1>1 DEF Entries, Entry
<1> HIDE DEF e
<1>3. /\ r \in Seq(Entries) /\ Len(r) = Len(leaf) /\ DOMAIN r = DOMAIN leaf
      /\ \A i \in DOMAIN leaf : r[i] = IF i = idx THEN e ELSE leaf[i]
  BY <1>1, <1>2
<1> HIDE DEF r
<1>4. \A i \in DOMAIN leaf :
        /\ r[i].key = leaf[i].key
        /\ r[i].values = IF i = idx THEN values ELSE leaf[i].values
  BY <1>2, <1>3
<1>5. Sorted(r)
  BY <1>1, <1>3, <1>4 DEF Sorted
<1>6. ASSUME NEW i \in DOMAIN leaf
      PROVE  /\ r[i].values # <<>> /\ IsInjective(r[i].values)
             /\ Len(r[i].values) <= BT_MAX_VALUES
  BY <1>4, EntryValues
<1>7. Regular(r)
  BY <1>1, <1>3, <1>5, <1>6 DEF Regular, WellFormed
<1>8. r # <<>>
  BY <1>1, <1>3
<1>9. MapOf(r) = m
  <2>1. /\ DOMAIN MapOf(leaf) = Keys(leaf) /\ key \in Keys(leaf)
        /\ \A i \in DOMAIN leaf :
             leaf[i].key \in Keys(leaf) /\ MapOf(leaf)[leaf[i].key] = leaf[i].values
    BY <1>1, MapFacts
  <2>2. /\ DOMAIN m = Keys(leaf) /\ m[key] = values
        /\ \A k \in Keys(leaf) : k # key => m[k] = MapOf(leaf)[k]
        /\ m = [k \in DOMAIN m |-> m[k]]
    BY <2>1 DEF WithEntry
  <2> HIDE DEF m
  <2>3. \A k : k \in DOMAIN m <=> \E i \in DOMAIN r : r[i].key = k
    <3>1. \A k : k \in Keys(leaf) <=> \E i \in DOMAIN leaf : leaf[i].key = k
      BY DEF Keys
    <3>2. \A k : (\E i \in DOMAIN leaf : leaf[i].key = k) <=>
                 (\E i \in DOMAIN r : r[i].key = k)
      BY <1>3, <1>4, Zenon
    <3> QED BY <2>2, <3>1, <3>2, Zenon
  <2>4. ASSUME NEW i \in DOMAIN r PROVE m[r[i].key] = r[i].values
    <3>1. CASE i = idx
      BY <1>3, <1>4, <2>2, <3>1
    <3>2. CASE i # idx
      <4>1. leaf[i].key # key
        BY <1>1, <1>3, <3>2, KeysDistinct
      <4> QED BY <1>3, <1>4, <2>1, <2>2, <3>2, <4>1
    <3> QED BY <3>1, <3>2
  <2>5. \A i \in DOMAIN r : m[r[i].key] = r[i].values
    BY <2>4
  <2>6. r \in Seq(Entries)
    BY <1>3
  <2> QED BY <1>5, <2>2, <2>3, <2>5, <2>6, MapOfIs
<1> QED BY <1>7, <1>8, <1>9 DEF r, e

(* A value that is not in a list yet is added to it.                       *)
LEMMA AppendStaysInjective ==
  ASSUME NEW S, NEW s \in Seq(S), IsInjective(s), NEW v \in S, ~Contains(s, v)
  PROVE  LET t == Append(s, v)
         IN  /\ t \in Seq(S) /\ Len(t) = Len(s) + 1
             /\ t # <<>> /\ IsInjective(t)
<1> DEFINE t == Append(s, v)
<1>1. /\ t \in Seq(S) /\ Len(t) = Len(s) + 1 /\ Len(s) \in Nat
      /\ DOMAIN t = 1 .. (Len(s) + 1)
      /\ \A i \in 1 .. Len(s) : t[i] = s[i]
      /\ t[Len(s) + 1] = v
  OBVIOUS
<1>2. \A i \in 1 .. Len(s) : s[i] # v
  BY DEF Contains
<1>3. DOMAIN s = 1 .. Len(s)
  OBVIOUS
<1> HIDE DEF t
<1>4. \A i \in DOMAIN t : i \in 1 .. Len(s) \/ i = Len(s) + 1
  BY <1>1
<1>5. IsInjective(t)
  <2>1. \A i, j \in 1 .. Len(s) : s[i] = s[j] => i = j
    BY <1>3 DEF IsInjective
  <2> QED BY <1>1, <1>2, <1>4, <2>1 DEF IsInjective
<1>6. t # <<>>
  BY <1>1
<1> QED BY <1>1, <1>5, <1>6 DEF t

(* A value is removed from a list without repetitions.                     *)
LEMMA RemoveAtStaysInjective ==
  ASSUME NEW S, NEW s \in Seq(S), IsInjective(s), NEW n \in 1 .. Len(s)
  PROVE  LET r == RemoveAt(s, n)
         IN  r \in Seq(S) /\ Len(r) = Len(s) - 1 /\ IsInjective(r)
<1> DEFINE r == RemoveAt(s, n)
<1>1. /\ r \in Seq(S) /\ Len(r) = Len(s) - 1
      /\ \A i \in 1 .. (Len(s) - 1) : r[i] = IF i < n THEN s[i] ELSE s[i + 1]
  BY RemoveAtEffect
<1> HIDE DEF r
<1>2. DOMAIN r = 1 .. (Len(s) - 1) /\ Len(s) \in Nat /\ n \in Int
      /\ DOMAIN s = 1 .. Len(s)
  BY <1>1
<1>3. ASSUME NEW i \in 1 .. (Len(s) - 1), NEW j \in 1 .. (Len(s) - 1),
             r[i] = r[j]
      PROVE  i = j
  <2>1. PICK a \in 1 .. Len(s) : a = IF i < n THEN i ELSE i + 1
    BY <1>2
  <2>2. PICK b \in 1 .. Len(s) : b = IF j < n THEN j ELSE j + 1
    BY <1>2
  <2>3. s[a] = s[b]
    BY <1>1, <1>3, <2>1, <2>2
  <2>4. a = b
    BY <1>2, <2>3 DEF IsInjective
  <2> QED BY <1>2, <2>1, <2>2, <2>4
<1> QED BY <1>1, <1>2, <1>3 DEF IsInjective, r

(* BTreeInsert of a new value under a key that is there.                   *)
LEMMA ValueAddedEffect ==
  ASSUME NEW leaf, Regular(leaf), NEW idx \in DOMAIN leaf,
         NEW value \in TreeValues, ~Contains(leaf[idx].values, value),
         Len(leaf[idx].values) < BT_MAX_VALUES
  PROVE  LET r == WithValueAdded(leaf, idx, value)
         IN  /\ Regular(r) /\ r # <<>>
             /\ MapOf(r) = WithEntry(MapOf(leaf), leaf[idx].key,
                                     Append(leaf[idx].values, value))
<1> DEFINE values == leaf[idx].values
           t == Append(values, value)
<1>1. /\ values \in Seq(TreeValues) /\ IsInjective(values)
      /\ Len(values) \in Nat /\ ~Contains(values, value)
  BY EntryValues
<1>2. /\ t \in Seq(TreeValues) /\ Len(t) = Len(values) + 1
      /\ t # <<>> /\ IsInjective(t)
  <2> HIDE DEF values
  <2> QED BY <1>1, AppendStaysInjective
<1>3. WithValueAdded(leaf, idx, value) =
        [leaf EXCEPT ![idx] = Entry(leaf[idx].key, t)]
  BY DEF WithValueAdded
<1>4. Len(t) <= BT_MAX_VALUES
  BY <1>1, <1>2, LeafLimitsAssumption
<1> HIDE DEF t
<1>5. LET r == [leaf EXCEPT ![idx] = Entry(leaf[idx].key, t)]
      IN  /\ Regular(r) /\ r # <<>>
          /\ MapOf(r) = WithEntry(MapOf(leaf), leaf[idx].key, t)
  BY <1>2, <1>4, NewValuesEffect
<1> QED BY <1>3, <1>5 DEF t

(* BTreeDelete: the entries behind the removed one keep their order.       *)
LEMMA WithoutEntryEffect ==
  ASSUME NEW leaf, Regular(leaf), NEW idx \in DOMAIN leaf
  PROVE  LET r == WithoutEntry(leaf, idx)
         IN  /\ Regular(r)
             /\ MapOf(r) = WithoutKey(MapOf(leaf), leaf[idx].key)
<1> DEFINE N == Len(leaf)
           key == leaf[idx].key
           r == RemoveAt(leaf, idx)
           m == WithoutKey(MapOf(leaf), key)
           g(i) == IF i < idx THEN i ELSE i + 1
<1>1. /\ leaf \in Seq(Entries) /\ Sorted(leaf) /\ Len(leaf) <= BT_MAX_KEYS
      /\ N \in Nat /\ DOMAIN leaf = 1 .. N /\ idx \in 1 .. N
  BY DEF Regular, WellFormed
<1>2. /\ r \in Seq(Entries) /\ Len(r) = N - 1
      /\ \A i \in 1 .. (N - 1) : r[i] = leaf[g(i)]
  BY <1>1, RemoveAtEffect
<1> HIDE DEF r, N
<1>3. DOMAIN r = 1 .. (N - 1)
  BY <1>1, <1>2
<1>4. \A i \in 1 .. (N - 1) : g(i) \in 1 .. N /\ g(i) # idx
  BY <1>1
<1>5. \A i, j \in 1 .. (N - 1) : i < j => g(i) < g(j)
  BY <1>1
<1>6. ASSUME NEW j \in 1 .. N, j # idx
      PROVE  \E i \in 1 .. (N - 1) : g(i) = j
  <2>1. CASE j < idx
    <3>1. j \in 1 .. (N - 1) /\ g(j) = j
      BY <1>1, <2>1
    <3> QED BY <3>1
  <2>2. CASE j > idx
    <3>1. j - 1 \in 1 .. (N - 1) /\ g(j - 1) = j
      BY <1>1, <2>2
    <3> QED BY <3>1
  <2> QED BY <1>1, <1>6, <2>1, <2>2
<1> HIDE DEF g
<1>7. Sorted(r)
  BY <1>1, <1>2, <1>3, <1>4, <1>5 DEF Sorted
<1>8. ASSUME NEW i \in 1 .. (N - 1)
      PROVE  /\ r[i].values # <<>> /\ IsInjective(r[i].values)
             /\ Len(r[i].values) <= BT_MAX_VALUES
  BY <1>1, <1>2, <1>4, EntryValues
<1>9. Regular(r)
  <2>1. Len(r) <= BT_MAX_KEYS
    BY <1>1, <1>2, LeafLimitsAssumption DEF N
  <2> QED BY <1>2, <1>3, <1>7, <1>8, <2>1 DEF Regular, WellFormed
<1>10. MapOf(r) = m
  <2>1. /\ DOMAIN MapOf(leaf) = Keys(leaf)
        /\ \A i \in 1 .. N : /\ leaf[i].key \in Keys(leaf)
                             /\ MapOf(leaf)[leaf[i].key] = leaf[i].values
        /\ \A k \in Keys(leaf) : \E i \in 1 .. N : leaf[i].key = k
    <3>1. \A k \in Keys(leaf) : \E i \in 1 .. N : leaf[i].key = k
      BY <1>1 DEF Keys
    <3> QED BY <1>1, <3>1, MapFacts
  <2>2. /\ DOMAIN m = Keys(leaf) \ {key}
        /\ \A k \in Keys(leaf) : k # key => m[k] = MapOf(leaf)[k]
        /\ m = [k \in DOMAIN m |-> m[k]]
    BY <2>1 DEF WithoutKey
  <2> HIDE DEF m
  <2>3. \A i \in 1 .. (N - 1) : leaf[g(i)].key # key
    BY <1>1, <1>4, KeysDistinct
  <2>4. ASSUME NEW k \in DOMAIN m PROVE \E i \in DOMAIN r : r[i].key = k
    <3>1. PICK j \in 1 .. N : leaf[j].key = k /\ j # idx
      BY <2>1, <2>2
    <3>2. PICK i \in 1 .. (N - 1) : g(i) = j
      BY <1>6, <3>1
    <3> QED BY <1>2, <1>3, <3>1, <3>2
  <2>5. ASSUME NEW i \in DOMAIN r
        PROVE  r[i].key \in DOMAIN m /\ m[r[i].key] = r[i].values
    BY <1>2, <1>3, <1>4, <2>1, <2>2, <2>3
  <2>6. \A k : k \in DOMAIN m <=> \E i \in DOMAIN r : r[i].key = k
    BY <2>4, <2>5
  <2>7. \A i \in DOMAIN r : m[r[i].key] = r[i].values
    BY <2>5
  <2>8. r \in Seq(Entries)
    BY <1>2
  <2> QED BY <1>7, <2>2, <2>6, <2>7, <2>8, MapOfIs
<1> QED BY <1>9, <1>10 DEF WithoutEntry, r

(* BTreeDeleteValue: an entry that loses its last value goes.              *)
LEMMA WithoutValueEffect ==
  ASSUME NEW leaf, Regular(leaf), NEW idx \in DOMAIN leaf,
         NEW value, Contains(leaf[idx].values, value)
  PROVE  LET r == WithoutValue(leaf, idx, value)
         IN  /\ Regular(r)
             /\ MapOf(r) = LeafDeleteValue(MapOf(leaf), leaf[idx].key, value)
             /\ DOMAIN MapOf(r) \subseteq DOMAIN MapOf(leaf)
             /\ \A k \in DOMAIN MapOf(r) :
                  \/ MapOf(r)[k] = MapOf(leaf)[k]
                  \/ /\ k = leaf[idx].key
                     /\ Len(MapOf(r)[k]) \in Nat
                     /\ Len(MapOf(r)[k]) <= Len(MapOf(leaf)[k])
<1> DEFINE key == leaf[idx].key
           values == leaf[idx].values
           at == CHOOSE j \in DOMAIN values : values[j] = value
           rest == RemoveAt(values, at)
<1>1. /\ values \in Seq(TreeValues) /\ IsInjective(values)
      /\ Len(values) \in Nat /\ DOMAIN values = 1 .. Len(values)
      /\ Len(values) <= BT_MAX_VALUES
  BY EntryValues
<1>2. at \in 1 .. Len(values) /\ values[at] = value
  <2>1. \E j \in DOMAIN values : values[j] = value
    BY <1>1 DEF Contains
  <2> HIDE DEF values
  <2> QED BY <1>1, <2>1
<1>3. RemoveFirst(values, value) = rest
  <2>1. Distinct(values)
    BY <1>1 DEF Distinct, IsInjective
  <2> HIDE DEF values, at
  <2> QED BY <1>1, <1>2, <2>1, RemoveFirstIsRemoveAt
<1>4. /\ rest \in Seq(TreeValues) /\ Len(rest) = Len(values) - 1
      /\ IsInjective(rest)
  <2> HIDE DEF values, at
  <2> QED BY <1>1, <1>2, RemoveAtStaysInjective
<1>5. key \in DOMAIN MapOf(leaf) /\ MapOf(leaf)[key] = values
  BY MapFacts DEF Regular, WellFormed
<1>6. LeafDeleteValue(MapOf(leaf), key, value) =
        IF rest = <<>> THEN WithoutKey(MapOf(leaf), key)
                       ELSE WithEntry(MapOf(leaf), key, rest)
  <2>1. LeafHolds(MapOf(leaf), key, value)
    BY <1>5 DEF LeafHolds
  <2> HIDE DEF rest, key, values
  <2> QED BY <1>3, <1>5, <2>1 DEF LeafDeleteValue
<1>7. WithoutValue(leaf, idx, value) =
        IF Len(values) = 1 THEN WithoutEntry(leaf, idx)
        ELSE [leaf EXCEPT ![idx] = Entry(key, rest)]
  BY DEF WithoutValue
<1> HIDE DEF rest
<1>8. Len(values) = 1 <=> rest = <<>>
  <2> HIDE DEF values
  <2>1. rest = <<>> <=> Len(rest) = 0
    BY <1>4, EmptySeq, Zenon
  <2> QED BY <1>1, <1>4, <2>1
<1>9. CASE rest = <<>>
  <2> DEFINE r == WithoutValue(leaf, idx, value)
  <2>1. Regular(r) /\ MapOf(r) = WithoutKey(MapOf(leaf), key)
    BY <1>7, <1>8, <1>9, WithoutEntryEffect
  <2> HIDE DEF r
  <2>2. /\ DOMAIN MapOf(r) \subseteq DOMAIN MapOf(leaf)
        /\ \A k \in DOMAIN MapOf(r) : MapOf(r)[k] = MapOf(leaf)[k]
    BY <2>1 DEF WithoutKey
  <2> QED BY <1>6, <1>9, <2>1, <2>2 DEF r
<1>10. CASE rest # <<>>
  <2>1. Len(rest) <= BT_MAX_VALUES
    <3> HIDE DEF values
    <3> QED BY <1>1, <1>4, LeafLimitsAssumption
  <2> DEFINE r == [leaf EXCEPT ![idx] = Entry(leaf[idx].key, rest)]
  <2>2. Regular(r) /\ MapOf(r) = WithEntry(MapOf(leaf), key, rest)
    BY <1>4, <1>10, <2>1, NewValuesEffect
  <2>3. WithoutValue(leaf, idx, value) = r
    BY <1>7, <1>8, <1>10
  <2> HIDE DEF r
  <2>4. Len(rest) \in Nat /\ Len(rest) <= Len(values)
    <3> HIDE DEF values
    <3> QED BY <1>1, <1>4
  <2>5. /\ DOMAIN MapOf(r) \subseteq DOMAIN MapOf(leaf)
        /\ \A k \in DOMAIN MapOf(r) :
             IF k = key THEN MapOf(r)[k] = rest
                        ELSE MapOf(r)[k] = MapOf(leaf)[k]
    <3> HIDE DEF key
    <3> QED BY <1>5, <2>2 DEF WithEntry
  <2>6. \A k \in DOMAIN MapOf(r) :
          \/ MapOf(r)[k] = MapOf(leaf)[k]
          \/ /\ k = key
             /\ Len(MapOf(r)[k]) \in Nat
             /\ Len(MapOf(r)[k]) <= Len(MapOf(leaf)[k])
    <3> HIDE DEF key, values
    <3> QED BY <1>5, <2>4, <2>5
  <2> QED BY <1>6, <1>10, <2>2, <2>3, <2>5, <2>6
<1> QED BY <1>9, <1>10

-----------------------------------------------------------------------------
(* What fits in the page.                                                  *)

(* SerializeLeaf succeeds exactly when the multimap of the leaf fits.      *)
LEMMA FitsFacts ==
  ASSUME NEW leaf, Regular(leaf)
  PROVE  /\ SerializeLeaf(leaf) # 0 <=> Fits(MapOf(leaf))
         /\ Fits(MapOf(leaf)) => Writable(leaf)
         /\ Writable(leaf) /\ leaf # <<>> => Fits(MapOf(leaf))
<1>1. /\ leaf \in Seq(Entries) /\ Sorted(leaf) /\ Len(leaf) \in Nat
      /\ \A i \in DOMAIN leaf : Len(leaf[i].values) <= BT_MAX_VALUES
  BY DEF Regular, WellFormed
<1>2. 1 \in 1 .. Len(leaf) + 1 /\ Len(leaf) + 1 \in 1 .. Len(leaf) + 1
      /\ 1 <= Len(leaf) + 1
  BY <1>1
<1>3. PICK e \in Nat : e = EntryOffset(leaf, Len(leaf) + 1) /\ e >= 7
  BY <1>1, <1>2, OffsetSteps DEF HeaderBytes
<1>4. e = LeafBytes(MapOf(leaf))
  BY <1>1, <1>3, BytesOfMap
<1>5. SerializeLeaf(leaf) = IF e <= BT_PAGE_SIZE THEN e ELSE 0
  BY <1>3 DEF SerializeLeaf
<1>6. e # 0
  BY <1>3
<1> QED BY <1>3, <1>4, <1>5, <1>6 DEF Fits, Writable

(* A leaf that has lost an entry or a value takes no more bytes.           *)
LEMMA SmallerFits ==
  ASSUME NEW leaf, Regular(leaf), NEW small,
         DOMAIN small \subseteq DOMAIN MapOf(leaf),
         \A k \in DOMAIN small :
           /\ Len(small[k]) \in Nat /\ Len(MapOf(leaf)[k]) \in Nat
           /\ Len(small[k]) <= Len(MapOf(leaf)[k]),
         Fits(MapOf(leaf))
  PROVE  Fits(small)
<1> DEFINE m == MapOf(leaf)
<1>1. IsFiniteSet(DOMAIN m) /\ IsFiniteSet(Slots(m))
  BY BytesOfMap DEF Regular, WellFormed
<1>2. DOMAIN small \in SUBSET DOMAIN m
  OBVIOUS
<1>3. Slots(small) \in SUBSET Slots(m)
  <2>1. ASSUME NEW k \in DOMAIN small, NEW i \in 1 .. Len(small[k])
        PROVE  k \in DOMAIN m /\ i \in 1 .. Len(m[k])
    OBVIOUS
  <2>2. \A p : p \in Slots(small) <=>
          \E k \in DOMAIN small : \E i \in 1 .. Len(small[k]) : p = <<k, i>>
    BY InSlots
  <2>3. \A p : p \in Slots(m) <=>
          \E k \in DOMAIN m : \E i \in 1 .. Len(m[k]) : p = <<k, i>>
    BY InSlots
  <2> HIDE DEF m
  <2> QED BY <2>1, <2>2, <2>3
<1> HIDE DEF m
<1>4. /\ Cardinality(DOMAIN small) \in Nat /\ Cardinality(DOMAIN m) \in Nat
      /\ Cardinality(DOMAIN small) <= Cardinality(DOMAIN m)
  BY <1>1, <1>2, FS_Subset, FS_CardinalityType
<1>5. /\ Cardinality(Slots(small)) \in Nat /\ Cardinality(Slots(m)) \in Nat
      /\ Cardinality(Slots(small)) <= Cardinality(Slots(m))
  BY <1>1, <1>3, FS_Subset, FS_CardinalityType
<1>6. LeafBytes(m) <= BT_PAGE_SIZE
  BY DEF Fits, m
<1> QED BY <1>4, <1>5, <1>6, LeafLimitsAssumption DEF Fits, LeafBytes

-----------------------------------------------------------------------------
(* The inductive invariant: the file is the image of a leaf that was       *)
(* written, and `map` is what that leaf denotes.                           *)

FileOf(leaf) ==
  [page \in {0, 1} |-> IF page = 0 THEN NewHeader ELSE LeafImage(leaf)]

Holds(leaf) == Writable(leaf) /\ file = FileOf(leaf) /\ map = MapOf(leaf)

Results == [ok : BOOLEAN, values : BoundedSeq(TreeValues, BT_MAX_VALUES)]

NoFile == [page \in {} |-> NewHeader]

IInv ==
  /\ tree \in [is_open : BOOLEAN, header : {NewHeader}]
  /\ returned \in Results
  /\ IF Exists THEN Holds(StoredLeaf.leaf)
               ELSE ~tree.is_open /\ file = NoFile /\ map = EmptyLeaf

(* The two pages of a file, and what writing one of them gives.            *)
LEMMA FileOfFacts ==
  ASSUME NEW leaf
  PROVE  /\ DOMAIN FileOf(leaf) = {0, 1} /\ DOMAIN FileOf(leaf) # {}
         /\ FileOf(leaf)[0] = NewHeader /\ FileOf(leaf)[1] = LeafImage(leaf)
         /\ \A other : FileOf(other) = [FileOf(leaf) EXCEPT ![1] = LeafImage(other)]
         /\ FileOf(leaf) = [FileOf(leaf) EXCEPT ![0] = NewHeader]
  BY DEF FileOf

(* What is stored can be read.                                             *)
LEMMA Readable ==
  ASSUME NEW leaf, Holds(leaf)
  PROVE  Exists /\ StoredLeaf = [ok |-> TRUE, leaf |-> leaf]
<1>1. Exists
  BY FileOfFacts DEF Holds, Exists
<1>2. file[1] = LeafImage(leaf) /\ Writable(leaf)
  BY FileOfFacts DEF Holds
<1> QED BY <1>1, <1>2, RoundTrip DEF StoredLeaf

HoldsIsStored == \A leaf : Holds(leaf) => Exists /\ Holds(StoredLeaf.leaf)

(* The leaf that is written is the one that is stored.                     *)
LEMMA HoldsStored == HoldsIsStored
<1> SUFFICES ASSUME NEW leaf, Holds(leaf)
             PROVE  Exists /\ Holds(StoredLeaf.leaf)
  BY DEF HoldsIsStored
<1>1. StoredLeaf.leaf = leaf /\ Exists
  BY Readable
<1> QED BY <1>1

(* The tree a call works on.                                               *)
LEMMA OpenTree ==
  ASSUME IInv, tree.is_open
  PROVE  \E leaf : /\ Holds(leaf) /\ Regular(leaf)
                   /\ ReadRootLeaf = [ok |-> TRUE, leaf |-> leaf]
<1>1. tree.header = NewHeader /\ Exists /\ Holds(StoredLeaf.leaf)
  BY DEF IInv
<1>2. PICK leaf : leaf = StoredLeaf.leaf
  OBVIOUS
<1>3. Holds(leaf) /\ StoredLeaf = [ok |-> TRUE, leaf |-> leaf]
  BY <1>1, <1>2, Readable
<1>4. ReadRootLeaf = StoredLeaf
  BY <1>1 DEF ReadRootLeaf, StoredLeaf, NewHeader
<1> QED BY <1>3, <1>4 DEF Holds, Writable

(* What a call finds under a key.                                          *)
LEMMA Found ==
  ASSUME NEW leaf, Holds(leaf), NEW key \in TreeKeys
  PROVE  LET idx == FindEntryIndex(leaf, key)
         IN  /\ idx = 0 <=> key \notin DOMAIN map
             /\ idx = 0 => key \notin Keys(leaf)
             /\ idx # 0 => /\ idx \in DOMAIN leaf /\ leaf[idx].key = key
                           /\ map[key] = leaf[idx].values
<1> DEFINE idx == FindEntryIndex(leaf, key)
<1>1. /\ leaf \in Seq(Entries) /\ Sorted(leaf) /\ key \in Int
      /\ map = MapOf(leaf)
  BY TreeAssumption DEF Holds, Writable, Regular, WellFormed
<1>2. /\ idx = 0 <=> key \notin Keys(leaf)
      /\ idx # 0 => idx \in DOMAIN leaf /\ leaf[idx].key = key
  BY <1>1, FindFacts
<1> HIDE DEF idx
<1>3. /\ DOMAIN map = Keys(leaf)
      /\ \A i \in DOMAIN leaf : map[leaf[i].key] = leaf[i].values
  BY <1>1, MapFacts
<1> QED BY <1>2, <1>3 DEF idx

(* What a call leaves: the tree as it was, or another leaf in the page.    *)
LEMMA NotWritten ==
  ASSUME IInv, NEW ok \in BOOLEAN,
         NEW values \in BoundedSeq(TreeValues, BT_MAX_VALUES),
         Unwritten(ok, values), UNCHANGED tree
  PROVE  /\ IInv' /\ Exists' = Exists
         /\ map' = map /\ returned' = [ok |-> ok, values |-> values]
<1>1. /\ UNCHANGED <<file, map, tree>>
      /\ returned' = [ok |-> ok, values |-> values]
  BY DEF Unwritten, FileKept, Returns
<1>2. returned' \in Results
  BY <1>1 DEF Results
<1>3. StoredLeaf' = StoredLeaf /\ Exists' = Exists
  BY <1>1 DEF StoredLeaf, Exists
<1>4. PICK leaf : leaf = StoredLeaf.leaf
  OBVIOUS
<1>5. Holds(leaf)' <=> Holds(leaf)
  BY <1>1 DEF Holds
<1>6. IInv'
  BY <1>1, <1>2, <1>3, <1>4, <1>5 DEF IInv
<1> QED BY <1>1, <1>3, <1>6

(* A call may return no values.                                            *)
LEMMA NoValues == <<>> \in BoundedSeq(TreeValues, BT_MAX_VALUES)
<1>1. <<>> \in [1 .. 0 -> TreeValues] /\ 0 \in 0 .. BT_MAX_VALUES
  BY LeafLimitsAssumption
<1> QED BY <1>1 DEF BoundedSeq, SeqOf

(* A leaf written to the page is what the file holds afterwards.           *)
LEMMA Stored ==
  ASSUME IInv, NEW leaf, Writable(leaf), Store(FileOf(leaf)),
         tree' \in [is_open : BOOLEAN, header : {NewHeader}],
         returned' \in Results
  PROVE  IInv' /\ map' = MapOf(leaf) /\ Exists'
<1>1. /\ file' = FileOf(leaf)
      /\ map' = MapOf(DeserializeLeaf(LeafImage(leaf)).leaf)
  BY FileOfFacts DEF Store
<1>2. DeserializeLeaf(LeafImage(leaf)) = [ok |-> TRUE, leaf |-> leaf]
  BY RoundTrip
<1>3. map' = MapOf(leaf)
  BY <1>1, <1>2
<1>4. Holds(leaf)'
  BY <1>1, <1>3 DEF Holds
<1>5. HoldsIsStored'
  BY HoldsStored, PTL
<1>6. Exists' /\ Holds(StoredLeaf.leaf)'
  BY <1>4, <1>5 DEF HoldsIsStored
<1> QED BY <1>3, <1>6 DEF IInv

(* A changed leaf is written if its multimap fits; else nothing changes.   *)
LEMMA Written ==
  ASSUME IInv, NEW leaf, Holds(leaf), NEW changed, Regular(changed),
         WriteRootLeaf(changed), UNCHANGED tree
  PROVE  /\ IInv' /\ Exists'
         /\ Fits(MapOf(changed)) =>
              map' = MapOf(changed) /\ returned' = [ok |-> TRUE, values |-> <<>>]
         /\ ~Fits(MapOf(changed)) =>
              map' = map /\ returned' = [ok |-> FALSE, values |-> <<>>]
<1>1. /\ tree.header.root_page = 1 /\ file = FileOf(leaf) /\ Exists
      /\ tree' \in [is_open : BOOLEAN, header : {NewHeader}]
  <2>1. tree.header = NewHeader /\ tree' = tree
    BY DEF IInv
  <2> QED BY <2>1, Readable DEF NewHeader, Holds, IInv
<1>2. SerializeLeaf(changed) # 0 <=> Fits(MapOf(changed))
  BY FitsFacts
<1>3. CASE Fits(MapOf(changed))
  <2>1. Store(FileOf(changed)) /\ Returns(TRUE, <<>>)
    <3>1. [file EXCEPT ![tree.header.root_page] = LeafImage(changed)] =
            FileOf(changed)
      BY <1>1, FileOfFacts
    <3>2. /\ Store([file EXCEPT ![tree.header.root_page] = LeafImage(changed)])
          /\ Returns(SerializeLeaf(changed) # 0, <<>>)
      BY <1>2, <1>3, Zenon DEF WriteRootLeaf
    <3>3. (SerializeLeaf(changed) # 0) = TRUE
      BY <1>2, <1>3
    <3> QED BY <3>1, <3>2, <3>3
  <2>2. returned' = [ok |-> TRUE, values |-> <<>>] /\ returned' \in Results
    BY <2>1, NoValues DEF Returns, Results
  <2>3. Writable(changed)
    BY <1>3, FitsFacts
  <2> QED BY <1>1, <1>3, <2>1, <2>2, <2>3, Stored
<1>4. CASE ~Fits(MapOf(changed))
  <2>1. Unwritten(FALSE, <<>>)
    BY <1>2, <1>4 DEF WriteRootLeaf, Unwritten
  <2>2. /\ IInv' /\ map' = map
        /\ returned' = [ok |-> FALSE, values |-> <<>>]
    BY <2>1, NoValues, NotWritten
  <2>3. Exists'
    BY <1>1, <2>1 DEF Unwritten, FileKept, Exists
  <2> QED BY <1>4, <2>2, <2>3
<1> QED BY <1>3, <1>4

-----------------------------------------------------------------------------
(* The operators of the multimap mean the same in its instance.            *)
LEMMA SameOperators ==
  /\ \A l, k, v : Map!LeafInsert(l, k, v) = LeafInsert(l, k, v)
  /\ \A l, k, v : Map!LeafDeleteValue(l, k, v) = LeafDeleteValue(l, k, v)
  /\ \A l, k, n : Map!LeafFind(l, k, n) = LeafFind(l, k, n)
  /\ \A l, k, v : Map!LeafHolds(l, k, v) <=> LeafHolds(l, k, v)
  /\ \A l, k : Map!WithoutKey(l, k) = WithoutKey(l, k)
  /\ Map!EmptyLeaf = EmptyLeaf
<1>1. \A l, k, vs : Map!WithEntry(l, k, vs) = WithEntry(l, k, vs)
  BY DEF Map!WithEntry, WithEntry
<1>2. \A l, k : Map!WithoutKey(l, k) = WithoutKey(l, k)
  BY DEF Map!WithoutKey, WithoutKey
<1>3. \A s, e : Map!Contains(s, e) <=> Contains(s, e)
  BY DEF Map!Contains, Contains
<1>4. \A S : Map!Cardinality(S) = Cardinality(S)
  BY DEF Map!Cardinality, Cardinality
<1>5. \A l : Map!Fits(l) <=> Fits(l)
  BY <1>4 DEF Map!Fits, Fits, Map!LeafBytes, LeafBytes, Map!Slots, Slots
<1>6. \A S : Map!Min(S) = Min(S)
  BY DEF Map!Min, Min
<1>7. \A s, e : Map!RemoveFirst(s, e) = RemoveFirst(s, e)
  BY <1>6 DEF Map!RemoveFirst, RemoveFirst, Map!RemoveFirstMatch,
     RemoveFirstMatch, Map!SelectInSeq, SelectInSeq, Map!RemoveAt, RemoveAt
<1>8. \A l, k, v : Map!LeafHolds(l, k, v) <=> LeafHolds(l, k, v)
  BY <1>3 DEF Map!LeafHolds, LeafHolds
<1>9. ASSUME NEW l, NEW k, NEW v
      PROVE  Map!LeafInsert(l, k, v) = LeafInsert(l, k, v)
  <2> DEFINE values == IF k \in DOMAIN l THEN l[k] ELSE <<>>
             grown == WithEntry(l, k, Append(values, v))
             room == /\ IF k \in DOMAIN l THEN Len(values) < BT_MAX_VALUES
                        ELSE Cardinality(DOMAIN l) < BT_MAX_KEYS
                     /\ Fits(grown)
             mgrown == Map!WithEntry(l, k, Append(values, v))
             mroom == /\ IF k \in DOMAIN l THEN Len(values) < BT_MAX_VALUES
                         ELSE Map!Cardinality(DOMAIN l) < BT_MAX_KEYS
                      /\ Map!Fits(mgrown)
  <2>1. mgrown = grown
    BY <1>1
  <2>2. mroom <=> room
    <3> HIDE DEF grown, mgrown, values
    <3> QED BY <1>4, <1>5, <2>1
  <2>3. Map!Contains(values, v) <=> Contains(values, v)
    BY <1>3
  <2>4. LeafInsert(l, k, v) =
          CASE Contains(values, v) -> [ok |-> TRUE, leaf |-> l]
            [] ~Contains(values, v) /\ room -> [ok |-> TRUE, leaf |-> grown]
            [] ~Contains(values, v) /\ ~room -> [ok |-> FALSE, leaf |-> l]
    BY DEF LeafInsert
  <2>5. Map!LeafInsert(l, k, v) =
          CASE Map!Contains(values, v) -> [ok |-> TRUE, leaf |-> l]
            [] ~Map!Contains(values, v) /\ mroom -> [ok |-> TRUE, leaf |-> mgrown]
            [] ~Map!Contains(values, v) /\ ~mroom -> [ok |-> FALSE, leaf |-> l]
    BY DEF Map!LeafInsert
  <2> HIDE DEF values, grown, mgrown, room, mroom
  <2>6. CASE Contains(values, v)
    BY <2>3, <2>4, <2>5, <2>6
  <2>7. CASE ~Contains(values, v) /\ room
    BY <2>1, <2>2, <2>3, <2>4, <2>5, <2>7
  <2>8. CASE ~Contains(values, v) /\ ~room
    BY <2>2, <2>3, <2>4, <2>5, <2>8
  <2> QED BY <2>6, <2>7, <2>8
<1>10. \A l, k, v : Map!LeafDeleteValue(l, k, v) = LeafDeleteValue(l, k, v)
  BY <1>1, <1>2, <1>7, <1>8 DEF Map!LeafDeleteValue, LeafDeleteValue
<1>11. \A l, k, n : Map!LeafFind(l, k, n) = LeafFind(l, k, n)
  BY <1>6 DEF Map!LeafFind, LeafFind
<1>12. Map!EmptyLeaf = EmptyLeaf
  BY DEF Map!EmptyLeaf, EmptyLeaf
<1> QED BY <1>2, <1>8, <1>9, <1>10, <1>11, <1>12

-----------------------------------------------------------------------------
(* Each call keeps the invariant and is the call of the multimap.          *)

(* A call that finds the handle closed.                                    *)
LEMMA WhenClosed ==
  ASSUME IInv, ~tree.is_open, Unwritten(FALSE, <<>>), UNCHANGED tree
  PROVE  /\ IInv'
         /\ Map!Returns(FALSE, <<>>) /\ UNCHANGED map
         /\ UNCHANGED <<Exists, tree.is_open>>
<1>1. IInv' /\ map' = map /\ returned' = [ok |-> FALSE, values |-> <<>>]
  BY NoValues, NotWritten
<1>2. UNCHANGED <<Exists, tree.is_open>>
  BY DEF Unwritten, FileKept, Exists
<1> QED BY <1>1, <1>2 DEF Map!Returns, Map!Result

(* BTreeInsert is Insert: it refuses for the same limits, and accepts a    *)
(* value that is there already.                                            *)
LEMMA InsertStep ==
  ASSUME IInv, NEW key \in TreeKeys, NEW value \in TreeValues,
         BTreeInsert(key, value)
  PROVE  IInv' /\ Map!Insert(key, value)
<1>0. UNCHANGED tree
  BY DEF BTreeInsert, OnRootLeaf
<1>1. CASE ~tree.is_open
  <2>1. Unwritten(FALSE, <<>>)
    BY <1>1 DEF BTreeInsert, OnRootLeaf
  <2> QED BY <1>0, <1>1, <2>1, WhenClosed DEF Map!Insert, Map!WhenOpen
<1>2. CASE tree.is_open
  <2> DEFINE r == LeafInsert(map, key, value)
  <2>1. PICK leaf : /\ Holds(leaf) /\ Regular(leaf)
                    /\ ReadRootLeaf = [ok |-> TRUE, leaf |-> leaf]
    BY <1>2, OpenTree
  <2>2. PICK idx : idx = FindEntryIndex(leaf, key)
    OBVIOUS
  <2>3. IF idx # 0 THEN AddValue(leaf, idx, value) ELSE AddEntry(leaf, key, value)
    BY <1>2, <2>1, <2>2 DEF BTreeInsert, OnRootLeaf
  <2>4. /\ idx = 0 <=> key \notin DOMAIN map
        /\ idx = 0 => key \notin Keys(leaf)
        /\ idx # 0 => /\ idx \in DOMAIN leaf /\ leaf[idx].key = key
                      /\ map[key] = leaf[idx].values
    BY <2>1, <2>2, Found
  <2>5. map = MapOf(leaf) /\ Cardinality(DOMAIN map) = Len(leaf)
    BY <2>1, BytesOfMap DEF Holds, Regular, WellFormed
  <2>6. Exists
    BY <2>1, Readable
  <2> SUFFICES /\ IInv' /\ Exists'
               /\ map' = r.leaf /\ returned' = [ok |-> r.ok, values |-> <<>>]
    BY <1>0, <1>2, <2>6, SameOperators
    DEF Map!Insert, Map!WhenOpen, Map!Returns, Map!Result
  <2>7. CASE idx # 0
    <3> DEFINE values == leaf[idx].values
               grown == WithEntry(map, key, Append(values, value))
    <3>1. /\ key \in DOMAIN map /\ map[key] = values
          /\ AddValue(leaf, idx, value)
      BY <2>3, <2>4, <2>7
    <3>2. CASE Contains(values, value)
      <4>1. r = [ok |-> TRUE, leaf |-> map]
        BY <3>1, <3>2 DEF LeafInsert
      <4>2. Unwritten(TRUE, <<>>)
        BY <3>1, <3>2 DEF AddValue, Unwritten, Returns
      <4>3. /\ IInv' /\ Exists' = Exists
            /\ map' = map /\ returned' = [ok |-> TRUE, values |-> <<>>]
        BY <1>0, <4>2, NoValues, NotWritten
      <4> HIDE DEF r
      <4> QED BY <2>6, <4>1, <4>3
    <3>3. CASE ~Contains(values, value) /\ ~(Len(values) < BT_MAX_VALUES)
      <4>1. r = [ok |-> FALSE, leaf |-> map]
        BY <3>1, <3>3 DEF LeafInsert
      <4>2. Unwritten(FALSE, <<>>)
        <5>1. Len(values) >= BT_MAX_VALUES
          BY <2>1, <2>4, <2>7, <3>3, EntryValues, LeafLimitsAssumption
        <5> QED BY <3>1, <3>3, <5>1 DEF AddValue, Unwritten, Returns
      <4>3. /\ IInv' /\ Exists' = Exists
            /\ map' = map /\ returned' = [ok |-> FALSE, values |-> <<>>]
        BY <1>0, <4>2, NoValues, NotWritten
      <4> HIDE DEF r
      <4> QED BY <2>6, <4>1, <4>3
    <3>4. CASE ~Contains(values, value) /\ Len(values) < BT_MAX_VALUES
      <4> DEFINE changed == WithValueAdded(leaf, idx, value)
      <4>1. r = IF Fits(grown) THEN [ok |-> TRUE, leaf |-> grown]
                               ELSE [ok |-> FALSE, leaf |-> map]
        BY <3>1, <3>4 DEF LeafInsert
      <4>2. WriteRootLeaf(changed)
        <5>1. ~(Len(values) >= BT_MAX_VALUES)
          BY <2>1, <2>4, <2>7, <3>4, EntryValues, LeafLimitsAssumption
        <5> QED BY <3>1, <3>4, <5>1 DEF AddValue
      <4>3. Regular(changed) /\ MapOf(changed) = grown
        BY <2>1, <2>4, <2>5, <2>7, <3>4, ValueAddedEffect
      <4> HIDE DEF changed, grown, r
      <4> QED BY <1>0, <2>1, <4>1, <4>2, <4>3, Written
    <3> QED BY <3>2, <3>3, <3>4
  <2>8. CASE idx = 0
    <3> DEFINE grown == WithEntry(map, key, <<value>>)
    <3>1. /\ key \notin DOMAIN map /\ AddEntry(leaf, key, value)
          /\ ~Contains(<<>>, value) /\ Append(<<>>, value) = <<value>>
      BY <2>3, <2>4, <2>8 DEF Contains
    <3>2. Len(leaf) \in Nat
      BY <2>1 DEF Regular
    <3>3. CASE ~(Len(leaf) < BT_MAX_KEYS)
      <4>1. r = [ok |-> FALSE, leaf |-> map]
        BY <2>5, <3>1, <3>3 DEF LeafInsert
      <4>2. Unwritten(FALSE, <<>>)
        <5>1. Len(leaf) >= BT_MAX_KEYS
          BY <3>2, <3>3, LeafLimitsAssumption
        <5> QED BY <3>1, <5>1, Zenon DEF AddEntry
      <4>3. /\ IInv' /\ Exists' = Exists
            /\ map' = map /\ returned' = [ok |-> FALSE, values |-> <<>>]
        BY <1>0, <4>2, NoValues, NotWritten
      <4> HIDE DEF r
      <4> QED BY <2>6, <4>1, <4>3
    <3>4. CASE Len(leaf) < BT_MAX_KEYS
      <4> DEFINE changed == WithNewEntry(leaf, key, value)
      <4>1. r = IF Fits(grown) THEN [ok |-> TRUE, leaf |-> grown]
                               ELSE [ok |-> FALSE, leaf |-> map]
        BY <2>5, <3>1, <3>4 DEF LeafInsert
      <4>2. WriteRootLeaf(changed)
        <5>1. ~(Len(leaf) >= BT_MAX_KEYS)
          BY <3>2, <3>4, LeafLimitsAssumption
        <5> QED BY <3>1, <5>1, Zenon DEF AddEntry
      <4>3. Regular(changed) /\ MapOf(changed) = grown
        BY <2>1, <2>4, <2>5, <2>8, <3>4, NewEntryEffect
      <4> HIDE DEF changed, grown, r
      <4> QED BY <1>0, <2>1, <4>1, <4>2, <4>3, Written
    <3> QED BY <3>3, <3>4
  <2> QED BY <2>7, <2>8
<1> QED BY <1>1, <1>2

(* BTreeFind is Find: the oldest values, as many as the array has room for.*)
LEMMA FindStep ==
  ASSUME IInv, NEW key \in TreeKeys, NEW n \in FindLimits, BTreeFind(key, n)
  PROVE  IInv' /\ Map!Find(key, n)
<1>0. UNCHANGED tree
  BY DEF BTreeFind, OnRootLeaf
<1>1. CASE ~tree.is_open
  <2>1. Unwritten(FALSE, <<>>)
    BY <1>1 DEF BTreeFind, OnRootLeaf
  <2> QED BY <1>0, <1>1, <2>1, WhenClosed DEF Map!Find, Map!WhenOpen
<1>2. CASE tree.is_open
  <2>1. PICK leaf : /\ Holds(leaf) /\ Regular(leaf)
                    /\ ReadRootLeaf = [ok |-> TRUE, leaf |-> leaf]
    BY <1>2, OpenTree
  <2>2. PICK idx : idx = FindEntryIndex(leaf, key)
    OBVIOUS
  <2> DEFINE values == leaf[idx].values
             kept == SubSeq(values, 1, Min({Len(values), n}))
  <2>3. IF idx = 0 THEN Unwritten(FALSE, <<>>) ELSE Unwritten(TRUE, kept)
    BY <1>2, <2>1, <2>2 DEF BTreeFind, OnRootLeaf
  <2>4. /\ idx = 0 <=> key \notin DOMAIN map
        /\ idx # 0 => /\ idx \in DOMAIN leaf /\ leaf[idx].key = key
                      /\ map[key] = leaf[idx].values
    BY <2>1, <2>2, Found
  <2>5. Exists
    BY <2>1, Readable
  <2> SUFFICES /\ IInv' /\ Exists' /\ map' = map
               /\ returned' = [ok     |-> key \in DOMAIN map,
                               values |-> LeafFind(map, key, n)]
    BY <1>0, <1>2, <2>5, SameOperators
    DEF Map!Find, Map!WhenOpen, Map!Returns, Map!Result
  <2>6. CASE idx = 0
    <3>1. LeafFind(map, key, n) = <<>> /\ (key \in DOMAIN map) = FALSE
      BY <2>4, <2>6 DEF LeafFind
    <3>2. /\ IInv' /\ Exists' = Exists
          /\ map' = map /\ returned' = [ok |-> FALSE, values |-> <<>>]
      BY <1>0, <2>3, <2>6, NoValues, NotWritten
    <3> QED BY <2>5, <3>1, <3>2
  <2>7. CASE idx # 0
    <3>1. LeafFind(map, key, n) = kept /\ (key \in DOMAIN map) = TRUE
      <4>1. {n, Len(values)} = {Len(values), n}
        OBVIOUS
      <4>2. LeafFind(map, key, n) =
              SubSeq(map[key], 1, Min({n, Len(map[key])}))
        BY <2>4, <2>7 DEF LeafFind
      <4> QED BY <2>4, <2>7, <4>1, <4>2
    <3>2. kept \in BoundedSeq(TreeValues, BT_MAX_VALUES)
      <4>1. PICK m : m = Min({Len(values), n})
        OBVIOUS
      <4>2. /\ values \in Seq(TreeValues) /\ Len(values) <= BT_MAX_VALUES
            /\ Len(values) \in Nat /\ n \in Nat
        BY <2>1, <2>4, <2>7, EntryValues, TreeAssumption
      <4>3. m \in Nat /\ m <= Len(values)
        <5>1. {Len(values), n} \subseteq Nat /\ {Len(values), n} # {}
          BY <4>2
        <5> HIDE DEF values
        <5> QED BY <4>1, <4>2, <5>1, LeastNatural
      <4>4. m \in 0 .. BT_MAX_VALUES
        <5> HIDE DEF values
        <5> QED BY <4>2, <4>3, LeafLimitsAssumption
      <4>5. SubSeq(values, 1, m) \in [1 .. m -> TreeValues]
        <5>1. \A i \in 1 .. m : i \in 1 .. Len(values) /\ i \in 1 .. Len(values) + 1
                              /\ 1 + i - 1 = i
          <6> HIDE DEF values
          <6> QED BY <4>2, <4>3
        <5>2. \A i \in 1 .. m : values[i] \in TreeValues
          <6> HIDE DEF values
          <6> QED BY <4>2, <5>1
        <5>3. SubSeq(values, 1, m) = [i \in 1 .. m |-> values[i]]
          <6> HIDE DEF values
          <6> QED BY <4>2, <4>3
        <5> HIDE DEF values
        <5> QED BY <5>2, <5>3
      <4> QED BY <4>1, <4>4, <4>5 DEF BoundedSeq, SeqOf
    <3> HIDE DEF kept
    <3>3. /\ IInv' /\ Exists' = Exists
          /\ map' = map /\ returned' = [ok |-> TRUE, values |-> kept]
      BY <1>0, <2>3, <2>7, <3>2, NotWritten
    <3> QED BY <2>5, <3>1, <3>3
  <2> QED BY <2>6, <2>7
<1> QED BY <1>1, <1>2

(* Removing entries or values never fails for want of room.                *)
LEMMA WrittenSmaller ==
  ASSUME IInv, NEW leaf, Holds(leaf), NEW idx \in DOMAIN leaf,
         NEW changed, Regular(changed),
         DOMAIN MapOf(changed) \subseteq DOMAIN map,
         \A k \in DOMAIN MapOf(changed) :
           /\ Len(MapOf(changed)[k]) \in Nat /\ Len(map[k]) \in Nat
           /\ Len(MapOf(changed)[k]) <= Len(map[k]),
         WriteRootLeaf(changed), UNCHANGED tree
  PROVE  /\ IInv' /\ Exists'
         /\ map' = MapOf(changed) /\ returned' = [ok |-> TRUE, values |-> <<>>]
<1>1. /\ Regular(leaf) /\ Writable(leaf) /\ map = MapOf(leaf) /\ leaf # <<>>
  BY DEF Holds, Writable
<1>2. Fits(MapOf(leaf))
  BY <1>1, FitsFacts
<1>3. Fits(MapOf(changed))
  BY <1>1, <1>2, SmallerFits
<1> QED BY <1>3, Written

(* The values in the map are lists.                                        *)
LEMMA MapLists ==
  ASSUME NEW leaf, Holds(leaf), NEW k \in DOMAIN map
  PROVE  map[k] \in Seq(TreeValues) /\ Len(map[k]) \in Nat /\ map[k] # <<>>
         /\ IsInjective(map[k])
<1>1. /\ leaf \in Seq(Entries) /\ Sorted(leaf) /\ Regular(leaf)
      /\ map = MapOf(leaf)
  BY DEF Holds, Writable, Regular, WellFormed
<1>2. /\ DOMAIN map = Keys(leaf)
      /\ \A i \in DOMAIN leaf : map[leaf[i].key] = leaf[i].values
  BY <1>1, MapFacts
<1>3. PICK i \in DOMAIN leaf : leaf[i].key = k
  BY <1>2 DEF Keys
<1> QED BY <1>1, <1>2, <1>3, EntryValues

(* BTreeDelete is Delete: it always has room to write the smaller leaf.    *)
LEMMA DeleteStep ==
  ASSUME IInv, NEW key \in TreeKeys, BTreeDelete(key)
  PROVE  IInv' /\ Map!Delete(key)
<1>0. UNCHANGED tree
  BY DEF BTreeDelete, OnRootLeaf
<1>1. CASE ~tree.is_open
  <2>1. Unwritten(FALSE, <<>>)
    BY <1>1 DEF BTreeDelete, OnRootLeaf
  <2> QED BY <1>0, <1>1, <2>1, WhenClosed DEF Map!Delete, Map!WhenOpen
<1>2. CASE tree.is_open
  <2>1. PICK leaf : /\ Holds(leaf) /\ Regular(leaf)
                    /\ ReadRootLeaf = [ok |-> TRUE, leaf |-> leaf]
    BY <1>2, OpenTree
  <2>2. PICK idx : idx = FindEntryIndex(leaf, key)
    OBVIOUS
  <2>3. IF idx = 0 THEN Unwritten(FALSE, <<>>)
        ELSE WriteRootLeaf(WithoutEntry(leaf, idx))
    BY <1>2, <2>1, <2>2 DEF BTreeDelete, OnRootLeaf
  <2>4. /\ idx = 0 <=> key \notin DOMAIN map
        /\ idx # 0 => /\ idx \in DOMAIN leaf /\ leaf[idx].key = key
                      /\ map[key] = leaf[idx].values
    BY <2>1, <2>2, Found
  <2>5. Exists
    BY <2>1, Readable
  <2> SUFFICES /\ IInv' /\ Exists' /\ map' = WithoutKey(map, key)
               /\ returned' = [ok |-> key \in DOMAIN map, values |-> <<>>]
    BY <1>0, <1>2, <2>5, SameOperators
    DEF Map!Delete, Map!WhenOpen, Map!Returns, Map!Result
  <2>6. CASE idx = 0
    <3>1. WithoutKey(map, key) = map /\ (key \in DOMAIN map) = FALSE
      <4>1. map = [k \in DOMAIN map |-> map[k]]
        BY <2>1 DEF Holds, MapOf
      <4>2. DOMAIN map \ {key} = DOMAIN map
        BY <2>4, <2>6
      <4> QED BY <2>4, <2>6, <4>1, <4>2 DEF WithoutKey
    <3>2. /\ IInv' /\ Exists' = Exists
          /\ map' = map /\ returned' = [ok |-> FALSE, values |-> <<>>]
      BY <1>0, <2>3, <2>6, NoValues, NotWritten
    <3> QED BY <2>5, <3>1, <3>2
  <2>7. CASE idx # 0
    <3> DEFINE changed == WithoutEntry(leaf, idx)
    <3>1. Regular(changed) /\ MapOf(changed) = WithoutKey(map, key)
      BY <2>1, <2>4, <2>7, WithoutEntryEffect DEF Holds
    <3> HIDE DEF changed
    <3>2. /\ DOMAIN MapOf(changed) \subseteq DOMAIN map
          /\ \A k \in DOMAIN MapOf(changed) : MapOf(changed)[k] = map[k]
      BY <3>1 DEF WithoutKey
    <3>3. \A k \in DOMAIN MapOf(changed) :
            /\ Len(MapOf(changed)[k]) \in Nat /\ Len(map[k]) \in Nat
            /\ Len(MapOf(changed)[k]) <= Len(map[k])
      BY <2>1, <3>2, MapLists
    <3>4. WriteRootLeaf(changed)
      BY <2>3, <2>7 DEF changed
    <3>5. /\ IInv' /\ Exists' /\ map' = MapOf(changed)
          /\ returned' = [ok |-> TRUE, values |-> <<>>]
      BY <1>0, <2>1, <2>4, <2>7, <3>1, <3>2, <3>3, <3>4, WrittenSmaller
    <3> QED BY <2>4, <2>7, <3>1, <3>5
  <2> QED BY <2>6, <2>7
<1> QED BY <1>1, <1>2

(* BTreeDeleteValue is DeleteValue, the last value's entry included.       *)
LEMMA DeleteValueStep ==
  ASSUME IInv, NEW key \in TreeKeys, NEW value \in TreeValues,
         BTreeDeleteValue(key, value)
  PROVE  IInv' /\ Map!DeleteValue(key, value)
<1>0. UNCHANGED tree
  BY DEF BTreeDeleteValue, OnRootLeaf
<1>1. CASE ~tree.is_open
  <2>1. Unwritten(FALSE, <<>>)
    BY <1>1 DEF BTreeDeleteValue, OnRootLeaf
  <2> QED BY <1>0, <1>1, <2>1, WhenClosed DEF Map!DeleteValue, Map!WhenOpen
<1>2. CASE tree.is_open
  <2>1. PICK leaf : /\ Holds(leaf) /\ Regular(leaf)
                    /\ ReadRootLeaf = [ok |-> TRUE, leaf |-> leaf]
    BY <1>2, OpenTree
  <2>2. PICK idx : idx = FindEntryIndex(leaf, key)
    OBVIOUS
  <2>3. IF idx = 0 \/ ~Contains(leaf[idx].values, value)
        THEN Unwritten(FALSE, <<>>)
        ELSE WriteRootLeaf(WithoutValue(leaf, idx, value))
    BY <1>2, <2>1, <2>2 DEF BTreeDeleteValue, OnRootLeaf
  <2>4. /\ idx = 0 <=> key \notin DOMAIN map
        /\ idx # 0 => /\ idx \in DOMAIN leaf /\ leaf[idx].key = key
                      /\ map[key] = leaf[idx].values
    BY <2>1, <2>2, Found
  <2>5. Exists
    BY <2>1, Readable
  <2>6. LeafHolds(map, key, value) <=>
          ~(idx = 0 \/ ~Contains(leaf[idx].values, value))
    BY <2>4 DEF LeafHolds
  <2> SUFFICES /\ IInv' /\ Exists' /\ map' = LeafDeleteValue(map, key, value)
               /\ returned' = [ok     |-> LeafHolds(map, key, value),
                               values |-> <<>>]
    BY <1>0, <1>2, <2>5, SameOperators
    DEF Map!DeleteValue, Map!WhenOpen, Map!Returns, Map!Result
  <2>7. CASE ~LeafHolds(map, key, value)
    <3>1. LeafDeleteValue(map, key, value) = map
      BY <2>7 DEF LeafDeleteValue
    <3>2. /\ IInv' /\ Exists' = Exists
          /\ map' = map /\ returned' = [ok |-> FALSE, values |-> <<>>]
      BY <1>0, <2>3, <2>6, <2>7, NoValues, NotWritten
    <3>3. LeafHolds(map, key, value) = FALSE
      BY <2>7 DEF LeafHolds
    <3> QED BY <2>5, <3>1, <3>2, <3>3
  <2>8. CASE LeafHolds(map, key, value)
    <3> DEFINE changed == WithoutValue(leaf, idx, value)
    <3>1. /\ idx \in DOMAIN leaf /\ leaf[idx].key = key /\ key \in DOMAIN map
          /\ map[key] = leaf[idx].values /\ Contains(map[key], value)
      BY <2>4, <2>6, <2>8 DEF LeafHolds
    <3>2. /\ Regular(changed)
          /\ MapOf(changed) = LeafDeleteValue(map, key, value)
      BY <2>1, <3>1, WithoutValueEffect DEF Holds
    <3>3. WriteRootLeaf(changed)
      BY <2>3, <2>6, <2>8
    <3> HIDE DEF changed
    <3>4. /\ DOMAIN MapOf(changed) \subseteq DOMAIN map
          /\ \A k \in DOMAIN MapOf(changed) :
               /\ Len(MapOf(changed)[k]) \in Nat /\ Len(map[k]) \in Nat
               /\ Len(MapOf(changed)[k]) <= Len(map[k])
      <4>1. map = MapOf(leaf)
        BY <2>1 DEF Holds
      <4>2. \A k \in DOMAIN map : Len(map[k]) \in Nat /\ map[k] # <<>>
        BY <2>1, MapLists
      <4>3. /\ DOMAIN MapOf(changed) \subseteq DOMAIN map
            /\ \A k \in DOMAIN MapOf(changed) :
                 \/ MapOf(changed)[k] = map[k]
                 \/ /\ k = key
                    /\ Len(MapOf(changed)[k]) \in Nat
                    /\ Len(MapOf(changed)[k]) <= Len(map[k])
        BY <2>1, <3>1, <4>1, WithoutValueEffect DEF changed
      <4> QED BY <4>2, <4>3
    <3>5. /\ IInv' /\ Exists' /\ map' = MapOf(changed)
          /\ returned' = [ok |-> TRUE, values |-> <<>>]
      BY <1>0, <2>1, <3>1, <3>2, <3>3, <3>4, WrittenSmaller
    <3>6. LeafHolds(map, key, value) = TRUE
      BY <2>8 DEF LeafHolds
    <3> QED BY <3>2, <3>5, <3>6
  <2> QED BY <2>7, <2>8
<1> QED BY <1>1, <1>2

(* The leaf of a new file.                                                 *)
LEMMA EmptyWritable == Writable(<<>>) /\ MapOf(<<>>) = EmptyLeaf
<1>1. <<>> \in Seq(Entries) /\ Len(<<>>) = 0 /\ DOMAIN <<>> = {}
  OBVIOUS
<1>2. Writable(<<>>)
  BY <1>1, LeafLimitsAssumption DEF Writable, Regular, WellFormed, Sorted
<1>3. MapOf(<<>>) = EmptyLeaf
  BY <1>1 DEF MapOf, Keys, EmptyLeaf
<1> QED BY <1>2, <1>3

(* CreateBTree is Create: whatever the file held, it is empty now.         *)
LEMMA CreateStep == IInv /\ CreateBTree => IInv' /\ Map!Create
<1> SUFFICES ASSUME IInv, CreateBTree PROVE IInv' /\ Map!Create
  OBVIOUS
<1>1. /\ ~tree.is_open /\ Store(FileOf(<<>>)) /\ UNCHANGED tree
      /\ returned' = [ok |-> TRUE, values |-> <<>>]
  BY DEF CreateBTree, FileOf, Returns
<1>2. tree' \in [is_open : BOOLEAN, header : {NewHeader}] /\ returned' \in Results
  BY <1>1, NoValues DEF IInv, Results
<1>3. IInv' /\ map' = EmptyLeaf /\ Exists'
  BY <1>1, <1>2, EmptyWritable, Stored
<1> QED BY <1>1, <1>3, SameOperators DEF Map!Create, Map!Returns, Map!Result

(* OpenBTree is OpenMap: it opens exactly when the file was created.       *)
LEMMA OpenStep == IInv /\ OpenBTree => IInv' /\ Map!OpenMap
<1> SUFFICES ASSUME IInv, OpenBTree PROVE IInv' /\ Map!OpenMap
  OBVIOUS
<1>1. /\ ~tree.is_open /\ UNCHANGED <<file, map>>
      /\ tree.header = NewHeader
  BY DEF OpenBTree, FileKept, IInv
<1>2. StoredLeaf' = StoredLeaf /\ Exists' = Exists
  BY <1>1 DEF StoredLeaf, Exists
<1>3. PICK leaf : leaf = StoredLeaf.leaf
  OBVIOUS
<1>4. Holds(leaf)' <=> Holds(leaf)
  BY <1>1 DEF Holds
<1>5. CASE Exists
  <2>1. file = FileOf(leaf)
    BY <1>3, <1>5 DEF IInv, Holds
  <2>2. file[0] = NewHeader /\ file[0].magic = "BTRE"
    BY <2>1, FileOfFacts DEF NewHeader
  <2>3. /\ tree' = [is_open |-> TRUE, header |-> NewHeader]
        /\ returned' = [ok |-> TRUE, values |-> <<>>]
    BY <1>5, <2>2 DEF OpenBTree, Returns
  <2>4. IInv'
    BY <1>2, <1>3, <1>4, <1>5, <2>3, NoValues DEF IInv, Results
  <2>5. Exists = TRUE
    BY <1>5 DEF Exists
  <2> QED BY <1>1, <1>2, <2>3, <2>4, <2>5
      DEF Map!OpenMap, Map!Returns, Map!Result
<1>6. CASE ~Exists
  <2>1. /\ tree' = [is_open |-> FALSE, header |-> NewHeader]
        /\ returned' = [ok |-> FALSE, values |-> <<>>]
    BY <1>6 DEF OpenBTree, Returns, ClosedTree
  <2>2. IInv'
    BY <1>1, <1>2, <1>6, <2>1, NoValues DEF IInv, Results
  <2>3. Exists = FALSE
    BY <1>6 DEF Exists
  <2> QED BY <1>1, <1>2, <2>1, <2>2, <2>3
      DEF Map!OpenMap, Map!Returns, Map!Result
<1> QED BY <1>5, <1>6

(* The header goes back to page 0; the leaf is in its page already.        *)
LEMMA CloseStep == IInv /\ CloseBTree => IInv' /\ Map!CloseMap
<1> SUFFICES ASSUME IInv, CloseBTree PROVE IInv' /\ Map!CloseMap
  OBVIOUS
<1>1. /\ tree.is_open /\ tree.header = NewHeader /\ UNCHANGED returned
      /\ tree' = [is_open |-> FALSE, header |-> NewHeader]
      /\ Store([file EXCEPT ![0] = NewHeader])
  BY DEF CloseBTree, IInv, ClosedTree
<1>2. PICK leaf : Holds(leaf)
  BY <1>1, OpenTree
<1>3. [file EXCEPT ![0] = NewHeader] = FileOf(leaf) /\ Exists
  BY <1>2, FileOfFacts, Readable DEF Holds
<1>4. IInv' /\ map' = MapOf(leaf) /\ Exists'
  <2>1. /\ tree' \in [is_open : BOOLEAN, header : {NewHeader}]
        /\ returned' \in Results
    BY <1>1 DEF IInv
  <2> QED BY <1>1, <1>2, <1>3, <2>1, Stored DEF Holds
<1>5. map' = map /\ Exists' = Exists
  BY <1>2, <1>3, <1>4 DEF Holds, Exists
<1> QED BY <1>1, <1>4, <1>5 DEF Map!CloseMap

-----------------------------------------------------------------------------
(* Before the first call.                                                  *)
LEMMA InitInv == Init => IInv /\ Map!MapInit
<1> SUFFICES ASSUME Init PROVE IInv /\ Map!MapInit
  OBVIOUS
<1>1. file = NoFile /\ DOMAIN file = {} /\ Exists = FALSE
  BY DEF Init, NoFile, Exists
<1>2. IInv
  BY <1>1, NoValues DEF Init, IInv, ClosedTree, Results
<1> QED BY <1>1, <1>2, SameOperators DEF Init, ClosedTree, Map!MapInit, Map!Result

(* Every step keeps the invariant and is a step of the multimap, or none.  *)
LEMMA NextInv == IInv /\ [Next]_vars => IInv' /\ [Map!MapNext]_Map!mapVars
<1> SUFFICES ASSUME IInv, [Next]_vars
             PROVE  IInv' /\ [Map!MapNext]_Map!mapVars
  OBVIOUS
<1>1. CASE CreateBTree
  BY <1>1, CreateStep DEF Map!MapNext
<1>2. CASE OpenBTree
  BY <1>2, OpenStep DEF Map!MapNext
<1>3. CASE CloseBTree
  BY <1>3, CloseStep DEF Map!MapNext
<1>4. ASSUME NEW key \in TreeKeys, BTreeDelete(key)
      PROVE  IInv' /\ [Map!MapNext]_Map!mapVars
  BY <1>4, DeleteStep DEF Map!MapNext
<1>5. ASSUME NEW key \in TreeKeys, NEW n \in FindLimits, BTreeFind(key, n)
      PROVE  IInv' /\ [Map!MapNext]_Map!mapVars
  BY <1>5, FindStep DEF Map!MapNext
<1>6. ASSUME NEW key \in TreeKeys, NEW value \in TreeValues,
             BTreeInsert(key, value)
      PROVE  IInv' /\ [Map!MapNext]_Map!mapVars
  BY <1>6, InsertStep DEF Map!MapNext
<1>7. ASSUME NEW key \in TreeKeys, NEW value \in TreeValues,
             BTreeDeleteValue(key, value)
      PROVE  IInv' /\ [Map!MapNext]_Map!mapVars
  BY <1>7, DeleteValueStep DEF Map!MapNext
<1>8. CASE UNCHANGED vars
  <2>1. UNCHANGED <<file, tree, returned, map>>
    BY <1>8 DEF vars
  <2>2. StoredLeaf' = StoredLeaf /\ Exists' = Exists
    BY <2>1 DEF StoredLeaf, Exists
  <2>3. PICK leaf : leaf = StoredLeaf.leaf
    OBVIOUS
  <2>4. Holds(leaf)' <=> Holds(leaf)
    BY <2>1 DEF Holds
  <2>5. IInv'
    BY <2>1, <2>2, <2>3, <2>4 DEF IInv
  <2> QED BY <2>1, <2>2, <2>5 DEF Map!mapVars
<1> QED BY <1>1, <1>2, <1>3, <1>4, <1>5, <1>6, <1>7, <1>8 DEF Next

(* The file always holds the image of a leaf that is in order and fits,    *)
(* and `map` is what that leaf denotes.                                    *)
THEOREM Inductive == Spec => []IInv
BY InitInv, NextInv, PTL DEF Spec

(* What the invariant says of the file.                                    *)
LEMMA Meaning == IInv => TypeOK /\ AlwaysReadable /\ KeysInOrder
<1> SUFFICES ASSUME IInv PROVE TypeOK /\ AlwaysReadable /\ KeysInOrder
  OBVIOUS
<1>1. /\ tree.is_open \in BOOLEAN /\ returned.ok \in BOOLEAN
      /\ returned.values \in BoundedSeq(TreeValues, BT_MAX_VALUES)
      /\ tree.is_open => Exists
  BY DEF IInv, Results
<1>2. CASE Exists
  <2>1. PICK leaf : leaf = StoredLeaf.leaf /\ Holds(leaf)
    BY <1>2 DEF IInv
  <2>2. StoredLeaf = [ok |-> TRUE, leaf |-> leaf] /\ DOMAIN file = {0, 1}
    BY <2>1, Readable, FileOfFacts DEF Holds
  <2>3. WellFormed(leaf) /\ Regular(leaf)
    BY <2>1 DEF Holds, Writable, Regular
  <2>4. \A i \in DOMAIN leaf : /\ leaf[i].key \in TreeKeys
                               /\ leaf[i].values \in Seq(TreeValues)
    BY <2>3, EntryValues
  <2>5. Keys(leaf) \subseteq TreeKeys
    BY <2>4 DEF Keys
  <2>6. \A i \in DOMAIN leaf : ToSet(leaf[i].values) \subseteq TreeValues
    <3>1. \A s \in Seq(TreeValues) : ToSet(s) \subseteq TreeValues
      BY DEF ToSet
    <3> QED BY <2>4, <3>1
  <2> QED BY <1>1, <2>2, <2>3, <2>5, <2>6
      DEF TypeOK, AlwaysReadable, KeysInOrder
<1>3. CASE ~Exists
  <2>1. DOMAIN file = {}
    BY <1>3 DEF Exists
  <2> QED BY <1>1, <1>3, <2>1 DEF TypeOK, AlwaysReadable, KeysInOrder
<1> QED BY <1>2, <1>3

(* Type correctness, and whatever is in the page came in through an insert. *)
THEOREM BTreeTypeOK == Spec => []TypeOK
BY Inductive, Meaning, PTL

(* DeserializeLeaf accepts every leaf that SerializeLeaf has written: their *)
(* limits agree, byte for byte, for every page size.                       *)
THEOREM LeafAlwaysReadable == Spec => []AlwaysReadable
BY Inductive, Meaning, PTL

(* The shifting loops keep the keys in order, without gaps, repetitions or *)
(* empty entries, as FindEntryIndex needs.                                 *)
THEOREM LeafKeysInOrder == Spec => []KeysInOrder
BY Inductive, Meaning, PTL

(* The B-tree file implements the multimap: the page in bytes, written     *)
(* whole and read whole by every call, with its search in key order, shows *)
(* its user the same results, and the same limits, as the abstract map.    *)
THEOREM BTreeIsMultiMap == Spec => ImplementsMultiMap
<1>1. Spec => Map!MapSpec
  BY Inductive, InitInv, NextInv, PTL DEF Spec, Map!MapSpec
<1> QED BY <1>1 DEF ImplementsMultiMap
=============================================================================
