----------------------------- MODULE BTreeLeaf -----------------------------
(***************************************************************************)
(* The root leaf of a vDB B-tree as the code holds it: an array of entries *)
(* in key order, each with the array of its values, and its byte image in  *)
(* a page.  (LeafNode.entries[0 .. key_count - 1] is the sequence here, so *)
(* an index is one more than in the code, and 0 is its -1.)                *)
(***************************************************************************)
EXTENDS LeafMap

Entry(key, values) == [key |-> key, values |-> values]

Keys(leaf) == {leaf[i].key : i \in DOMAIN leaf}

-----------------------------------------------------------------------------
(* The search stops at the first key that is not smaller.                  *)
FindEntryIndex(leaf, key) ==
  LET stops == {i \in DOMAIN leaf : leaf[i].key >= key}
  IN  IF stops # {} /\ leaf[Min(stops)].key = key THEN Min(stops) ELSE 0

(* Mutant: a new entry goes to the end of the array.                       *)
InsertPosition_AtEnd(leaf, key) == Len(leaf) + 1

(* Where BTreeInsert puts a new entry: before the first larger key.        *)
InsertPosition(leaf, key) ==
  LET larger == {i \in DOMAIN leaf : leaf[i].key > key}
  IN  IF larger = {} THEN Len(leaf) + 1 ELSE Min(larger)

(* Mutant: key and value are exchanged.                                    *)
WithNewEntry_Exchanged(leaf, key, value) ==
  InsertAt(leaf, InsertPosition(leaf, key), Entry(value, <<key>>))

(* The entries from `pos` on are shifted up for the new one, ...           *)
WithNewEntry(leaf, key, value) ==
  InsertAt(leaf, InsertPosition(leaf, key), Entry(key, <<value>>))

WithValueAdded(leaf, idx, value) ==
  [leaf EXCEPT ![idx] = Entry(@.key, Append(@.values, value))]

(* ... and those behind a removed entry or value are shifted down.         *)
WithoutEntry(leaf, idx) == RemoveAt(leaf, idx)

(* Mutant: an entry that has lost its last value stays.                    *)
WithoutValue_KeepEmpty(leaf, idx, value) ==
  LET at == CHOOSE j \in DOMAIN leaf[idx].values :
              leaf[idx].values[j] = value
  IN  [leaf EXCEPT ![idx] = Entry(@.key, RemoveAt(@.values, at))]

(* Removing the last value removes the entry.                              *)
WithoutValue(leaf, idx, value) ==
  LET values == leaf[idx].values
      at     == CHOOSE j \in DOMAIN values : values[j] = value
  IN  IF Len(values) = 1 THEN WithoutEntry(leaf, idx)
      ELSE [leaf EXCEPT ![idx] = Entry(@.key, RemoveAt(@.values, at))]

(* The arrays are in order and without gaps or repetitions.  FindEntryIndex *)
(* relies on it: it would miss a key behind a larger one.                   *)
Sorted(leaf) ==
  \A i, j \in DOMAIN leaf : i < j => leaf[i].key < leaf[j].key

WellFormed(leaf) ==
  /\ Sorted(leaf)
  /\ \A i \in DOMAIN leaf :
       leaf[i].values # <<>> /\ IsInjective(leaf[i].values)

(* The multimap a leaf denotes.                                            *)
MapOf(leaf) ==
  [key \in Keys(leaf) |->
     leaf[CHOOSE i \in DOMAIN leaf : leaf[i].key = key].values]

-----------------------------------------------------------------------------
(* Byte images: a function from the offset of a field to its value, made   *)
(* of the fields written.                                                  *)
Field(at, value) == [at |-> at, value |-> value]

Image(fields) ==
  [at \in {f.at : f \in fields} |-> (CHOOSE f \in fields : f.at = at).value]

HeaderBytes == 7

(* Key, value_count, the values and overflow_page.                         *)
EntryBytes(count) == 4 + 2 + 4 * count + 4

(* The fields of an entry whose first byte is at `pos`.                    *)
EntryFields(entry, pos) ==
  LET n == Len(entry.values)
  IN  {Field(pos, entry.key), Field(pos + 4, n), Field(pos + 6 + 4 * n, 0)}
        \cup {Field(pos + 6 + 4 * (j - 1), entry.values[j]) : j \in 1 .. n}

(* The offset of an entry, behind the entries and the values before it, and *)
(* for Len(leaf) + 1 the end of the last one.                               *)
EntryOffset(leaf, i) ==
  HeaderBytes + EntryBytes(0) * (i - 1)
              + 4 * Cardinality(Slots([j \in 1 .. i - 1 |-> leaf[j].values]))

(* The page SerializeLeaf makes: key_count at 1, next_leaf at 3, then the  *)
(* entries.                                                                *)
LeafImage(leaf) ==
  Image({Field(1, Len(leaf)), Field(3, 0)} \cup
        UNION {EntryFields(leaf[i], EntryOffset(leaf, i)) : i \in DOMAIN leaf})

(* Mutant: the check leaves out the four bytes of overflow_page.           *)
SerializeLeaf_ShortCheck(leaf) ==
  LET bytes == EntryOffset(leaf, Len(leaf) + 1)
  IN  IF bytes - 4 <= BT_PAGE_SIZE THEN bytes ELSE 0

(* SerializeLeaf's result: the bytes used, or 0 when an entry would end    *)
(* beyond the page.                                                        *)
SerializeLeaf(leaf) ==
  LET bytes == EntryOffset(leaf, Len(leaf) + 1)
  IN  IF bytes <= BT_PAGE_SIZE THEN bytes ELSE 0

(* DeserializeLeaf: whether the page is accepted, and the entries read.    *)
(* The counts are checked against the arrays of LeafNode, the offsets      *)
(* against the page.                                                       *)
DeserializeLeaf(page) ==
  LET key_count == page[1]
      After(pos) == pos + EntryBytes(page[pos + 4])
      pos[i \in 1 .. key_count] ==
        IF i = 1 THEN HeaderBytes ELSE After(pos[i - 1])
      Accepted(at) == /\ at + 10 <= BT_PAGE_SIZE
                      /\ page[at + 4] <= BT_MAX_VALUES
                      /\ at + 6 + 4 * page[at + 4] + 4 <= BT_PAGE_SIZE
      Read(at) == Entry(page[at], [j \in 1 .. page[at + 4] |->
                                     page[at + 6 + 4 * (j - 1)]])
      ok == key_count <= BT_MAX_KEYS /\ \A i \in 1 .. key_count : Accepted(pos[i])
  IN  [ok   |-> ok,
       leaf |-> IF ok THEN [i \in 1 .. key_count |-> Read(pos[i])] ELSE <<>>]
=============================================================================
