------------------------------ MODULE LeafMap ------------------------------
(***************************************************************************)
(* A vDB B-tree holds one node, the root leaf, read whole from its page    *)
(* before every operation and written back whole after every change.  Here *)
(* that leaf is the multimap it denotes: a function from keys to the       *)
(* sequence of values stored under the key, in insertion order.  What the  *)
(* page adds is a limit in bytes.                                          *)
(***************************************************************************)
EXTENDS Integers, Sequences, FiniteSets, SequencesExt

CONSTANTS
  BT_PAGE_SIZE,      \* 512
  BT_MAX_KEYS,       \* 60
  BT_MAX_VALUES      \* 60

EmptyLeaf == [key \in {} |-> <<>>]

ASSUME LeafLimitsAssumption ==
  BT_PAGE_SIZE \in Nat /\ BT_MAX_KEYS \in Nat /\ BT_MAX_VALUES \in Nat \ {0}

(* The places of the leaf's values: a key and an index in its list.        *)
Slots(leaf) == UNION {{key} \X (1 .. Len(leaf[key])) : key \in DOMAIN leaf}

(* SerializeLeaf: 7 bytes of node header; each entry is a key (4), a value *)
(* count (2), 4 per value, and an overflow page number (4).                *)
LeafBytes(leaf) ==
  7 + 10 * Cardinality(DOMAIN leaf) + 4 * Cardinality(Slots(leaf))

Fits(leaf) == LeafBytes(leaf) <= BT_PAGE_SIZE

WithEntry(leaf, key, values) ==
  [k \in DOMAIN leaf \cup {key} |-> IF k = key THEN values ELSE leaf[k]]

WithoutKey(leaf, key) == [k \in DOMAIN leaf \ {key} |-> leaf[k]]

(* BTreeInsert: whether it returns TRUE, and the leaf afterwards.  When the *)
(* new leaf does not fit in the page nothing is written.                   *)
LeafInsert(leaf, key, value) ==
  LET known  == key \in DOMAIN leaf
      values == IF known THEN leaf[key] ELSE <<>>
      grown  == WithEntry(leaf, key, Append(values, value))
      room   == /\ IF known THEN Len(values) < BT_MAX_VALUES
                            ELSE Cardinality(DOMAIN leaf) < BT_MAX_KEYS
                /\ Fits(grown)
  IN  CASE Contains(values, value) -> [ok |-> TRUE,  leaf |-> leaf]
        [] ~Contains(values, value) /\ room  -> [ok |-> TRUE,  leaf |-> grown]
        [] ~Contains(values, value) /\ ~room -> [ok |-> FALSE, leaf |-> leaf]

(* BTreeFind: the oldest values of the key, as many as there is room for.  *)
LeafFind(leaf, key, max_values) ==
  IF key \in DOMAIN leaf
  THEN SubSeq(leaf[key], 1, Min({max_values, Len(leaf[key])})) ELSE <<>>

LeafHolds(leaf, key, value) ==
  key \in DOMAIN leaf /\ Contains(leaf[key], value)

(* BTreeDeleteValue: a key that has lost its last value is gone.           *)
LeafDeleteValue(leaf, key, value) ==
  LET rest == RemoveFirst(leaf[key], value)
  IN  CASE ~LeafHolds(leaf, key, value) -> leaf
        [] LeafHolds(leaf, key, value) /\ rest = <<>> -> WithoutKey(leaf, key)
        [] OTHER -> WithEntry(leaf, key, rest)
=============================================================================
