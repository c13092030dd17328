------------------------------- MODULE BTree -------------------------------
(***************************************************************************)
(* A vDB B-tree file and a handle on it, call by call.  Every call reads   *)
(* the root leaf from its page, changes the entries in memory and writes   *)
(* the whole leaf back, unless it does not fit in the page.                *)
(***************************************************************************)
EXTENDS BTreeLeaf

CONSTANTS
  TreeKeys,      \* the keys inserted and looked up
  TreeValues,    \* the values stored
  FindLimits     \* the sizes of the arrays BTreeFind is given

ASSUME TreeAssumption == TreeKeys \subseteq Int /\ FindLimits \subseteq Nat

VARIABLES
  file,          \* page number -> page: 0 the header, 1 the root leaf's image;
                 \* empty when the file does not exist
  tree,          \* the BTree handle: is_open, header
  returned,      \* the result of the last call, with the values found
  map            \* history: the multimap that can be read from the file

vars == <<file, tree, returned, map>>

(* The fields of BTreeHeader that are read after the file is created.      *)
NewHeader == [magic |-> "BTRE", root_page |-> 1]

ClosedTree == [is_open |-> FALSE, header |-> NewHeader]

Exists == DOMAIN file # {}

(* The file changes, and with it what can be read from it.                 *)
Store(pages) ==
  /\ file' = pages
  /\ map' = MapOf(DeserializeLeaf(pages[1]).leaf)

FileKept == UNCHANGED <<file, map>>

Returns(ok, values) == returned' = [ok |-> ok, values |-> values]

-----------------------------------------------------------------------------
Init ==
  /\ file = [page \in {} |-> NewHeader]
  /\ tree = ClosedTree
  /\ returned = [ok |-> FALSE, values |-> <<>>]
  /\ map = EmptyLeaf

(* An existing file is truncated.  The users of the module do not create a *)
(* tree they have open.                                                    *)
CreateBTree ==
  /\ ~tree.is_open
  /\ Store([page \in {0, 1} |->
              IF page = 0 THEN NewHeader ELSE LeafImage(<<>>)])
  /\ Returns(TRUE, <<>>)
  /\ UNCHANGED tree

OpenBTree ==
  /\ ~tree.is_open
  /\ LET ok == Exists /\ file[0].magic = "BTRE"
     IN  /\ tree' = IF ok THEN [is_open |-> TRUE, header |-> file[0]]
                          ELSE ClosedTree
         /\ Returns(ok, <<>>)
  /\ FileKept

CloseBTree ==
  /\ tree.is_open
  /\ Store([file EXCEPT ![0] = tree.header])
  /\ tree' = ClosedTree
  /\ UNCHANGED returned

ReadRootLeaf == DeserializeLeaf(file[tree.header.root_page])

Unwritten(ok, values) == FileKept /\ Returns(ok, values)

(* A leaf that does not fit is not written.                                *)
WriteRootLeaf(leaf) ==
  LET fits == SerializeLeaf(leaf) # 0
  IN  /\ IF fits
         THEN Store([file EXCEPT ![tree.header.root_page] = LeafImage(leaf)])
         ELSE FileKept
      /\ Returns(fits, <<>>)

(* A call on a closed tree, or one that cannot read the leaf, returns      *)
(* FALSE.                                                                  *)
OnRootLeaf(Call(_)) ==
  LET root == ReadRootLeaf
  IN  /\ IF tree.is_open /\ root.ok THEN Call(root.leaf)
                                    ELSE Unwritten(FALSE, <<>>)
      /\ UNCHANGED tree

AddValue(leaf, idx, value) ==
  LET values == leaf[idx].values
  IN  IF Contains(values, value) \/ Len(values) >= BT_MAX_VALUES
      THEN Unwritten(Contains(values, value), <<>>)
      ELSE WriteRootLeaf(WithValueAdded(leaf, idx, value))

AddEntry(leaf, key, value) ==
  IF Len(leaf) >= BT_MAX_KEYS THEN Unwritten(FALSE, <<>>)
  ELSE WriteRootLeaf(WithNewEntry(leaf, key, value))

BTreeInsert(key, value) ==
  OnRootLeaf(LAMBDA leaf :
    LET idx == FindEntryIndex(leaf, key)
    IN  IF idx # 0 THEN AddValue(leaf, idx, value)
                   ELSE AddEntry(leaf, key, value))

BTreeFind(key, max_values) ==
  OnRootLeaf(LAMBDA leaf :
    LET idx == FindEntryIndex(leaf, key)
        n   == Min({Len(leaf[idx].values), max_values})
    IN  IF idx = 0 THEN Unwritten(FALSE, <<>>)
        ELSE Unwritten(TRUE, SubSeq(leaf[idx].values, 1, n)))

BTreeDelete(key) ==
  OnRootLeaf(LAMBDA leaf :
    LET idx == FindEntryIndex(leaf, key)
    IN  IF idx = 0 THEN Unwritten(FALSE, <<>>)
        ELSE WriteRootLeaf(WithoutEntry(leaf, idx)))

BTreeDeleteValue(key, value) ==
  OnRootLeaf(LAMBDA leaf :
    LET idx == FindEntryIndex(leaf, key)
    IN  IF idx = 0 \/ ~Contains(leaf[idx].values, value)
        THEN Unwritten(FALSE, <<>>)
        ELSE WriteRootLeaf(WithoutValue(leaf, idx, value)))

Next ==
  \/ CreateBTree
  \/ OpenBTree
  \/ CloseBTree
  \/ \E key \in TreeKeys :
       \/ BTreeDelete(key)
       \/ \E n \in FindLimits : BTreeFind(key, n)
       \/ \E value \in TreeValues :
            BTreeInsert(key, value) \/ BTreeDeleteValue(key, value)

Spec == Init /\ [][Next]_vars

-----------------------------------------------------------------------------
StoredLeaf == DeserializeLeaf(file[1])

TypeOK ==
  /\ DOMAIN file \in {{}, {0, 1}}
  /\ tree.is_open \in BOOLEAN
  /\ tree.is_open => Exists
  /\ returned.ok \in BOOLEAN
  /\ returned.values \in BoundedSeq(TreeValues, BT_MAX_VALUES)
  /\ Exists => /\ Keys(StoredLeaf.leaf) \subseteq TreeKeys
               /\ \A i \in DOMAIN StoredLeaf.leaf :
                    ToSet(StoredLeaf.leaf[i].values) \subseteq TreeValues

(* The limits SerializeLeaf and DeserializeLeaf check are the same: every  *)
(* leaf that BTreeInsert could write can be read again.                    *)
AlwaysReadable == Exists => StoredLeaf.ok

(* After any sequence of inserts and deletes the entries in the page are   *)
(* in key order, none is there twice, none is empty and no value is        *)
(* repeated; FindEntryIndex, which stops at the first larger key, needs it. *)
KeysInOrder == Exists => WellFormed(StoredLeaf.leaf)

(* Seen from outside, the page with its sorted arrays and their limits is  *)
(* a bounded multimap, and every call returns what it should.              *)
Map == INSTANCE MultiMap WITH
  created <- Exists, is_open <- tree.is_open

ImplementsMultiMap == Map!MapSpec
=============================================================================
