------------------------------ MODULE MultiMap ------------------------------
(***************************************************************************)
(* What a B-tree file promises its user: a multimap of bounded size that   *)
(* survives closing and opening, and the result of every call.  A call     *)
(* that returns FALSE changes nothing.                                     *)
(***************************************************************************)
EXTENDS LeafMap

CONSTANTS
  TreeKeys,      \* the keys inserted and looked up
  TreeValues,    \* the values stored
  FindLimits     \* the sizes of the arrays BTreeFind is given

VARIABLES
  created,       \* the file exists
  is_open,       \* the handle is open
  map,           \* key -> the values under it, oldest first
  returned       \* the result of the last call

mapVars == <<created, is_open, map, returned>>

Result(ok, values) == [ok |-> ok, values |-> values]

Returns(ok, values) == returned' = Result(ok, values)

(* A call that finds the handle closed returns FALSE.                      *)
WhenOpen(step) ==
  /\ IF is_open THEN step ELSE Returns(FALSE, <<>>) /\ UNCHANGED map
  /\ UNCHANGED <<created, is_open>>

MapInit ==
  /\ created = FALSE
  /\ is_open = FALSE
  /\ map = EmptyLeaf
  /\ returned = Result(FALSE, <<>>)

Create ==
  /\ ~is_open
  /\ created' = TRUE
  /\ map' = EmptyLeaf
  /\ Returns(TRUE, <<>>)
  /\ UNCHANGED is_open

OpenMap ==
  /\ ~is_open
  /\ is_open' = created
  /\ Returns(created, <<>>)
  /\ UNCHANGED <<created, map>>

CloseMap ==
  /\ is_open
  /\ is_open' = FALSE
  /\ UNCHANGED <<created, map, returned>>

Insert(key, value) ==
  WhenOpen(LET r == LeafInsert(map, key, value)
           IN  map' = r.leaf /\ Returns(r.ok, <<>>))

Find(key, max_values) ==
  WhenOpen(/\ UNCHANGED map
           /\ Returns(key \in DOMAIN map, LeafFind(map, key, max_values)))

Delete(key) ==
  WhenOpen(/\ map' = WithoutKey(map, key)
           /\ Returns(key \in DOMAIN map, <<>>))

DeleteValue(key, value) ==
  WhenOpen(/\ map' = LeafDeleteValue(map, key, value)
           /\ Returns(LeafHolds(map, key, value), <<>>))

MapNext ==
  \/ Create \/ OpenMap \/ CloseMap
  \/ \E key \in TreeKeys :
       \/ Delete(key)
       \/ \E n \in FindLimits : Find(key, n)
       \/ \E value \in TreeValues :
            Insert(key, value) \/ DeleteValue(key, value)

MapSpec == MapInit /\ [][MapNext]_mapVars
=============================================================================
