----------------------------- MODULE RecordMap -----------------------------
(***************************************************************************)
(* What a vDB database promises a client that calls AddRecord,             *)
(* FindRecordByID, UpdateRecord and DeleteRecord: a map from record ids to *)
(* contents.  Ids come from a counter and are used once.  Nothing else the *)
(* API offers (transactions, closing and reopening, rebuilding the index,  *)
(* refreshing the free list, compaction) changes the map, as long as no    *)
(* AddRecord has been refused.                                             *)
(*                                                                         *)
(* The library keeps the pages of a refused record.  Here they are `limbo`: *)
(* records no FindRecordByID returns, but which the next scan of the file  *)
(* may bring back, and in place of others when they do not all fit.        *)
(***************************************************************************)
EXTENDS Integers, FiniteSets

CONSTANTS Data, Capacity     \* Capacity: keys the primary index can hold

VARIABLES store, limbo, next_record_id

mapVars == <<store, limbo, next_record_id>>

Without(f, ids) == [i \in DOMAIN f \ ids |-> f[i]]
With(f, id, v)  == [i \in DOMAIN f \cup {id} |-> IF i = id THEN v ELSE f[i]]

Init ==
  /\ store = [id \in {} |-> 0]
  /\ limbo = [id \in {} |-> 0]
  /\ next_record_id = 1

Add(v) ==
  /\ Cardinality(DOMAIN store) < Capacity
  /\ store' = With(store, next_record_id, v)
  /\ next_record_id' = next_record_id + 1
  /\ UNCHANGED limbo

AddRefused(v) ==
  /\ Cardinality(DOMAIN store) >= Capacity
  /\ limbo' = With(limbo, next_record_id, v)
  /\ next_record_id' = next_record_id + 1
  /\ UNCHANGED store

Update(id, v) ==
  /\ id \in DOMAIN store
  /\ store' = With(store, id, v)
  /\ UNCHANGED <<limbo, next_record_id>>

Delete(id) ==
  /\ id \in DOMAIN store
  /\ store' = Without(store, {id})
  /\ UNCHANGED <<limbo, next_record_id>>

(* A scan of the file finds stored and refused records alike and keeps as  *)
(* many as fit.  With nothing in limbo it changes nothing.                 *)
Rescan ==
  LET known == DOMAIN store \cup DOMAIN limbo
      record == [id \in known |->
                   IF id \in DOMAIN store THEN store[id] ELSE limbo[id]]
  IN  \E kept \in SUBSET known :
        /\ \/ kept = known
           \/ Cardinality(kept) = Capacity
        /\ store' = [id \in kept |-> record[id]]
        /\ limbo' = [id \in known \ kept |-> record[id]]
        /\ UNCHANGED next_record_id

Next ==
  \/ \E v \in Data : Add(v) \/ AddRefused(v)
  \/ \E id \in DOMAIN store : Delete(id) \/ \E v \in Data : Update(id, v)
  \/ Rescan

Spec == Init /\ [][Next]_mapVars
=============================================================================
