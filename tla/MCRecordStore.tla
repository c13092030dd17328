--------------------------- MODULE MCRecordStore ---------------------------
(* Small instances of RecordStore, and what the repository says of it that *)
(* does not hold.                                                          *)
EXTENDS RecordStore

(* "RebuildIndex ... rebuilds the primary index (.IDX) by scanning all     *)
(* active pages" (db.h): no record that can be read before a rebuild is    *)
(* lost by it.                                                             *)
RebuildKeepsRecords ==
  [][RebuildIndex => DOMAIN Visible \subseteq DOMAIN Visible']_vars
=============================================================================
