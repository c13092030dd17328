----------------------------- MODULE MCVdbDisk -----------------------------
(* Small instances of VdbDisk, and what the repository says of it that     *)
(* does not hold.                                                          *)
EXTENDS VdbDisk

AllCalls == {"add", "update", "delete", "begin", "end", "update_free_pages",
             "rebuild", "compact", "close"}

RecordCalls == {"add", "update", "delete", "begin", "end", "close"}

(* "id: Unique record identifier", "next_record_id ... never decreases"    *)
(* (db.md): AddRecord does not issue the id of a record that is on disk.   *)
IdsUnique == ~reissued

(* "This ensures that partial writes due to power loss or crashes can be   *)
(* detected and completed" (db.md): recovery leaves no part of a record.   *)
RecoveryCompletesRecords ==
  Openable(disk) => Tiled(Recovered(disk).pages)

(* "If journal_pending is TRUE, replays the journal" (db.h): an existing   *)
(* database can be opened, whatever the process was doing when it died.    *)
CanReopen == ~ram.open /\ todo = <<>> => Openable(disk)
=============================================================================
