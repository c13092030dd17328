---------------------------- MODULE RecordStore ----------------------------
(***************************************************************************)
(* An open vDB database between calls of its API: every call runs to       *)
(* completion.  (The writes inside a call, and crashes between them, are   *)
(* the subject of VdbDisk, which implements this module when no crash      *)
(* happens.)                                                               *)
(*                                                                         *)
(* The header and the free list are what the Database handle caches; with  *)
(* no crash a CloseDatabase writes both and OpenDatabase reads them back,  *)
(* so one copy stands for the cache and for pages 0 and 1.  The free page  *)
(* list is a set: AllocatePages may take any suitable run of it, which     *)
(* covers the order the code searches in.  The journal is the last image   *)
(* it holds of each page, which is all that replaying it can show.         *)
(***************************************************************************)
EXTENDS DbPages

CONSTANTS
  MaxRecordId,    \* bound: AddRecord is called while next_record_id <= it
  MaxPages        \* bound: the file is not extended beyond this many pages

ASSUME BoundsAssumption == MaxRecordId \in Nat /\ MaxPages \in Nat

VARIABLES
  is_open,        \* the handle is open
  header,         \* record_count, next_record_id, journal_pending
  free_list,      \* free_page_count and the set of listed pages
  total,          \* GetTotalPages: size of the .DAT file in pages
  pages,          \* data pages
  index,          \* primary index: record id -> first page
  journal,        \* journal: page number -> last image journalled for it
  refused         \* history: some AddRecord found the index full

vars == <<is_open, header, free_list, total, pages, index, journal, refused>>

-----------------------------------------------------------------------------
(* CreateDatabase, then OpenDatabase.                                      *)
Init ==
  /\ is_open = TRUE
  /\ header = [record_count |-> 0, next_record_id |-> 1,
               journal_pending |-> FALSE]
  /\ free_list = [free_page_count |-> 0, listed |-> {}]
  /\ total = FirstDataPage
  /\ pages = [p \in {} |-> EmptyPage]
  /\ index = [id \in {} |-> 0]
  /\ journal = [p \in {} |-> EmptyPage]
  /\ refused = FALSE

(* Mutant: a page that is already in the journal is not journalled again.  *)
Write_JournalOnce(image) ==
  /\ pages' = Overlay(pages, image)
  /\ journal' = IF header.journal_pending THEN Overlay(image, journal)
                                          ELSE journal

(* The page images an operation writes are journalled first, if a          *)
(* transaction is active.                                                  *)
Write(image) ==
  /\ pages' = Overlay(pages, image)
  /\ journal' = IF header.journal_pending THEN Overlay(journal, image)
                                          ELSE journal

(* AllocatePages refills an empty list when the count says pages are free. *)
RefilledFreeList ==
  IF free_list.free_page_count >= PagesNeeded /\ free_list.listed = {}
  THEN ScanFreePages(pages)
  ELSE free_list

(* Mutant: only the first page of the run is taken off the list.           *)
Allocations_TakeFirst ==
  LET fl   == RefilledFreeList
      runs == IF fl.free_page_count >= PagesNeeded THEN FreeRuns(fl.listed)
                                                   ELSE {}
  IN  IF runs = {}
      THEN {[first |-> total, free_list |-> fl, total |-> total + PagesNeeded]}
      ELSE {[first     |-> p,
             free_list |-> [free_page_count |-> fl.free_page_count - PagesNeeded,
                            listed          |-> fl.listed \ {p}],
             total     |-> total] : p \in runs}

(* The outcomes of AllocatePages(PagesNeeded): a run of listed pages, or   *)
(* else new pages at the end of the file.                                  *)
Allocations ==
  LET fl   == RefilledFreeList
      runs == IF fl.free_page_count >= PagesNeeded THEN FreeRuns(fl.listed)
                                                   ELSE {}
  IN  IF runs = {}
      THEN {[first |-> total, free_list |-> fl, total |-> total + PagesNeeded]}
      ELSE {[first     |-> p,
             free_list |-> [free_page_count |-> fl.free_page_count - PagesNeeded,
                            listed          |-> fl.listed \ Run(p)],
             total     |-> total] : p \in runs}

(* The part of AddRecord up to the index: an id, pages for it, the pages   *)
(* written.                                                                *)
StoreNewRecord(v, alloc) ==
  /\ is_open
  /\ header.next_record_id <= MaxRecordId
  /\ alloc.total <= MaxPages
  /\ Write(RecordImage(header.next_record_id, alloc.first, v))
  /\ total' = alloc.total
  /\ free_list' = alloc.free_list
  /\ UNCHANGED is_open

LeafHasRoom == Cardinality(DOMAIN index) < LeafKeys

(* Mutant: the id is not marked as used.                                   *)
AddRecord_KeepCounter(v) ==
  \E alloc \in Allocations :
    /\ StoreNewRecord(v, alloc)
    /\ LeafHasRoom
    /\ index' = [id \in DOMAIN index \cup {header.next_record_id} |->
                   IF id = header.next_record_id THEN alloc.first
                                                 ELSE index[id]]
    /\ header' = [header EXCEPT !.record_count = @ + 1]
    /\ UNCHANGED refused

AddRecord(v) ==
  \E alloc \in Allocations :
    /\ StoreNewRecord(v, alloc)
    /\ LeafHasRoom
    /\ index' = [id \in DOMAIN index \cup {header.next_record_id} |->
                   IF id = header.next_record_id THEN alloc.first
                                                 ELSE index[id]]
    /\ header' = [header EXCEPT !.record_count = @ + 1,
                                !.next_record_id = @ + 1]
    /\ UNCHANGED refused

(* BTreeInsert fails and AddRecord returns FALSE.  The pages stay written, *)
(* the id stays used, the count and the index stay as they were.           *)
AddRecordRefused(v) ==
  \E alloc \in Allocations :
    /\ StoreNewRecord(v, alloc)
    /\ ~LeafHasRoom
    /\ header' = [header EXCEPT !.next_record_id = @ + 1]
    /\ refused' = TRUE
    /\ UNCHANGED index

(* FindRecordByID: the page the index names, verified against the id.      *)
Found(id) ==
  /\ id \in DOMAIN index
  /\ \A p \in Run(index[id]) :
       /\ p \in DOMAIN pages
       /\ pages[p].id = id
       /\ pages[p].status =
            IF p = index[id] THEN PS_ACTIVE ELSE PS_CONTINUATION

FindRecordByID(id) == pages[index[id]].data

UpdateRecord(id, v) ==
  /\ is_open
  /\ id \in DOMAIN index
  /\ Write(RecordImage(id, index[id], v))
  /\ UNCHANGED <<is_open, header, free_list, total, index, refused>>

(* Mutant: the page after the run is listed.                               *)
Released_ListNext(fl, first) ==
  [free_page_count |-> fl.free_page_count + PagesNeeded,
   listed |-> IF Cardinality(fl.listed) < MaxFreePages
              THEN fl.listed \cup {first + PagesNeeded} ELSE fl.listed]

(* ReleasePages counts every page of the run but lists only the first, and *)
(* that only while the list has room.                                      *)
Released(fl, first) ==
  [free_page_count |-> fl.free_page_count + PagesNeeded,
   listed |-> IF Cardinality(fl.listed) < MaxFreePages
              THEN fl.listed \cup {first} ELSE fl.listed]

(* Mutant: the key stays in the index.                                     *)
DeleteRecord_KeepKey(id) ==
  /\ is_open
  /\ id \in DOMAIN index
  /\ Write(EmptyImage(index[id]))
  /\ free_list' = Released(free_list, index[id])
  /\ header' = [header EXCEPT !.record_count = @ - 1]
  /\ UNCHANGED <<is_open, total, index, refused>>

(* Mutant: the record stays counted.                                       *)
DeleteRecord_KeepCount(id) ==
  /\ is_open
  /\ id \in DOMAIN index
  /\ Write(EmptyImage(index[id]))
  /\ index' = [i \in DOMAIN index \ {id} |-> index[i]]
  /\ free_list' = Released(free_list, index[id])
  /\ UNCHANGED <<is_open, header, total, refused>>

DeleteRecord(id) ==
  /\ is_open
  /\ id \in DOMAIN index
  /\ Write(EmptyImage(index[id]))
  /\ index' = [i \in DOMAIN index \ {id} |-> index[i]]
  /\ free_list' = Released(free_list, index[id])
  /\ header' = [header EXCEPT !.record_count = @ - 1]
  /\ UNCHANGED <<is_open, total, refused>>

-----------------------------------------------------------------------------
(* Transactions.  Commit and rollback do the same: neither touches a page. *)
BeginTransaction ==
  /\ is_open
  /\ header' = [header EXCEPT !.journal_pending = TRUE]
  /\ journal' = [p \in {} |-> EmptyPage]
  /\ UNCHANGED <<is_open, free_list, total, pages, index, refused>>

EndTransaction ==
  /\ is_open
  /\ header' = [header EXCEPT !.journal_pending = FALSE]
  /\ journal' = [p \in {} |-> EmptyPage]
  /\ UNCHANGED <<is_open, free_list, total, pages, index, refused>>

CommitTransaction   == EndTransaction
RollbackTransaction == EndTransaction

(* Maintenance.                                                            *)
UpdateFreePages ==
  /\ is_open
  /\ free_list' = ScanFreePages(pages)
  /\ UNCHANGED <<is_open, header, total, pages, index, journal, refused>>

RebuildIndex ==
  /\ is_open
  /\ index' = ScanIndex(pages)
  /\ UNCHANGED <<is_open, header, free_list, total, pages, journal, refused>>

(* Mutant: the index is not rebuilt.                                       *)
CompactDatabase_KeepIndex ==
  /\ is_open
  /\ ~header.journal_pending
  /\ pages' = CompactedPages(pages)
  /\ total' = CompactedTotal(pages)
  /\ free_list' = ScanFreePages(pages')
  /\ UNCHANGED <<is_open, header, index, journal, refused>>

(* Compaction renumbers pages, so it invalidates the journal of an open    *)
(* transaction.  The code does not refuse that; here the client does not   *)
(* compact inside a transaction.                                           *)
CompactDatabase ==
  /\ is_open
  /\ ~header.journal_pending
  /\ pages' = CompactedPages(pages)
  /\ total' = CompactedTotal(pages)
  /\ index' = ScanIndex(pages')
  /\ free_list' = ScanFreePages(pages')
  /\ UNCHANGED <<is_open, header, journal, refused>>

CloseDatabase ==
  /\ is_open
  /\ is_open' = FALSE
  /\ UNCHANGED <<header, free_list, total, pages, index, journal, refused>>

(* A database closed in the middle of a transaction is replayed.           *)
ReplayJournal ==
  /\ pages' = Overlay(pages, journal)
  /\ index' = ScanIndex(pages')
  /\ free_list' = ScanFreePages(pages')
  /\ header' = [header EXCEPT !.record_count = Cardinality(ActivePages(pages')),
                              !.journal_pending = FALSE]
  /\ journal' = [p \in {} |-> EmptyPage]
  /\ UNCHANGED <<total, refused>>

OpenDatabase ==
  /\ ~is_open
  /\ is_open' = TRUE
  /\ IF header.journal_pending
     THEN ReplayJournal
     ELSE UNCHANGED <<header, free_list, total, pages, index, journal, refused>>

Next ==
  \/ \E v \in Data : AddRecord(v) \/ AddRecordRefused(v)
  \/ \E id \in DOMAIN index : DeleteRecord(id)
                              \/ \E v \in Data : UpdateRecord(id, v)
  \/ BeginTransaction
  \/ CommitTransaction
  \/ RollbackTransaction
  \/ UpdateFreePages
  \/ RebuildIndex
  \/ CompactDatabase
  \/ CloseDatabase
  \/ OpenDatabase

Spec == Init /\ [][Next]_vars

-----------------------------------------------------------------------------
(* Every variable has the shape the code gives it.  record_count may go    *)
(* below zero: it does not count refused records, which can be brought     *)
(* back by RebuildIndex and then deleted.                                  *)
TypeOK ==
  /\ is_open \in BOOLEAN
  /\ header \in [record_count : Int, next_record_id : Nat \ {0},
                 journal_pending : BOOLEAN]
  /\ free_list.free_page_count \in Int
  /\ free_list.listed \subseteq DataPages(total)
  /\ free_list = [free_page_count |-> free_list.free_page_count,
                  listed          |-> free_list.listed]
  /\ total \in Nat /\ total >= FirstDataPage
  /\ pages \in [DataPages(total) -> Page]
  /\ DOMAIN index \subseteq Nat
  /\ index \in [DOMAIN index -> DataPages(total)]
  /\ DOMAIN journal \subseteq DataPages(total)
  /\ journal \in [DOMAIN journal -> Page]
  /\ refused \in BOOLEAN

(* The pages in use are tiled by whole records.  AddRecord overwrites the  *)
(* pages it takes from the free list, UpdateRecord and DeleteRecord those  *)
(* the index names, without looking at them, and compaction moves runs:    *)
(* none may cut into a neighbouring record.                                *)
RunsTile == Tiled(pages)

(* An id is used for one record: the counter is past every id on disk, so  *)
(* AddRecord, which never looks, cannot issue one again.                   *)
IdsUsedOnce ==
  \A p \in ActivePages(pages) :
    /\ pages[p].id < header.next_record_id
    /\ \A q \in ActivePages(pages) : pages[q].id = pages[p].id => p = q

(* A key of the primary index names the first page of that very record.    *)
(* UpdateRecord and DeleteRecord rely on it: they check neither the id nor *)
(* the status of the page they are led to.                                 *)
IndexSound ==
  \A id \in DOMAIN index :
    /\ index[id] \in ActivePages(pages)
    /\ pages[index[id]].id = id

(* Listed pages are empty, so AllocatePages never hands out a page in use. *)
FreeListSound == free_list.listed \subseteq EmptyPages(pages)

(* The free page count, which ReleasePages, AllocatePages and the scan     *)
(* each maintain their own way, is the number of empty pages, although the *)
(* list leaves some of them out.                                           *)
FreeCountExact ==
  free_list.free_page_count = Cardinality(EmptyPages(pages))

(* ValidateDatabase: every active page is what the index has for its id,   *)
(* and record_count is their number.                                       *)
ValidateDatabase ==
  /\ \A p \in ActivePages(pages) :
       pages[p].id \in DOMAIN index /\ index[pages[p].id] = p
  /\ header.record_count = Cardinality(ActivePages(pages))

(* Until an AddRecord is refused, ValidateDatabase accepts the database    *)
(* whatever calls were made.                                               *)
ValidUntilRefused == ~refused => ValidateDatabase

(* The journal agrees with the file, so replaying it after a close in the  *)
(* middle of a transaction restores nothing old: the entries of an update, *)
(* a delete and an add that reused the page are all there, and the last    *)
(* one counts.  Outside a transaction the journal is empty.                *)
JournalAgrees ==
  /\ \A p \in DOMAIN journal : p \in DOMAIN pages /\ journal[p] = pages[p]
  /\ ~header.journal_pending => DOMAIN journal = {}

-----------------------------------------------------------------------------
(* What FindRecordByID returns for each id, and the records on disk that   *)
(* it does not return.                                                     *)
Visible == [id \in {i \in DOMAIN index : Found(i)} |-> FindRecordByID(id)]

Hidden ==
  LET lost == {p \in ActivePages(pages) : pages[p].id \notin DOMAIN Visible}
  IN  [id \in {pages[p].id : p \in lost} |->
         pages[CHOOSE p \in lost : pages[p].id = id].data]

Map == INSTANCE RecordMap WITH
         Capacity       <- LeafKeys,
         store          <- Visible,
         limbo          <- Hidden,
         next_record_id <- header.next_record_id

(* The page store is a record map: reads return the last content written   *)
(* to that id, and no call disturbs another record.                        *)
ImplementsRecordMap == Map!Spec
=============================================================================
