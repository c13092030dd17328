------------------------------ MODULE VdbDisk ------------------------------
(***************************************************************************)
(* A vDB database write by write.  The files are changed by one fwrite and *)
(* fflush, or one fopen, remove or rename, at a time; the process may die  *)
(* between any two of them, losing the Database handle and the rest of the *)
(* call.  It may also die in a write and leave part of it: a journal entry *)
(* whose checksum does not match, or a page with fields of two images.     *)
(*                                                                         *)
(* The program is single-threaded and reads only what it wrote, so the     *)
(* writes a call will make are known when it starts: a call queues them in *)
(* `todo`, and Flush applies them one by one.                              *)
(***************************************************************************)
EXTENDS DbPages, LeafMap

CONSTANTS
  MaxRecordId,      \* bound: AddRecord is called while next_record_id <= it
  MaxPages,         \* bound: the file is not extended beyond this many pages
  MaxJournal,       \* bound: a record is not changed in a transaction that
                    \*        would take the journal beyond this many entries
  MaxCrashes,       \* bound: crashes in a behaviour
  Calls,            \* the API calls the client makes
  ChangeOnlyInTxn,  \* the client changes records only in a transaction
  TornWrites        \* a crash may leave a page or journal entry half written

VARIABLES
  disk,      \* the files (see Init)
  ram,       \* the Database handle: cached header and free list
  todo,      \* the writes the call in progress has still to make
  final,     \* history: the files when it has made them
  client,    \* history: what the client may rely on (see Start)
  outcome,   \* history: the same, once the call in progress has returned
  refused,   \* history: some AddRecord found the index full
  reissued,  \* history: AddRecord issued the id of a record on disk
  crashes    \* history: number of crashes

vars == <<disk, ram, todo, final, client, outcome, refused, reissued, crashes>>

ASSUME BoundsAssumption ==
  /\ MaxRecordId \in Nat /\ MaxJournal \in Nat /\ MaxCrashes \in Nat
  /\ MaxPages \in Nat /\ MaxPages >= FirstDataPage

ASSUME LeafKeysFit == LeafKeys = (BT_PAGE_SIZE - 7) \div 14

Closed == [open |-> FALSE]
Handle(h, fl) == [open |-> TRUE, header |-> h, free_list |-> fl]

NoFreePages == [free_page_count |-> 0, list |-> <<>>]

NoCopy == [pages |-> [p \in {} |-> EmptyPage]]

-----------------------------------------------------------------------------
(* Writes.  The index file has 0 pages when just truncated, 1 when         *)
(* CreateBTree has written its header, 2 when it has a root leaf.          *)
PutHeader(h)      == [kind |-> "header",    value |-> h]
PutFreeList(fl)   == [kind |-> "free_list", value |-> fl]
PutPage(p, page)  == [kind |-> "page",      at |-> p, value |-> page]
PutIndex(n, leaf) == [kind |-> "index",     size |-> n, leaf |-> leaf]
AppendJournal(e)  == [kind |-> "append",    entry |-> e]
TruncateJournal   == [kind |-> "truncate"]
RemoveDat         == [kind |-> "remove"]
PutTmp(h, pgs)    == [kind |-> "copy",      header |-> h, pages |-> pgs]
RenameTmp         == [kind |-> "rename"]
NoWrite           == [kind |-> "none"]

TotalPages(pgs) == FirstDataPage + Cardinality(DOMAIN pgs)

(* Writing past the end of the file leaves a hole of zero bytes, which     *)
(* reads as empty pages.                                                   *)
PageWritten(pgs, p, page) ==
  [q \in DOMAIN pgs \cup FirstDataPage .. p |->
     CASE q = p -> page
       [] q # p /\ q \in DOMAIN pgs -> pgs[q]
       [] OTHER -> EmptyPage]

Apply(d, w) ==
  CASE w.kind = "header"    -> [d EXCEPT !.header = w.value]
    [] w.kind = "free_list" -> [d EXCEPT !.free_list = w.value]
    [] w.kind = "page"      -> [d EXCEPT !.pages = PageWritten(@, w.at, w.value)]
    [] w.kind = "index"     -> [d EXCEPT !.index = [size |-> w.size,
                                                    leaf |-> w.leaf]]
    [] w.kind = "append"    -> [d EXCEPT !.journal = Append(@, w.entry)]
    [] w.kind = "truncate"  -> [d EXCEPT !.journal = <<>>]
    [] w.kind = "remove"    -> [d EXCEPT !.dat = FALSE]
    [] w.kind = "copy"      -> [d EXCEPT !.tmp = [header |-> w.header,
                                                  pages  |-> w.pages]]
    [] w.kind = "rename"    -> [d EXCEPT !.dat = TRUE,
                                         !.header = d.tmp.header,
                                         !.free_list = NoFreePages,
                                         !.pages = d.tmp.pages,
                                         !.tmp = NoCopy]
    [] w.kind = "none"      -> d

(* The files after all the writes.                                         *)
ApplyAll(d, writes) ==
  LET after[n \in 0 .. Len(writes)] ==
        IF n = 0 THEN d ELSE Apply(after[n - 1], writes[n])
  IN  after[Len(writes)]

(* What a crash in the middle of a write may leave: of a journal entry one *)
(* that its checksum does not fit, of a page the first fields of the new   *)
(* image and the rest of the old.  A page written in part past the end of  *)
(* the file does not count as a page and is as good as not written.        *)
TornBy(d, w) ==
  CASE w.kind = "append" ->
         {[d EXCEPT !.journal = Append(@, [w.entry EXCEPT !.valid = FALSE])]}
    [] w.kind = "page" /\ w.at \in DOMAIN d.pages ->
         {[d EXCEPT !.pages[w.at].id = w.value.id],
          [d EXCEPT !.pages[w.at].id = w.value.id,
                    !.pages[w.at].status = w.value.status]}
    [] OTHER -> {}

(* One write per page of a record's image, in page order.                  *)
PutImage(image, first) ==
  [j \in 1 .. PagesNeeded |-> PutPage(first + j - 1, image[first + j - 1])]

(* WriteJournalEntry for the same pages.  JO_ADD, JO_UPDATE and JO_DELETE  *)
(* entries are replayed alike: the image goes to the page.                 *)
JournalImage(image, first) ==
  [j \in 1 .. PagesNeeded |->
     AppendJournal([page |-> first + j - 1, image |-> image[first + j - 1],
                    valid |-> TRUE])]

(* The journal entries are written before the pages, in a transaction.     *)
PutRecord(image, first) ==
  (IF ram.header.journal_pending THEN JournalImage(image, first) ELSE <<>>)
    \o PutImage(image, first)

-----------------------------------------------------------------------------
(* Scans.                                                                  *)
Ascending(S) ==
  [i \in 1 .. Cardinality(S) |-> CHOOSE p \in S : Rank(p, S) = i - 1]

ScanFreeList(pgs) ==
  [free_page_count |-> Cardinality(EmptyPages(pgs)),
   list            |-> Ascending(FirstOf(MaxFreePages, EmptyPages(pgs)))]

(* RebuildIndex(-1): CreateBTree truncates the file and writes two pages,  *)
(* then each active page is inserted; a failing BTreeInsert writes nothing *)
(* and is ignored.                                                         *)
RebuildIndexWrites(pgs) ==
  LET active == Ascending(ActivePages(pgs))
      Insert(leaf, p) == LeafInsert(leaf, pgs[p].id, p)
      leaf[k \in 0 .. Len(active)] ==
        IF k = 0 THEN EmptyLeaf ELSE Insert(leaf[k - 1], active[k]).leaf
  IN  <<PutIndex(0, EmptyLeaf), PutIndex(1, EmptyLeaf), PutIndex(2, EmptyLeaf)>>
        \o [k \in 1 .. Len(active) |->
              IF Insert(leaf[k - 1], active[k]).ok THEN PutIndex(2, leaf[k])
                                                   ELSE NoWrite]

(* CompactDatabase copies PagesNeeded pages from each active page on and   *)
(* does not look for active pages among them.                              *)
CopiedPages(pgs) ==
  LET starts[p \in DOMAIN pgs] ==
        /\ p \in ActivePages(pgs)
        /\ \A q \in (p - PagesNeeded + 1) .. (p - 1) :
             q \in DOMAIN pgs => ~starts[q]
      firsts == Ascending({p \in DOMAIN pgs : starts[p]})
  IN  [k \in DataPages(FirstDataPage + PagesNeeded * Len(firsts)) |->
         LET p == firsts[1 + ((k - FirstDataPage) \div PagesNeeded)]
             q == p + ((k - FirstDataPage) % PagesNeeded)
         IN  IF q \in DOMAIN pgs THEN pgs[q]
             ELSE [id |-> pgs[p].id, status |-> PS_CONTINUATION,
                   data |-> NoData]]

(* AllocatePages: the page, the free list left, the writes made.  A single *)
(* page is popped off the end of the list; a longer run is the first one   *)
(* in list order.                                                          *)
AllocatePages(fl, pgs) ==
  LET refill == fl.free_page_count >= PagesNeeded /\ fl.list = <<>>
      have   == IF refill THEN ScanFreeList(pgs) ELSE fl
      before == IF refill THEN <<PutFreeList(have)>> ELSE <<>>
      starts == IF have.free_page_count < PagesNeeded THEN {}
                ELSE {i \in DOMAIN have.list :
                        Run(have.list[i]) \subseteq ToSet(have.list)}
      i      == IF PagesNeeded = 1 THEN Max(starts) ELSE Min(starts)
      first  == have.list[i]
      rest   == IF PagesNeeded = 1 THEN Front(have.list)
                ELSE FoldLeft(RemoveFirst, have.list, Ascending(Run(first)))
      left   == [free_page_count |-> have.free_page_count - PagesNeeded,
                 list            |-> rest]
  IN  IF starts # {}
      THEN [first |-> first, free_list |-> left,
            writes |-> before \o <<PutFreeList(left)>>]
      ELSE [first |-> TotalPages(pgs), free_list |-> have,
            writes |-> before \o PutImage(EmptyImage(TotalPages(pgs)),
                                          TotalPages(pgs))]

(* Mutant: a freed page is listed although the list is full.               *)
ReleasePages_NoLimit(fl, first) ==
  [free_page_count |-> fl.free_page_count + PagesNeeded,
   list            |-> Append(fl.list, first)]

(* Mutant: the page after the run is listed.                               *)
ReleasePages_ListNext(fl, first) ==
  [free_page_count |-> fl.free_page_count + PagesNeeded,
   list |-> IF Len(fl.list) < MaxFreePages
            THEN Append(fl.list, first + PagesNeeded) ELSE fl.list]

ReleasePages(fl, first) ==
  [free_page_count |-> fl.free_page_count + PagesNeeded,
   list |-> IF Len(fl.list) < MaxFreePages THEN Append(fl.list, first)
                                           ELSE fl.list]

(* ReplayJournal takes the entries in order and skips those whose checksum *)
(* does not match.                                                         *)
Replay(e) == IF e.valid THEN PutPage(e.page, e.image) ELSE NoWrite

(* Mutant: the last entry is replayed first.                               *)
PutEntries_Backwards(d) ==
  [i \in DOMAIN d.journal |-> Replay(d.journal[Len(d.journal) + 1 - i])]

PutEntries(d) == [i \in DOMAIN d.journal |-> Replay(d.journal[i])]

ReplayedPages(d) == ApplyAll(d, PutEntries(d)).pages

ReplayedHeader(d) ==
  [d.header EXCEPT
     !.record_count    = Cardinality(ActivePages(ReplayedPages(d))),
     !.journal_pending = FALSE]

(* Mutant: the flag is cleared before the pages are written.               *)
ReplayWrites_ClearFirst(d) ==
  <<PutHeader(ReplayedHeader(d))>> \o PutEntries(d)
    \o RebuildIndexWrites(ReplayedPages(d))
    \o <<PutFreeList(ScanFreeList(ReplayedPages(d))), TruncateJournal>>

(* Mutant: recovery does not rebuild the index.                            *)
ReplayWrites_KeepIndex(d) ==
  PutEntries(d)
    \o <<PutFreeList(ScanFreeList(ReplayedPages(d))),
         PutHeader(ReplayedHeader(d)), TruncateJournal>>

(* Mutant: recovery does not scan for free pages.                          *)
ReplayWrites_KeepFreeList(d) ==
  PutEntries(d) \o RebuildIndexWrites(ReplayedPages(d))
    \o <<PutHeader(ReplayedHeader(d)), TruncateJournal>>

ReplayWrites(d) ==
  PutEntries(d) \o RebuildIndexWrites(ReplayedPages(d))
    \o <<PutFreeList(ScanFreeList(ReplayedPages(d))),
         PutHeader(ReplayedHeader(d)), TruncateJournal>>

(* BTreeFind, as far as FindRecordByID uses it: the first value.           *)
IndexHas(d, id)  == d.index.size = 2 /\ id \in DOMAIN d.index.leaf
IndexPage(d, id) == d.index.leaf[id][1]

Found(d, id) ==
  /\ IndexHas(d, id)
  /\ \A p \in Run(IndexPage(d, id)) :
       /\ p \in DOMAIN d.pages
       /\ d.pages[p].id = id
       /\ d.pages[p].status =
            IF p = IndexPage(d, id) THEN PS_ACTIVE ELSE PS_CONTINUATION

(* The chunks FindRecordByID puts together.                                *)
FindRecordByID(d, id) ==
  [j \in 1 .. PagesNeeded |-> d.pages[IndexPage(d, id) + j - 1].data]

Whole(v) == [j \in 1 .. PagesNeeded |-> v]

-----------------------------------------------------------------------------
(* CreateDatabase, then OpenDatabase.  An absent .JNL file is an empty one. *)
Init ==
  /\ disk = [dat       |-> TRUE,
             header    |-> [record_count |-> 0, next_record_id |-> 1,
                            journal_pending |-> FALSE],
             free_list |-> NoFreePages,
             pages     |-> [p \in {} |-> EmptyPage],
             index     |-> [size |-> 2, leaf |-> EmptyLeaf],
             journal   |-> <<>>,
             tmp       |-> NoCopy]
  /\ ram = Handle(disk.header, disk.free_list)
  /\ todo = <<>>
  /\ final = disk
  /\ client = [promised |-> [id \in {} |-> NoData], gone |-> {},
               stale |-> FALSE]
  /\ outcome = client
  /\ refused = FALSE
  /\ reissued = FALSE
  /\ crashes = 0

(* What a client may rely on: `promised`, the records an AddRecord or      *)
(* UpdateRecord that returned TRUE has stored, and `gone`, the ids a       *)
(* DeleteRecord that returned TRUE has removed.  While a call about a      *)
(* record has not returned, and for good if the process dies in it,        *)
(* nothing is known of that record.  `stale`: a rebuild or compaction with *)
(* no journal to repeat it has begun and not returned, so the index may    *)
(* name the wrong pages.                                                   *)
Open(ids) == [client EXCEPT
                !.promised = [i \in DOMAIN @ \ ids |-> client.promised[i]],
                !.gone     = @ \ ids]

Kept(id, v) == [Open({id}) EXCEPT !.promised = WithEntry(@, id, v)]
Removed(id) == [Open({id}) EXCEPT !.gone = @ \cup {id}]

(* A call starts: its effect on the handle, its writes, the records it is  *)
(* about and what it will have promised when it returns.                   *)
Start(handle, writes, ids, promise) ==
  /\ ram' = handle
  /\ todo' = writes
  /\ final' = ApplyAll(disk, writes)
  /\ client' = IF writes = <<>> THEN promise ELSE Open(ids)
  /\ outcome' = promise
  /\ UNCHANGED <<disk, crashes>>

Quietly(handle, writes) ==
  /\ Start(handle, writes, {}, client)
  /\ UNCHANGED <<refused, reissued>>

(* A call that rewrites the index.                                         *)
Reindex(handle, writes) ==
  /\ ram' = handle
  /\ todo' = writes
  /\ final' = ApplyAll(disk, writes)
  /\ client' = [client EXCEPT !.stale = @ \/ ~ram.header.journal_pending]
  /\ outcome' = [client EXCEPT !.stale = FALSE]
  /\ UNCHANGED <<disk, crashes, refused, reissued>>

Ready(call) == ram.open /\ todo = <<>> /\ call \in Calls

InTxn == ram.header.journal_pending

(* The client changes records in a transaction, if it must, and not through *)
(* an index that an interrupted call has left behind.                       *)
MayChange ==
  /\ ChangeOnlyInTxn => InTxn
  /\ ~client.stale
  /\ InTxn => Len(disk.journal) + PagesNeeded <= MaxJournal

AddRecord(v) ==
  LET h     == ram.header
      id    == h.next_record_id
      alloc == AllocatePages(ram.free_list, disk.pages)
      used  == [h EXCEPT !.next_record_id = @ + 1]
      added == [used EXCEPT !.record_count = @ + 1]
      image == RecordImage(id, alloc.first, v)
      store == alloc.writes \o PutRecord(image, alloc.first)
      entry == LeafInsert(disk.index.leaf, id, alloc.first)
      ok    == disk.index.size = 2 /\ entry.ok
  IN  /\ Ready("add") /\ MayChange
      /\ id <= MaxRecordId
      /\ alloc.first + PagesNeeded <= MaxPages
      /\ IF ok
         THEN Start(Handle(added, alloc.free_list),
                    store \o <<PutIndex(2, entry.leaf), PutHeader(added)>>,
                    {id}, Kept(id, v))
         ELSE Start(Handle(used, alloc.free_list), store, {id}, Open({id}))
      /\ refused' = (refused \/ ~ok)
      /\ reissued' = (reissued \/ \E p \in ActivePages(disk.pages) :
                                    disk.pages[p].id = id)

UpdateRecord(id, v) ==
  LET first == IndexPage(disk, id)
      image == RecordImage(id, first, v)
  IN  /\ Ready("update") /\ MayChange
      /\ IndexHas(disk, id)
      /\ Start(ram, PutRecord(image, first), {id}, Kept(id, v))
      /\ UNCHANGED <<refused, reissued>>

DeleteRecord(id) ==
  LET first  == IndexPage(disk, id)
      header == [ram.header EXCEPT !.record_count = @ - 1]
      freed  == ReleasePages(ram.free_list, first)
  IN  /\ Ready("delete") /\ MayChange
      /\ IndexHas(disk, id)
      /\ Start(Handle(header, freed),
               PutRecord(EmptyImage(first), first)
                 \o <<PutIndex(2, WithoutKey(disk.index.leaf, id)),
                      PutFreeList(freed), PutHeader(header)>>,
               {id}, Removed(id))
      /\ UNCHANGED <<refused, reissued>>

BeginTransaction ==
  LET header == [ram.header EXCEPT !.journal_pending = TRUE]
  IN  /\ Ready("begin")
      /\ Quietly(Handle(header, ram.free_list),
                 <<TruncateJournal, PutHeader(header)>>)

(* CommitTransaction and RollbackTransaction.                              *)
EndTransaction ==
  LET header == [ram.header EXCEPT !.journal_pending = FALSE]
  IN  /\ Ready("end")
      /\ Quietly(Handle(header, ram.free_list),
                 <<PutHeader(header), TruncateJournal>>)

UpdateFreePages ==
  LET fl == ScanFreeList(disk.pages)
  IN  /\ Ready("update_free_pages")
      /\ Quietly(Handle(ram.header, fl), <<PutFreeList(fl)>>)

RebuildIndex ==
  /\ Ready("rebuild")
  /\ Reindex(ram, RebuildIndexWrites(disk.pages))

(* Mutant: the .DAT file is removed before the copy is complete.           *)
CompactDatabase_RemoveFirst ==
  LET pgs == CopiedPages(disk.pages)
      fl  == ScanFreeList(pgs)
  IN  /\ Ready("compact")
      /\ ~InTxn
      /\ Reindex(Handle(ram.header, fl),
                 <<RemoveDat, PutTmp(ram.header, pgs), RenameTmp,
                   PutHeader(ram.header)>>
                   \o RebuildIndexWrites(pgs) \o <<PutFreeList(fl)>>)

(* The copy is written to a .TMP file, which nothing reads until it is     *)
(* complete; then the .DAT file is removed and the copy renamed.  The      *)
(* copy's header is the handle's, its free list empty.  The code does not  *)
(* refuse to compact in a transaction, whose journal would go on naming    *)
(* the old pages; the client does not do it.                               *)
CompactDatabase ==
  LET pgs == CopiedPages(disk.pages)
      fl  == ScanFreeList(pgs)
  IN  /\ Ready("compact")
      /\ ~InTxn
      /\ Reindex(Handle(ram.header, fl),
                 <<PutTmp(ram.header, pgs), RemoveDat, RenameTmp,
                   PutHeader(ram.header)>>
                   \o RebuildIndexWrites(pgs) \o <<PutFreeList(fl)>>)

(* Mutant: the header is not written back, nor with it a refused id.       *)
CloseDatabase_KeepHeader ==
  /\ Ready("close")
  /\ Quietly(Closed, <<PutFreeList(ram.free_list)>>)

CloseDatabase ==
  /\ Ready("close")
  /\ Quietly(Closed, <<PutHeader(ram.header), PutFreeList(ram.free_list)>>)

(* OpenDatabase fails without a .DAT file or an index header.              *)
Openable(d) == d.dat /\ d.index.size >= 1

(* The handle a database is opened with.                                   *)
Opened ==
  IF disk.header.journal_pending
  THEN Handle(ReplayedHeader(disk), ScanFreeList(ReplayedPages(disk)))
  ELSE Handle(disk.header, disk.free_list)

OpenDatabase ==
  /\ ~ram.open /\ todo = <<>>
  /\ Openable(disk)
  /\ Quietly(Opened, IF disk.header.journal_pending THEN ReplayWrites(disk)
                                                    ELSE <<>>)

Flush ==
  /\ todo # <<>>
  /\ disk' = Apply(disk, Head(todo))
  /\ todo' = Tail(todo)
  /\ client' = IF Tail(todo) = <<>> THEN outcome ELSE client
  /\ UNCHANGED <<ram, final, outcome, refused, reissued, crashes>>

(* The process dies, between two calls, between two writes of one, or in   *)
(* the middle of a write.                                                  *)
Crash ==
  /\ crashes < MaxCrashes
  /\ ram.open \/ todo # <<>>
  /\ disk' \in {disk} \cup (IF TornWrites /\ todo # <<>>
                           THEN TornBy(disk, Head(todo)) ELSE {})
  /\ crashes' = crashes + 1
  /\ ram' = Closed
  /\ todo' = <<>>
  /\ final' = disk'
  /\ outcome' = client
  /\ UNCHANGED <<client, refused, reissued>>

Next ==
  \/ \E v \in Data : AddRecord(v)
  \/ \E id \in DOMAIN disk.index.leaf :
       DeleteRecord(id) \/ \E v \in Data : UpdateRecord(id, v)
  \/ BeginTransaction
  \/ EndTransaction
  \/ UpdateFreePages
  \/ RebuildIndex
  \/ CompactDatabase
  \/ CloseDatabase
  \/ OpenDatabase
  \/ Flush
  \/ Crash

Spec == Init /\ [][Next]_vars

(* A running process makes the writes of its call, and a database that is  *)
(* closed and can be opened is opened again: only Flush takes the next     *)
(* write off the queue, only OpenDatabase takes up the handle Opened.      *)
Flushing == todo # <<>> /\ todo' = Tail(todo)
Opening  == ~ram.open /\ todo = <<>> /\ Openable(disk) /\ ram' = Opened

FairSpec == Spec /\ WF_todo(Flushing) /\ WF_ram(Opening)

-----------------------------------------------------------------------------
(* The disk as the next OpenDatabase leaves it.                            *)
Recovered(d) ==
  IF d.header.journal_pending THEN ApplyAll(d, ReplayWrites(d)) ELSE d

(* Every file has the shape the code gives it, and no page number in   *)
(* them is beyond the largest file of the run.                             *)
TypeOK ==
  /\ disk.dat \in BOOLEAN
  /\ disk.header \in [record_count : Int, next_record_id : Nat \ {0},
                      journal_pending : BOOLEAN]
  /\ disk.free_list.free_page_count \in Int
  /\ ToSet(disk.free_list.list) \subseteq DataPages(MaxPages)
  /\ disk.pages \in [DataPages(TotalPages(disk.pages)) -> Page]
  /\ disk.index.size \in 0 .. 2
  /\ DOMAIN disk.index.leaf \subseteq 1 .. MaxRecordId
  /\ ToSet(disk.journal) \subseteq
       [page : DataPages(MaxPages), image : Page, valid : BOOLEAN]
  /\ disk.tmp.pages \in [DataPages(TotalPages(disk.tmp.pages)) -> Page]
  /\ ram.open \in BOOLEAN
  /\ DOMAIN client.promised \cap client.gone = {}
  /\ client.stale \in BOOLEAN
  /\ crashes \in 0 .. MaxCrashes

IndexExact(d) ==
  /\ d.index.size = 2
  /\ \A id \in DOMAIN d.index.leaf : \A p \in ToSet(d.index.leaf[id]) :
       p \in ActivePages(d.pages) /\ d.pages[p].id = id
  /\ \A p \in ActivePages(d.pages) :
       IndexHas(d, d.pages[p].id) /\ IndexPage(d, d.pages[p].id) = p

FreeListExact(d) ==
  /\ ToSet(d.free_list.list) \subseteq EmptyPages(d.pages)
  /\ Len(d.free_list.list) = Cardinality(ToSet(d.free_list.list))
  /\ d.free_list.free_page_count = Cardinality(EmptyPages(d.pages))

Consistent(d) ==
  /\ Tiled(d.pages)
  /\ IndexExact(d)
  /\ FreeListExact(d)
  /\ d.header.record_count = Cardinality(ActivePages(d.pages))

Undisturbed == ~refused /\ ~reissued
Dependable  == Undisturbed /\ ~client.stale

(* Wherever the process dies, the database the next OpenDatabase produces  *)
(* is consistent: a cleared journal flag means the files need no repair,   *)
(* and a set one that the journal repairs them, however often recovery     *)
(* itself is interrupted.                                                  *)
RecoveryConsistent ==
  Dependable /\ Openable(disk) => Consistent(Recovered(disk))

(* Wherever the process dies, every record whose last call returned is     *)
(* still as that call left it after the next OpenDatabase.                 *)
Durable ==
  Dependable /\ Openable(disk) =>
    LET r == Recovered(disk)
    IN  /\ \A id \in DOMAIN client.promised :
             Found(r, id) /\ FindRecordByID(r, id) = Whole(client.promised[id])
        /\ \A id \in client.gone : ~Found(r, id)

(* Compaction removes the .DAT file before the copy has its name.  At any  *)
(* moment every record whose last call returned is whole in the .DAT file, *)
(* as replayed if it has to be, or, if there is none, in the .TMP file.    *)
SurvivingPages(d) ==
  CASE ~d.dat -> d.tmp.pages
    [] d.dat /\ d.header.journal_pending -> ReplayedPages(d)
    [] OTHER -> d.pages

NothingLost ==
  LET pgs == SurvivingPages(disk)
  IN  Undisturbed =>
        \A id \in DOMAIN client.promised :
          \E p \in ActivePages(pgs) :
            \A q \in Run(p) :
              q \in DOMAIN pgs
              /\ pgs[q] = RecordImage(id, p, client.promised[id])[q]

(* A closed database that can be opened comes back: in the end it is open, *)
(* no write is left to be made and the files are consistent, unless a      *)
(* crash leaves it such that it cannot be opened.                          *)
EventuallyServes ==
  (~ram.open /\ Dependable) ~>
    \/ ram.open /\ todo = <<>> /\ Consistent(disk)
    \/ ~ram.open /\ ~Openable(disk)
    \/ ~Dependable

-----------------------------------------------------------------------------
(* Without crashes this implements RecordStore: the call happens when it   *)
(* starts, on the files its writes will leave.                             *)
Store == INSTANCE RecordStore WITH
  is_open   <- ram.open,
  header    <- IF ram.open THEN ram.header ELSE final.header,
  free_list <- LET fl == IF ram.open THEN ram.free_list ELSE final.free_list
               IN  [free_page_count |-> fl.free_page_count,
                    listed          |-> ToSet(fl.list)],
  total     <- TotalPages(final.pages),
  pages     <- final.pages,
  index     <- [id \in DOMAIN final.index.leaf |-> final.index.leaf[id][1]],
  journal   <- FoldLeft(LAMBDA f, e : Overlay(f, [p \in {e.page} |-> e.image]),
                        [p \in {} |-> EmptyPage], final.journal)

(* A call that is not interrupted does what RecordStore says: the writes   *)
(* of a call, in their order, add up to its effect on the store.           *)
ImplementsRecordStore == Store!Spec

(* And it is the record map that RecordStore is.                           *)
ImplementsRecordMap == Store!ImplementsRecordMap
=============================================================================
