------------------------------ MODULE DbPages ------------------------------
(***************************************************************************)
(* The data pages of a vDB .DAT file, seen as a function from page numbers *)
(* to pages, and what the library computes by scanning them.  Pages 0 (the *)
(* header) and 1 (the free list) are state of their own in the modules     *)
(* that extend this one; page numbers of data pages start at 2.            *)
(*                                                                         *)
(* The content of a record is one abstract value.  A record occupies       *)
(* PagesNeeded consecutive pages and each of them carries the chunk of     *)
(* that value which belongs at its position, so a page holds the value it  *)
(* was written from: two pages of one record that hold different values    *)
(* are a torn record.                                                      *)
(***************************************************************************)
EXTENDS Integers, FiniteSets

CONSTANTS
  PagesNeeded,    \* pages per record: CalculatePagesNeeded(record_size)
  MaxFreePages,   \* DB_MAX_FREE_PAGES, 127: entries of the free page list
  LeafKeys,       \* single-valued keys that fit in the root leaf, 36
  Data,           \* contents a client may store
  NoData          \* the zero bytes of an empty page

ASSUME PagesNeededAssumption == PagesNeeded \in Nat \ {0}
ASSUME MaxFreePagesAssumption == MaxFreePages \in Nat \ {0}
ASSUME LeafKeysAssumption == LeafKeys \in Nat \ {0}

-----------------------------------------------------------------------------
(* Page status bytes.  Zero is EMPTY, so a page of zero bytes is free.     *)
PS_EMPTY        == 0
PS_ACTIVE       == 1
PS_CONTINUATION == 2

FirstDataPage == 2

Page == [id     : Nat,
         status : {PS_EMPTY, PS_ACTIVE, PS_CONTINUATION},
         data   : Data \cup {NoData}]

EmptyPage == [id |-> 0, status |-> PS_EMPTY, data |-> NoData]

(* The data pages of a file of `total` pages.                              *)
DataPages(total) == FirstDataPage .. (total - 1)

(* The pages a record occupies when its first page is `first`.             *)
Run(first) == first .. (first + PagesNeeded - 1)

(* What AddRecord and UpdateRecord write, and what DeleteRecord writes, at *)
(* each page of a run.                                                     *)
RecordImage(id, first, v) ==
  [p \in Run(first) |->
     [id     |-> id,
      status |-> IF p = first THEN PS_ACTIVE ELSE PS_CONTINUATION,
      data   |-> v]]

(* Mutant: DeleteRecord clears the first page and not the rest of the run. *)
EmptyImage_FirstOnly(first) == [p \in {first} |-> EmptyPage]

EmptyImage(first) == [p \in Run(first) |-> EmptyPage]

(* The pages after writing those of `image` over `pgs`.                    *)
Overlay(pgs, image) ==
  [p \in DOMAIN pgs \cup DOMAIN image |->
     IF p \in DOMAIN image THEN image[p] ELSE pgs[p]]

-----------------------------------------------------------------------------
(* Scans in ascending page order.                                          *)
ActivePages(pgs) == {p \in DOMAIN pgs : pgs[p].status = PS_ACTIVE}
EmptyPages(pgs)  == {p \in DOMAIN pgs : pgs[p].status = PS_EMPTY}

(* How many elements of S come before p; the k smallest elements of S.     *)
Rank(p, S) == Cardinality({q \in S : q < p})
FirstOf(k, S) == {p \in S : Rank(p, S) < k}

(* Mutant: the scan stops counting when the list is full.                  *)
ScanFreePages_CountListed(pgs) ==
  [free_page_count |-> Cardinality(FirstOf(MaxFreePages, EmptyPages(pgs))),
   listed          |-> FirstOf(MaxFreePages, EmptyPages(pgs))]

(* UpdateFreePages: count every empty page, list the first MaxFreePages.   *)
ScanFreePages(pgs) ==
  [free_page_count |-> Cardinality(EmptyPages(pgs)),
   listed          |-> FirstOf(MaxFreePages, EmptyPages(pgs))]

(* The listed pages at which PagesNeeded consecutive listed pages start.   *)
FreeRuns(listed) == {p \in listed : Run(p) \subseteq listed}

(* RebuildIndex(-1): insert the id of every active page.  Once the leaf is *)
(* full every later BTreeInsert fails, and its result is ignored.  One     *)
(* page per id: the store that uses this never has two active pages with   *)
(* the same id.                                                            *)
ScanIndex(pgs) ==
  LET kept == FirstOf(LeafKeys, ActivePages(pgs))
  IN  [id \in {pgs[p].id : p \in kept} |->
         CHOOSE p \in kept : pgs[p].id = id]

(* CompactDatabase copies the runs of the active pages one after another,  *)
(* in page order, from page 2 on: the run that starts at p moves to        *)
(* Place(p).                                                               *)
Place(p, active) == FirstDataPage + PagesNeeded * Rank(p, active)

CompactedTotal(pgs) ==
  FirstDataPage + PagesNeeded * Cardinality(ActivePages(pgs))

CompactedPages(pgs) ==
  LET active == ActivePages(pgs)
      Mover(k) == CHOOSE p \in active : k \in Run(Place(p, active))
  IN  [k \in DataPages(CompactedTotal(pgs)) |->
         pgs[Mover(k) + (k - Place(Mover(k), active))]]

-----------------------------------------------------------------------------
(* The pages in use are tiled by whole records: an active page is followed *)
(* by the rest of its record, with the same id and content, and every      *)
(* continuation page belongs to such a record.                             *)
Tiled(pgs) ==
  /\ \A p \in ActivePages(pgs) : \A q \in Run(p) \ {p} :
       /\ q \in DOMAIN pgs
       /\ pgs[q] = [id     |-> pgs[p].id,
                    status |-> PS_CONTINUATION,
                    data   |-> pgs[p].data]
  /\ \A q \in DOMAIN pgs : pgs[q].status = PS_CONTINUATION =>
       \E p \in ActivePages(pgs) : q \in Run(p)
=============================================================================
