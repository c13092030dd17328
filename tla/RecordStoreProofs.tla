------------------------- MODULE RecordStoreProofs -------------------------
(***************************************************************************)
(* What holds of RecordStore for every record size, file size, index       *)
(* capacity and free-list capacity, in three parts.                        *)
(*                                                                         *)
(* 1. The safety invariants.  They are proved together: the index is only  *)
(*    sound because records never overlap, records never overlap because   *)
(*    listed pages are empty, and the journal only restores what is there  *)
(*    because every write of a transaction is in it.                       *)
(* 2. The two numbers that are stored instead of computed: free_page_count *)
(*    of the free list and record_count of the header.  Both are changed   *)
(*    by one operation and recomputed by another, so each is right only if *)
(*    the incremental way and the scan agree.                              *)
(* 3. The page store implements the record map.  The refinement mapping    *)
(*    splits one function, from the ids on disk to their contents, between *)
(*    the ids in the index and the others; each call changes that function *)
(*    at one id, or only moves the border.                                 *)
(***************************************************************************)
EXTENDS RecordStore, DbPagesProofs

USE DEF PS_EMPTY, PS_ACTIVE, PS_CONTINUATION, FirstDataPage

-----------------------------------------------------------------------------
(***************************************************************************)
(* 1. The safety invariants                                                *)
(***************************************************************************)

(* The inductive invariant.                                                *)
IInv ==
  /\ TypeOK
  /\ RunsTile
  /\ IdsUsedOnce
  /\ IndexSound
  /\ FreeListSound
  /\ JournalAgrees

-----------------------------------------------------------------------------
(* The pages AllocatePages hands out follow on a data page number, are     *)
(* empty where they are old, and leave the list with empty pages only.     *)
LEMMA AllocationSound ==
  ASSUME TypeOK, FreeListSound, NEW alloc \in Allocations
  PROVE  /\ alloc.first \in Nat
         /\ alloc.total \in Nat /\ alloc.total >= FirstDataPage
         /\ DataPages(alloc.total) = DataPages(total) \cup Run(alloc.first)
         /\ \A p \in Run(alloc.first) : p \in DataPages(total) =>
              pages[p].status = PS_EMPTY
         /\ alloc.free_list =
              [free_page_count |-> alloc.free_list.free_page_count,
               listed          |-> alloc.free_list.listed]
         /\ alloc.free_list.free_page_count \in Int
         /\ alloc.free_list.listed \subseteq
              EmptyPages(pages) \ Run(alloc.first)
<1> DEFINE fl == RefilledFreeList
<1>1. /\ total \in Nat /\ total >= 2 /\ DOMAIN pages = DataPages(total)
      /\ PagesNeeded \in Nat \ {0}
  BY PagesNeededAssumption DEF TypeOK
<1>2. /\ fl = [free_page_count |-> fl.free_page_count, listed |-> fl.listed]
      /\ fl.free_page_count \in Int
      /\ fl.listed \subseteq EmptyPages(pages)
  <2>1. CASE fl = free_list
    BY <2>1 DEF TypeOK, FreeListSound
  <2>2. CASE fl = ScanFreePages(pages)
    BY <2>2, <1>1, ScanFreePagesSound
  <2> QED BY <2>1, <2>2 DEF RefilledFreeList
<1>3. /\ EmptyPages(pages) \subseteq DataPages(total)
      /\ \A p \in EmptyPages(pages) : pages[p].status = PS_EMPTY
  BY <1>1 DEF EmptyPages
<1> DEFINE fresh == [first |-> total, free_list |-> fl,
                     total |-> total + PagesNeeded]
           reused(p) ==
             [first     |-> p,
              free_list |-> [free_page_count |-> fl.free_page_count - PagesNeeded,
                             listed          |-> fl.listed \ Run(p)],
              total     |-> total]
<1>4. alloc = fresh \/ \E p \in FreeRuns(fl.listed) : alloc = reused(p)
  BY DEF Allocations
<1> HIDE DEF fl
<1>5. CASE alloc = fresh
  <2>1. /\ alloc.first = total /\ alloc.total = total + PagesNeeded
        /\ alloc.free_list = fl
    BY <1>5
  <2>2. /\ Run(total) \cap DataPages(total) = {}
        /\ DataPages(total + PagesNeeded) = DataPages(total) \cup Run(total)
    BY <1>1 DEF Run, DataPages
  <2> QED BY <2>1, <2>2, <1>1, <1>2, <1>3
<1>6. CASE \E p \in FreeRuns(fl.listed) : alloc = reused(p)
  <2>1. PICK p \in FreeRuns(fl.listed) : alloc = reused(p)
    BY <1>6
  <2>2. /\ alloc.first = p /\ alloc.total = total
        /\ alloc.free_list.free_page_count = fl.free_page_count - PagesNeeded
        /\ alloc.free_list.listed = fl.listed \ Run(p)
        /\ alloc.free_list =
             [free_page_count |-> alloc.free_list.free_page_count,
              listed          |-> alloc.free_list.listed]
    BY <2>1
  <2>3. p \in fl.listed /\ Run(p) \subseteq fl.listed
    BY DEF FreeRuns
  <2>4. p \in Nat
    BY <2>3, <1>1, <1>2, <1>3 DEF DataPages
  <2> QED BY <2>2, <2>3, <2>4, <1>1, <1>2, <1>3
<1> QED BY <1>4, <1>5, <1>6

(* No record has a page in a run that AllocatePages hands out.             *)
LEMMA AllocationApart ==
  ASSUME TypeOK, RunsTile, FreeListSound, NEW alloc \in Allocations,
         NEW p \in ActivePages(pages)
  PROVE  p # alloc.first /\ Run(p) \cap Run(alloc.first) = {}
<1>1. DOMAIN pages = DataPages(total) /\ p \in DOMAIN pages /\ p \in Int
      /\ pages[p].status = PS_ACTIVE
  BY DEF TypeOK, ActivePages, DataPages
<1>2. \A q \in Run(p) : q \in DataPages(total) /\ pages[q].status # PS_EMPTY
  <2>1. ASSUME NEW q \in Run(p), q # p
        PROVE  q \in DOMAIN pages /\ pages[q].status = PS_CONTINUATION
    BY <2>1, TiledRuns DEF RunsTile
  <2> QED BY <1>1, <2>1
<1>3. Run(p) \cap Run(alloc.first) = {}
  BY <1>2, AllocationSound
<1>4. alloc.first \in Int
  <2>1. alloc.first \in Nat
    BY AllocationSound
  <2> QED BY <2>1
<1>5. p \in Run(p)
  BY <1>1, FirstInRun
<1>6. alloc.first \in Run(alloc.first)
  BY <1>4, FirstInRun
<1> QED BY <1>3, <1>5, <1>6

(* Write keeps the journal in agreement with the file.                     *)
LEMMA WriteJournals ==
  ASSUME TypeOK, JournalAgrees,
         NEW S, NEW image \in [S -> Page], Write(image),
         header'.journal_pending = header.journal_pending,
         DataPages(total') = DataPages(total) \cup S
  PROVE  /\ pages' \in [DataPages(total') -> Page]
         /\ DOMAIN journal' \subseteq DataPages(total')
         /\ journal' \in [DOMAIN journal' -> Page]
         /\ JournalAgrees'
<1>1. /\ DOMAIN pages = DataPages(total) /\ DOMAIN image = S
      /\ pages \in [DataPages(total) -> Page]
      /\ journal \in [DOMAIN journal -> Page]
      /\ DOMAIN journal \subseteq DataPages(total)
  BY DEF TypeOK
<1>2. pages' = Overlay(pages, image) /\ pages' \in [DataPages(total') -> Page]
  BY <1>1, OverlayTyped DEF Write
<1>3. CASE header.journal_pending
  <2>1. journal' = Overlay(journal, image)
    BY <1>3 DEF Write
  <2>2. journal' \in [DOMAIN journal \cup S -> Page]
    BY <2>1, <1>1, OverlayTyped
  <2>3. \A p \in DOMAIN journal' : p \in DOMAIN pages' /\ journal'[p] = pages'[p]
    BY <2>1, <1>1, <1>2 DEF Overlay, JournalAgrees
  <2> QED BY <2>2, <2>3, <1>1, <1>2, <1>3 DEF JournalAgrees
<1>4. CASE ~header.journal_pending
  <2>1. journal' = journal /\ DOMAIN journal = {}
    BY <1>4 DEF Write, JournalAgrees
  <2> QED BY <2>1, <1>1, <1>2 DEF JournalAgrees
<1> QED BY <1>3, <1>4

-----------------------------------------------------------------------------
(* The part of AddRecord before the index: the new record overlaps none,   *)
(* its id is on no other page, and the pages left on the list are empty.   *)
LEMMA NewRecordSound ==
  ASSUME IInv, NEW v \in Data, NEW alloc \in Allocations,
         StoreNewRecord(v, alloc),
         header'.next_record_id = header.next_record_id + 1,
         header'.journal_pending = header.journal_pending
  PROVE  /\ total' \in Nat /\ total' >= FirstDataPage
         /\ DataPages(total) \subseteq DataPages(total')
         /\ free_list'.free_page_count \in Int
         /\ free_list'.listed \subseteq DataPages(total')
         /\ free_list' = [free_page_count |-> free_list'.free_page_count,
                          listed          |-> free_list'.listed]
         /\ pages' \in [DataPages(total') -> Page]
         /\ DOMAIN journal' \subseteq DataPages(total')
         /\ journal' \in [DOMAIN journal' -> Page]
         /\ RunsTile' /\ IdsUsedOnce' /\ FreeListSound' /\ JournalAgrees'
         /\ alloc.first \in ActivePages(pages')
         /\ pages'[alloc.first].id = header.next_record_id
         /\ \A p \in ActivePages(pages) :
              p \in ActivePages(pages') /\ pages'[p] = pages[p]
<1> DEFINE first == alloc.first
           image == RecordImage(header.next_record_id, first, v)
<1>1. /\ TypeOK /\ RunsTile /\ IdsUsedOnce /\ FreeListSound /\ JournalAgrees
      /\ header.next_record_id \in Nat
      /\ pages \in [DataPages(total) -> Page]
      /\ DOMAIN pages = DataPages(total)
      /\ DataPages(total) \subseteq Int
  BY DEF IInv, TypeOK, DataPages
<1>2. /\ first \in Nat
      /\ alloc.total \in Nat /\ alloc.total >= FirstDataPage
      /\ DataPages(alloc.total) = DataPages(total) \cup Run(first)
      /\ alloc.free_list = [free_page_count |-> alloc.free_list.free_page_count,
                            listed          |-> alloc.free_list.listed]
      /\ alloc.free_list.free_page_count \in Int
      /\ alloc.free_list.listed \subseteq EmptyPages(pages) \ Run(first)
  BY <1>1, AllocationSound
<1>3. /\ total' = alloc.total /\ free_list' = alloc.free_list
      /\ Write(image) /\ pages' = Overlay(pages, image)
  BY DEF StoreNewRecord, Write
<1>4. image \in [Run(first) -> Page]
  <2>1. first \in Int
    BY <1>2
  <2> QED BY <1>1, <2>1, ImagesTyped
<1>5. DataPages(total') = DataPages(total) \cup Run(first)
  BY <1>2, <1>3
<1>6. /\ pages' \in [DataPages(total') -> Page]
      /\ DOMAIN journal' \subseteq DataPages(total')
      /\ journal' \in [DOMAIN journal' -> Page]
      /\ JournalAgrees'
  BY <1>1, <1>3, <1>4, <1>5, WriteJournals
<1>7. /\ Tiled(pages')
      /\ ActivePages(pages') = ActivePages(pages) \cup {first}
      /\ \A p \in ActivePages(pages) : p # first => pages'[p] = pages[p]
      /\ pages'[first] = [id     |-> header.next_record_id,
                          status |-> PS_ACTIVE, data |-> v]
      /\ EmptyPages(pages') = EmptyPages(pages) \ Run(first)
  <2>1. first \in Int
    BY <1>2
  <2>2. \A p \in ActivePages(pages) : p # first => Run(p) \cap Run(first) = {}
    BY <1>1, AllocationApart
  <2> QED BY <1>1, <1>3, <2>1, <2>2, WriteRecordTiles DEF RunsTile
<1>8. \A p \in ActivePages(pages) : p # first /\ pages'[p] = pages[p]
  BY <1>1, <1>7, AllocationApart
<1>9. pages'[first].id = header.next_record_id
  BY <1>7
<1>10. IdsUsedOnce'
  <2>1. ASSUME NEW p \in ActivePages(pages)
        PROVE  /\ pages[p].id \in Nat
               /\ pages[p].id < header.next_record_id
               /\ \A q \in ActivePages(pages) : pages[q].id = pages[p].id => p = q
    BY <1>1 DEF IdsUsedOnce, ActivePages, Page
  <2>2. ASSUME NEW p \in ActivePages(pages')
        PROVE  /\ pages'[p].id < header'.next_record_id
               /\ \A q \in ActivePages(pages') : pages'[q].id = pages'[p].id => p = q
    <3>1. CASE p = first
      BY <3>1, <2>1, <1>1, <1>7, <1>8, <1>9
    <3>2. CASE p \in ActivePages(pages)
      BY <3>2, <2>1, <1>1, <1>7, <1>8, <1>9
    <3> QED BY <3>1, <3>2, <1>7
  <2> QED BY <2>2 DEF IdsUsedOnce
<1>11. /\ free_list'.listed \subseteq EmptyPages(pages')
       /\ EmptyPages(pages') \subseteq DataPages(total')
  BY <1>2, <1>3, <1>5, <1>7, <1>1 DEF EmptyPages
<1> HIDE DEF first, image
<1>12. RunsTile' /\ FreeListSound'
  BY <1>7, <1>11 DEF RunsTile, FreeListSound
<1>13. /\ free_list'.free_page_count \in Int
       /\ free_list' = [free_page_count |-> free_list'.free_page_count,
                        listed          |-> free_list'.listed]
  BY <1>2, <1>3
<1>14. /\ total' \in Nat /\ total' >= FirstDataPage
       /\ DataPages(total) \subseteq DataPages(total')
  BY <1>2, <1>3, <1>5
<1>15. /\ first \in ActivePages(pages')
       /\ \A p \in ActivePages(pages) :
            p \in ActivePages(pages') /\ pages'[p] = pages[p]
  BY <1>7, <1>8
<1>16. free_list'.listed \subseteq DataPages(total')
  BY <1>11
<1> QED BY <1>6, <1>9, <1>10, <1>12, <1>13, <1>14, <1>15, <1>16 DEF first

(* AddRecord: the key it adds to the index names the record it wrote.      *)
LEMMA AddRecordStep ==
  ASSUME IInv, NEW v \in Data, AddRecord(v)
  PROVE  IInv'
<1>1. PICK alloc \in Allocations :
        /\ StoreNewRecord(v, alloc)
        /\ index' = [id \in DOMAIN index \cup {header.next_record_id} |->
                       IF id = header.next_record_id THEN alloc.first
                                                     ELSE index[id]]
        /\ header' = [header EXCEPT !.record_count = @ + 1,
                                    !.next_record_id = @ + 1]
        /\ refused' = refused
  BY DEF AddRecord
<1>2. /\ header \in [record_count : Int, next_record_id : Nat \ {0},
                     journal_pending : BOOLEAN]
      /\ is_open \in BOOLEAN /\ refused \in BOOLEAN
      /\ DOMAIN index \subseteq Nat
      /\ IndexSound
      /\ is_open' = is_open
  BY <1>1 DEF IInv, TypeOK, StoreNewRecord
<1>3. /\ header' \in [record_count : Int, next_record_id : Nat \ {0},
                      journal_pending : BOOLEAN]
      /\ header'.next_record_id = header.next_record_id + 1
      /\ header'.journal_pending = header.journal_pending
  <2>1. /\ header.next_record_id + 1 \in Nat \ {0}
        /\ header.record_count + 1 \in Int
    BY <1>2
  <2> QED BY <2>1, <1>1, <1>2
<1>4. /\ total' \in Nat /\ total' >= FirstDataPage
      /\ free_list'.free_page_count \in Int
      /\ free_list'.listed \subseteq DataPages(total')
      /\ free_list' = [free_page_count |-> free_list'.free_page_count,
                       listed          |-> free_list'.listed]
      /\ pages' \in [DataPages(total') -> Page]
      /\ DOMAIN journal' \subseteq DataPages(total')
      /\ journal' \in [DOMAIN journal' -> Page]
      /\ RunsTile' /\ IdsUsedOnce' /\ FreeListSound' /\ JournalAgrees'
      /\ alloc.first \in ActivePages(pages')
      /\ pages'[alloc.first].id = header.next_record_id
      /\ \A p \in ActivePages(pages) :
           p \in ActivePages(pages') /\ pages'[p] = pages[p]
  BY <1>1, <1>3, NewRecordSound
<1>5. IndexSound'
  <2>1. SUFFICES ASSUME NEW id \in DOMAIN index'
                 PROVE  index'[id] \in ActivePages(pages')
                        /\ pages'[index'[id]].id = id
    BY DEF IndexSound
  <2>2. CASE id = header.next_record_id
    BY <2>2, <1>1, <1>4
  <2>3. CASE id # header.next_record_id
    <3>1. id \in DOMAIN index /\ index'[id] = index[id]
      BY <2>3, <1>1
    <3> QED BY <3>1, <1>2, <1>4 DEF IndexSound
  <2> QED BY <2>2, <2>3
<1>6. index' \in [DOMAIN index' -> DataPages(total')] /\ DOMAIN index' \subseteq Nat
  <2>1. \A id \in DOMAIN index' : index'[id] \in DataPages(total')
    BY <1>4, <1>5 DEF IndexSound, ActivePages
  <2>2. DOMAIN index' = DOMAIN index \cup {header.next_record_id}
        /\ index' = [id \in DOMAIN index' |-> index'[id]]
    BY <1>1
  <2> QED BY <2>1, <2>2, <1>2
<1>7. TypeOK'
  BY <1>1, <1>2, <1>3, <1>4, <1>6 DEF TypeOK
<1> QED BY <1>4, <1>5, <1>7 DEF IInv

(* AddRecord refused by a full index leaves a record that no key names.    *)
LEMMA AddRecordRefusedStep ==
  ASSUME IInv, NEW v \in Data, AddRecordRefused(v)
  PROVE  IInv'
<1>1. PICK alloc \in Allocations :
        /\ StoreNewRecord(v, alloc)
        /\ header' = [header EXCEPT !.next_record_id = @ + 1]
        /\ refused' = TRUE
        /\ index' = index
  BY DEF AddRecordRefused
<1>2. /\ header \in [record_count : Int, next_record_id : Nat \ {0},
                     journal_pending : BOOLEAN]
      /\ is_open \in BOOLEAN
      /\ DOMAIN index \subseteq Nat
      /\ index \in [DOMAIN index -> DataPages(total)]
      /\ IndexSound
      /\ is_open' = is_open
  BY <1>1 DEF IInv, TypeOK, StoreNewRecord
<1>3. /\ header' \in [record_count : Int, next_record_id : Nat \ {0},
                      journal_pending : BOOLEAN]
      /\ header'.next_record_id = header.next_record_id + 1
      /\ header'.journal_pending = header.journal_pending
  <2>1. header.next_record_id + 1 \in Nat \ {0}
    BY <1>2
  <2> QED BY <2>1, <1>1, <1>2
<1>4. /\ total' \in Nat /\ total' >= FirstDataPage
      /\ DataPages(total) \subseteq DataPages(total')
      /\ free_list'.free_page_count \in Int
      /\ free_list'.listed \subseteq DataPages(total')
      /\ free_list' = [free_page_count |-> free_list'.free_page_count,
                       listed          |-> free_list'.listed]
      /\ pages' \in [DataPages(total') -> Page]
      /\ DOMAIN journal' \subseteq DataPages(total')
      /\ journal' \in [DOMAIN journal' -> Page]
      /\ RunsTile' /\ IdsUsedOnce' /\ FreeListSound' /\ JournalAgrees'
      /\ \A p \in ActivePages(pages) :
           p \in ActivePages(pages') /\ pages'[p] = pages[p]
  BY <1>1, <1>3, NewRecordSound
<1>5. IndexSound'
  BY <1>1, <1>2, <1>4 DEF IndexSound
<1>6. index' \in [DOMAIN index' -> DataPages(total')] /\ DOMAIN index' \subseteq Nat
  BY <1>1, <1>2, <1>4
<1>7. TypeOK'
  BY <1>1, <1>2, <1>3, <1>4, <1>6 DEF TypeOK
<1> QED BY <1>4, <1>5, <1>7 DEF IInv

(* UpdateRecord rewrites the run of the active page that the index names.  *)
LEMMA UpdateRecordStep ==
  ASSUME IInv, NEW id \in DOMAIN index, NEW v \in Data, UpdateRecord(id, v)
  PROVE  IInv'
<1> DEFINE first == index[id]
           image == RecordImage(id, first, v)
<1>1. /\ TypeOK /\ RunsTile /\ IdsUsedOnce /\ IndexSound
      /\ FreeListSound /\ JournalAgrees
      /\ id \in Nat
      /\ pages \in [DataPages(total) -> Page]
      /\ DOMAIN pages = DataPages(total)
      /\ DataPages(total) \subseteq Int
  BY DEF IInv, TypeOK, DataPages
<1>2. /\ is_open' = is_open /\ header' = header /\ free_list' = free_list
      /\ total' = total /\ index' = index /\ refused' = refused
      /\ Write(image) /\ pages' = Overlay(pages, image)
  BY DEF UpdateRecord, Write
<1>3. /\ first \in ActivePages(pages) /\ first \in Int
      /\ pages[first].id = id /\ pages[first].status = PS_ACTIVE
  BY <1>1 DEF IndexSound, ActivePages
<1>4. image \in [Run(first) -> Page]
  BY <1>1, <1>3, ImagesTyped
<1>5. \A q \in Run(first) : q \in DataPages(total) /\ pages[q].status # PS_EMPTY
  <2>1. ASSUME NEW q \in Run(first), q # first
        PROVE  q \in DOMAIN pages /\ pages[q].status = PS_CONTINUATION
    BY <2>1, <1>1, <1>3, TiledRuns DEF RunsTile
  <2> QED BY <1>1, <1>3, <2>1 DEF ActivePages
<1>6. /\ pages' \in [DataPages(total') -> Page]
      /\ DOMAIN journal' \subseteq DataPages(total')
      /\ journal' \in [DOMAIN journal' -> Page]
      /\ JournalAgrees'
  <2>1. DataPages(total') = DataPages(total) \cup Run(first)
    BY <1>2, <1>5
  <2> QED BY <1>1, <1>2, <1>4, <2>1, WriteJournals
<1>7. /\ Tiled(pages')
      /\ ActivePages(pages') = ActivePages(pages) \cup {first}
      /\ \A p \in ActivePages(pages) : p # first => pages'[p] = pages[p]
      /\ pages'[first] = [id |-> id, status |-> PS_ACTIVE, data |-> v]
      /\ EmptyPages(pages') = EmptyPages(pages) \ Run(first)
  <2>1. \A p \in ActivePages(pages) : p # first => Run(p) \cap Run(first) = {}
    BY <1>1, <1>3, RunsDisjoint DEF RunsTile
  <2> QED BY <1>1, <1>2, <1>3, <2>1, WriteRecordTiles DEF RunsTile
<1> HIDE DEF first, image
<1>8. /\ ActivePages(pages') = ActivePages(pages)
      /\ \A p \in ActivePages(pages) : pages'[p].id = pages[p].id
  <2>1. pages'[first].id = id
    BY <1>7
  <2> QED BY <2>1, <1>3, <1>7
<1>9. EmptyPages(pages') = EmptyPages(pages)
  BY <1>5, <1>7 DEF EmptyPages
<1>10. TypeOK'
  BY <1>1, <1>2, <1>6 DEF TypeOK
<1>11. RunsTile' /\ IdsUsedOnce' /\ IndexSound' /\ FreeListSound'
  BY <1>1, <1>2, <1>7, <1>8, <1>9
     DEF RunsTile, IdsUsedOnce, IndexSound, FreeListSound
<1> QED BY <1>6, <1>10, <1>11 DEF IInv

(* DeleteRecord empties one record and removes the only key that names it. *)
LEMMA DeleteRecordStep ==
  ASSUME IInv, NEW id \in DOMAIN index, DeleteRecord(id)
  PROVE  IInv'
<1> DEFINE first == index[id]
           image == EmptyImage(first)
<1>1. /\ TypeOK /\ RunsTile /\ IdsUsedOnce /\ IndexSound
      /\ FreeListSound /\ JournalAgrees
      /\ pages \in [DataPages(total) -> Page]
      /\ DOMAIN pages = DataPages(total)
      /\ DataPages(total) \subseteq Int
  BY DEF IInv, TypeOK, DataPages
<1>2. /\ is_open' = is_open /\ total' = total /\ refused' = refused
      /\ header' = [header EXCEPT !.record_count = @ - 1]
      /\ free_list' = Released(free_list, first)
      /\ index' = [i \in DOMAIN index \ {id} |-> index[i]]
      /\ Write(image) /\ pages' = Overlay(pages, image)
  BY DEF DeleteRecord, Write
<1>3. /\ first \in ActivePages(pages) /\ first \in Int
      /\ pages[first].id = id
  BY <1>1 DEF IndexSound, ActivePages
<1>4. image \in [Run(first) -> Page]
  <2>1. EmptyPage \in Page
    BY DEF EmptyPage, Page
  <2> QED BY <2>1 DEF EmptyImage
<1>5. /\ Tiled(pages')
      /\ DOMAIN pages' = DOMAIN pages
      /\ ActivePages(pages') = ActivePages(pages) \ {first}
      /\ \A p \in ActivePages(pages') : pages'[p] = pages[p]
      /\ EmptyPages(pages') = EmptyPages(pages) \cup Run(first)
  BY <1>1, <1>2, <1>3, EraseRecordTiles DEF RunsTile
<1>6. /\ first \in Run(first)
      /\ Run(first) \subseteq DataPages(total)
  <2>1. first \in Run(first)
    BY <1>3, FirstInRun
  <2>2. Run(first) \subseteq DataPages(total)
    BY <1>1, <1>5 DEF EmptyPages
  <2> QED BY <2>1, <2>2
<1>7. /\ header' \in [record_count : Int, next_record_id : Nat \ {0},
                      journal_pending : BOOLEAN]
      /\ header'.next_record_id = header.next_record_id
      /\ header'.journal_pending = header.journal_pending
  <2>1. header \in [record_count : Int, next_record_id : Nat \ {0},
                    journal_pending : BOOLEAN]
    BY <1>1 DEF TypeOK
  <2>2. header.record_count - 1 \in Int
    BY <2>1
  <2> QED BY <2>1, <2>2, <1>2
<1>8. /\ pages' \in [DataPages(total') -> Page]
      /\ DOMAIN journal' \subseteq DataPages(total')
      /\ journal' \in [DOMAIN journal' -> Page]
      /\ JournalAgrees'
  <2>1. DataPages(total') = DataPages(total) \cup Run(first)
    BY <1>2, <1>6
  <2> QED BY <1>1, <1>2, <1>4, <1>7, <2>1, WriteJournals
<1>9. /\ free_list' = [free_page_count |-> free_list'.free_page_count,
                       listed          |-> free_list'.listed]
      /\ free_list'.free_page_count \in Int
      /\ free_list'.listed \subseteq free_list.listed \cup {first}
  <2>1. free_list.free_page_count \in Int /\ PagesNeeded \in Int
    BY <1>1, PagesNeededAssumption DEF TypeOK
  <2> QED BY <2>1, <1>2 DEF Released
<1>10. FreeListSound' /\ free_list'.listed \subseteq DataPages(total')
  BY <1>1, <1>2, <1>5, <1>6, <1>9 DEF FreeListSound, TypeOK
<1>11. IdsUsedOnce'
  BY <1>1, <1>5, <1>7 DEF IdsUsedOnce
<1> HIDE DEF first, image
<1>12. IndexSound'
  <2>1. SUFFICES ASSUME NEW i \in DOMAIN index'
                 PROVE  index'[i] \in ActivePages(pages')
                        /\ pages'[index'[i]].id = i
    BY DEF IndexSound
  <2>2. i \in DOMAIN index /\ i # id /\ index'[i] = index[i]
    BY <1>2
  <2>3. index[i] \in ActivePages(pages) /\ pages[index[i]].id = i
    BY <2>2, <1>1 DEF IndexSound
  <2>4. index[i] # first
    BY <2>2, <2>3, <1>3
  <2> QED BY <2>2, <2>3, <2>4, <1>5
<1>13. /\ DOMAIN index' \subseteq Nat
       /\ index' \in [DOMAIN index' -> DataPages(total')]
  BY <1>1, <1>2 DEF TypeOK
<1>14. TypeOK'
  BY <1>1, <1>2, <1>7, <1>8, <1>9, <1>10, <1>13 DEF TypeOK
<1> QED BY <1>5, <1>8, <1>10, <1>11, <1>12, <1>14 DEF IInv, RunsTile

-----------------------------------------------------------------------------
(* BeginTransaction, CommitTransaction and RollbackTransaction set the     *)
(* flag one way or the other and empty the journal.                        *)
LEMMA TransactionStep ==
  ASSUME IInv, BeginTransaction \/ EndTransaction
  PROVE  IInv'
<1>1. /\ header' \in [record_count : Int, next_record_id : Nat \ {0},
                      journal_pending : BOOLEAN]
      /\ header'.next_record_id = header.next_record_id
  BY DEF IInv, TypeOK, BeginTransaction, EndTransaction
<1>2. /\ UNCHANGED <<is_open, free_list, total, pages, index, refused>>
      /\ journal' = [p \in {} |-> EmptyPage]
  BY DEF BeginTransaction, EndTransaction
<1>3. TypeOK'
  BY <1>1, <1>2 DEF IInv, TypeOK
<1>4. RunsTile' /\ IndexSound' /\ FreeListSound' /\ IdsUsedOnce'
  BY <1>1, <1>2 DEF IInv, RunsTile, IndexSound, FreeListSound, IdsUsedOnce
<1>5. JournalAgrees'
  BY <1>2 DEF JournalAgrees
<1> QED BY <1>3, <1>4, <1>5 DEF IInv

(* The index and the free list that a scan of the file builds.             *)
LEMMA ScansSound ==
  ASSUME NEW t \in Nat, NEW pgs \in [DataPages(t) -> Page]
  PROVE  /\ DOMAIN ScanIndex(pgs) \subseteq Nat
         /\ ScanIndex(pgs) \in [DOMAIN ScanIndex(pgs) -> DataPages(t)]
<1>1. ScanIndex(pgs) = [id \in DOMAIN ScanIndex(pgs) |-> ScanIndex(pgs)[id]]
  BY DEF ScanIndex
<1>2. \A id \in DOMAIN ScanIndex(pgs) :
        /\ ScanIndex(pgs)[id] \in ActivePages(pgs)
        /\ pgs[ScanIndex(pgs)[id]].id = id
  BY ScanIndexSound
<1>3. \A p \in ActivePages(pgs) : p \in DataPages(t) /\ pgs[p].id \in Nat
  BY DEF ActivePages, Page
<1> QED BY <1>1, <1>2, <1>3

(* UpdateFreePages lists empty pages only.                                 *)
LEMMA UpdateFreePagesStep ==
  ASSUME IInv, UpdateFreePages
  PROVE  IInv'
<1>1. /\ UNCHANGED <<is_open, header, total, pages, index, journal, refused>>
      /\ free_list' = ScanFreePages(pages)
  BY DEF UpdateFreePages
<1>2. DOMAIN pages = DataPages(total) /\ total \in Int
  BY DEF IInv, TypeOK
<1>3. /\ free_list' = [free_page_count |-> free_list'.free_page_count,
                       listed          |-> free_list'.listed]
      /\ free_list'.free_page_count \in Int
      /\ free_list'.listed \subseteq EmptyPages(pages)
      /\ free_list'.listed \subseteq DataPages(total)
  <2>1. free_list'.free_page_count \in Nat
    BY <1>1, <1>2, ScanFreePagesSound
  <2>2. free_list'.free_page_count \in Int
    BY <2>1
  <2> QED BY <2>2, <1>1, <1>2, ScanFreePagesSound
<1>4. TypeOK'
  BY <1>1, <1>3 DEF IInv, TypeOK
<1>5. /\ RunsTile' /\ IndexSound' /\ FreeListSound' /\ IdsUsedOnce'
      /\ JournalAgrees'
  BY <1>1, <1>3
     DEF IInv, RunsTile, IndexSound, FreeListSound, IdsUsedOnce, JournalAgrees
<1> QED BY <1>4, <1>5 DEF IInv

(* RebuildIndex finds each id at the first page of its record.             *)
LEMMA RebuildIndexStep ==
  ASSUME IInv, RebuildIndex
  PROVE  IInv'
<1>1. /\ UNCHANGED <<is_open, header, free_list, total, pages, journal, refused>>
      /\ index' = ScanIndex(pages)
  BY DEF RebuildIndex
<1>2. total \in Nat /\ pages \in [DataPages(total) -> Page]
  BY DEF IInv, TypeOK
<1>3. /\ DOMAIN index' \subseteq Nat
      /\ index' \in [DOMAIN index' -> DataPages(total)]
  BY <1>1, <1>2, ScansSound
<1>4. IndexSound'
  BY <1>1, ScanIndexSound DEF IndexSound
<1>5. TypeOK'
  BY <1>1, <1>3 DEF IInv, TypeOK
<1>6. RunsTile' /\ FreeListSound' /\ IdsUsedOnce' /\ JournalAgrees'
  BY <1>1 DEF IInv, RunsTile, FreeListSound, IdsUsedOnce, JournalAgrees
<1> QED BY <1>4, <1>5, <1>6 DEF IInv

(* CompactDatabase: the records move, keep their ids and stay apart; both  *)
(* scans then describe the new pages.                                      *)
LEMMA CompactDatabaseStep ==
  ASSUME IInv, CompactDatabase
  PROVE  IInv'
<1> DEFINE A == ActivePages(pages)
<1>1. /\ UNCHANGED <<is_open, header, journal, refused>>
      /\ ~header.journal_pending
      /\ pages' = CompactedPages(pages)
      /\ total' = CompactedTotal(pages)
      /\ index' = ScanIndex(pages')
      /\ free_list' = ScanFreePages(pages')
  BY DEF CompactDatabase
<1>2. /\ total \in Int
      /\ pages \in [DataPages(total) -> Page]
      /\ Tiled(pages)
      /\ IdsUsedOnce
      /\ DOMAIN journal = {}
      /\ journal \in [DOMAIN journal -> Page]
  BY <1>1 DEF IInv, TypeOK, RunsTile, JournalAgrees
<1>3. /\ total' \in Nat /\ total' >= FirstDataPage
      /\ pages' \in [DataPages(total') -> Page]
      /\ Tiled(pages')
      /\ \A p \in A : pages'[Place(p, A)] = pages[p]
      /\ \A k \in ActivePages(pages') : \E p \in A : k = Place(p, A)
  BY <1>1, <1>2, CompactionTiles
<1>4. total' \in Int /\ DOMAIN pages' = DataPages(total')
  BY <1>3
<1>5. /\ free_list' = [free_page_count |-> free_list'.free_page_count,
                       listed          |-> free_list'.listed]
      /\ free_list'.free_page_count \in Int
      /\ free_list'.listed \subseteq EmptyPages(pages')
      /\ free_list'.listed \subseteq DataPages(total')
  <2>1. free_list'.free_page_count \in Nat
    BY <1>1, <1>4, ScanFreePagesSound
  <2>2. free_list'.free_page_count \in Int
    BY <2>1
  <2> QED BY <2>2, <1>1, <1>4, ScanFreePagesSound
<1>6. /\ DOMAIN index' \subseteq Nat
      /\ index' \in [DOMAIN index' -> DataPages(total')]
  BY <1>1, <1>3, ScansSound
<1>7. IndexSound'
  BY <1>1, ScanIndexSound DEF IndexSound
<1>8. IdsUsedOnce'
  <2>1. SUFFICES ASSUME NEW k \in ActivePages(pages')
                 PROVE  /\ pages'[k].id < header.next_record_id
                        /\ \A j \in ActivePages(pages') :
                             pages'[j].id = pages'[k].id => k = j
    BY <1>1 DEF IdsUsedOnce
  <2>2. PICK p \in A : k = Place(p, A)
    BY <1>3
  <2>3. pages'[k] = pages[p]
    BY <1>3, <2>2
  <2>4. pages'[k].id < header.next_record_id
    BY <1>2, <2>3 DEF IdsUsedOnce
  <2>5. ASSUME NEW j \in ActivePages(pages'), pages'[j].id = pages'[k].id
        PROVE  k = j
    <3>1. PICK q \in A : j = Place(q, A)
      BY <1>3
    <3>2. pages'[j] = pages[q]
      BY <1>3, <3>1
    <3>3. p = q
      BY <1>2, <2>3, <2>5, <3>2 DEF IdsUsedOnce
    <3> QED BY <2>2, <3>1, <3>3
  <2> QED BY <2>4, <2>5
<1>9. JournalAgrees'
  BY <1>1, <1>2 DEF JournalAgrees
<1>10. TypeOK'
  <2>1. DOMAIN journal' \subseteq DataPages(total')
        /\ journal' \in [DOMAIN journal' -> Page]
    BY <1>1, <1>2
  <2> QED BY <2>1, <1>1, <1>3, <1>5, <1>6 DEF IInv, TypeOK
<1> QED BY <1>3, <1>5, <1>7, <1>8, <1>9, <1>10
        DEF IInv, RunsTile, FreeListSound

(* Opening a database that was closed in the middle of a transaction: the  *)
(* journal holds what the pages hold, so replaying it changes none.        *)
LEMMA OpenDatabaseStep ==
  ASSUME IInv, OpenDatabase
  PROVE  IInv'
<1>1. CASE ~header.journal_pending
  <2>1. /\ is_open' = TRUE
        /\ UNCHANGED <<header, free_list, total, pages, index, journal, refused>>
    BY <1>1 DEF OpenDatabase
  <2>2. TypeOK'
    BY <2>1 DEF IInv, TypeOK
  <2> QED BY <2>1, <2>2 DEF IInv, RunsTile, IdsUsedOnce, IndexSound,
                            FreeListSound, JournalAgrees
<1>2. CASE header.journal_pending
  <2>1. /\ is_open' = TRUE
        /\ pages' = Overlay(pages, journal)
        /\ index' = ScanIndex(pages')
        /\ free_list' = ScanFreePages(pages')
        /\ header' = [header EXCEPT
                        !.record_count = Cardinality(ActivePages(pages')),
                        !.journal_pending = FALSE]
        /\ journal' = [p \in {} |-> EmptyPage]
        /\ UNCHANGED <<total, refused>>
    BY <1>2 DEF OpenDatabase, ReplayJournal
  <2>2. /\ total \in Nat /\ total \in Int
        /\ pages \in [DataPages(total) -> Page]
        /\ DOMAIN pages = DataPages(total)
        /\ header \in [record_count : Int, next_record_id : Nat \ {0},
                       journal_pending : BOOLEAN]
    BY DEF IInv, TypeOK
  <2>3. pages' = pages
    <3>1. \A p \in DOMAIN journal : p \in DOMAIN pages /\ journal[p] = pages[p]
      BY DEF IInv, JournalAgrees
    <3>2. pages' = [p \in DOMAIN pages |-> pages[p]]
      BY <2>1, <3>1 DEF Overlay
    <3> QED BY <2>2, <3>2
  <2>4. header' \in [record_count : Int, next_record_id : Nat \ {0},
                     journal_pending : BOOLEAN]
        /\ header'.next_record_id = header.next_record_id
    <3>1. Cardinality(ActivePages(pages')) \in Nat
      BY <2>2, <2>3, ActiveFinite
    <3>2. Cardinality(ActivePages(pages')) \in Int
      BY <3>1
    <3> QED BY <2>1, <2>2, <3>2
  <2>5. /\ free_list' = [free_page_count |-> free_list'.free_page_count,
                         listed          |-> free_list'.listed]
        /\ free_list'.free_page_count \in Int
        /\ free_list'.listed \subseteq EmptyPages(pages')
        /\ free_list'.listed \subseteq DataPages(total)
    <3>1. free_list' = ScanFreePages(pages)
      BY <2>1, <2>3
    <3>2. free_list'.free_page_count \in Nat
      BY <3>1, <2>2, ScanFreePagesSound
    <3>3. free_list'.free_page_count \in Int
      BY <3>2
    <3> QED BY <2>2, <2>3, <3>1, <3>3, ScanFreePagesSound
  <2>6. /\ DOMAIN index' \subseteq Nat
        /\ index' \in [DOMAIN index' -> DataPages(total)]
    BY <2>1, <2>2, <2>3, ScansSound
  <2>7. IndexSound'
    BY <2>1, ScanIndexSound DEF IndexSound
  <2>8. TypeOK'
    BY <2>1, <2>2, <2>3, <2>4, <2>5, <2>6 DEF IInv, TypeOK
  <2>9. RunsTile' /\ IdsUsedOnce'
    BY <2>3, <2>4 DEF IInv, RunsTile, IdsUsedOnce
  <2>10. FreeListSound' /\ JournalAgrees'
    BY <2>1, <2>5 DEF FreeListSound, JournalAgrees
  <2> QED BY <2>7, <2>8, <2>9, <2>10 DEF IInv
<1> QED BY <1>1, <1>2

-----------------------------------------------------------------------------
(* A freshly created database satisfies the invariant.                     *)
LEMMA InitIInv == Init => IInv
<1> SUFFICES ASSUME Init PROVE IInv
  OBVIOUS
<1>1. /\ total = 2 /\ DataPages(total) = {}
      /\ pages = [p \in {} |-> EmptyPage] /\ DOMAIN pages = {}
      /\ index = [id \in {} |-> 0] /\ DOMAIN index = {}
      /\ journal = [p \in {} |-> EmptyPage] /\ DOMAIN journal = {}
  BY DEF Init, DataPages
<1>2. /\ free_list.free_page_count = 0 /\ free_list.listed = {}
      /\ free_list = [free_page_count |-> free_list.free_page_count,
                      listed          |-> free_list.listed]
  BY DEF Init
<1>3. TypeOK
  <2>1. /\ header \in [record_count : Int, next_record_id : Nat \ {0},
                       journal_pending : BOOLEAN]
    BY DEF Init
  <2>2. is_open = TRUE /\ refused = FALSE
    BY DEF Init
  <2>3. is_open \in BOOLEAN /\ refused \in BOOLEAN
    BY <2>2
  <2>4. /\ pages \in [DataPages(total) -> Page]
        /\ index \in [DOMAIN index -> DataPages(total)]
        /\ journal \in [DOMAIN journal -> Page]
    BY <1>1
  <2> QED BY <1>1, <1>2, <2>1, <2>3, <2>4 DEF TypeOK
<1>4. ActivePages(pages) = {}
  BY <1>1 DEF ActivePages
<1> QED BY <1>1, <1>2, <1>3, <1>4 DEF IInv, RunsTile, Tiled, IdsUsedOnce,
                                      IndexSound, FreeListSound, JournalAgrees

(* No call breaks it, and neither does a step that changes nothing.        *)
LEMMA NextIInv == IInv /\ [Next]_vars => IInv'
<1> SUFFICES ASSUME IInv, [Next]_vars PROVE IInv'
  OBVIOUS
<1>1. CASE \E v \in Data : AddRecord(v) \/ AddRecordRefused(v)
  BY <1>1, AddRecordStep, AddRecordRefusedStep
<1>2. CASE \E id \in DOMAIN index : DeleteRecord(id)
                                    \/ \E v \in Data : UpdateRecord(id, v)
  BY <1>2, DeleteRecordStep, UpdateRecordStep
<1>3. CASE BeginTransaction \/ CommitTransaction \/ RollbackTransaction
  BY <1>3, TransactionStep DEF CommitTransaction, RollbackTransaction
<1>4. CASE UpdateFreePages
  BY <1>4, UpdateFreePagesStep
<1>5. CASE RebuildIndex
  BY <1>5, RebuildIndexStep
<1>6. CASE CompactDatabase
  BY <1>6, CompactDatabaseStep
<1>7. CASE CloseDatabase
  <2>1. /\ is_open' = FALSE
        /\ UNCHANGED <<header, free_list, total, pages, index, journal, refused>>
    BY <1>7 DEF CloseDatabase
  <2>2. TypeOK'
    BY <2>1 DEF IInv, TypeOK
  <2> QED BY <2>1, <2>2 DEF IInv, RunsTile, IdsUsedOnce, IndexSound,
                            FreeListSound, JournalAgrees
<1>8. CASE OpenDatabase
  BY <1>8, OpenDatabaseStep
<1>9. CASE UNCHANGED vars
  <2>1. TypeOK'
    BY <1>9 DEF vars, IInv, TypeOK
  <2> QED BY <1>9, <2>1 DEF vars, IInv, RunsTile, IdsUsedOnce, IndexSound,
                            FreeListSound, JournalAgrees
<1> QED BY <1>1, <1>2, <1>3, <1>4, <1>5, <1>6, <1>7, <1>8, <1>9 DEF Next

(* The inductive invariant always holds.                                   *)
THEOREM Invariance == Spec => []IInv
BY InitIInv, NextIInv, PTL DEF Spec

(* Every variable keeps its shape: the index and the journal only name     *)
(* data pages of the file, and the free list only lists such pages.        *)
THEOREM TypeCorrect == Spec => []TypeOK
<1>1. IInv => TypeOK
  BY DEF IInv
<1> QED BY <1>1, Invariance, PTL

(* AddRecord, UpdateRecord, DeleteRecord and CompactDatabase (outside      *)
(* transactions) never cut into a neighbouring record, whatever the record *)
(* size.                                                                   *)
THEOREM RecordsNeverOverlap == Spec => []RunsTile
<1>1. IInv => RunsTile
  BY DEF IInv
<1> QED BY <1>1, Invariance, PTL

(* While nothing crashes, no id is ever on two records, and the counter is *)
(* past all of them.                                                       *)
THEOREM IdsNeverReused == Spec => []IdsUsedOnce
<1>1. IInv => IdsUsedOnce
  BY DEF IInv
<1> QED BY <1>1, Invariance, PTL

(* The primary index never leads UpdateRecord, DeleteRecord or             *)
(* FindRecordByID to a page that is not the first page of the record asked *)
(* for.                                                                    *)
THEOREM IndexAlwaysSound == Spec => []IndexSound
<1>1. IInv => IndexSound
  BY DEF IInv
<1> QED BY <1>1, Invariance, PTL

(* AllocatePages never hands out a page that a record uses.                *)
THEOREM FreeListAlwaysSound == Spec => []FreeListSound
<1>1. IInv => FreeListSound
  BY DEF IInv
<1> QED BY <1>1, Invariance, PTL

(* ReplayJournal after a close in the middle of a transaction finds in the *)
(* journal what the pages already hold.                                    *)
THEOREM ReplayRestoresNothingOld == Spec => []JournalAgrees
<1>1. IInv => JournalAgrees
  BY DEF IInv
<1> QED BY <1>1, Invariance, PTL

-----------------------------------------------------------------------------
(***************************************************************************)
(* 2. The stored counts                                                    *)
(***************************************************************************)

(* While no AddRecord was refused the index holds every record.            *)
IndexComplete ==
  ~refused => /\ ValidateDatabase
              /\ Cardinality(ActivePages(pages)) <= LeafKeys

-----------------------------------------------------------------------------
(* A record occupies PagesNeeded pages.                                    *)
LEMMA RunSize ==
  ASSUME NEW p \in Int
  PROVE  IsFiniteSet(Run(p)) /\ Cardinality(Run(p)) = PagesNeeded
<1>1. PagesNeeded \in Int /\ PagesNeeded >= 1
  BY PagesNeededAssumption
<1>2. p + PagesNeeded - 1 \in Int /\ ~(p > p + PagesNeeded - 1)
      /\ (p + PagesNeeded - 1) - p + 1 = PagesNeeded
  BY <1>1
<1>3. /\ IsFiniteSet(p .. (p + PagesNeeded - 1))
      /\ Cardinality(p .. (p + PagesNeeded - 1)) = PagesNeeded
  BY <1>2, FS_Interval
<1> QED BY <1>3 DEF Run

(* The count and the pages it stands for, in one place.                    *)
LEMMA PagesFinite ==
  ASSUME TypeOK
  PROVE  /\ IsFiniteSet(EmptyPages(pages)) /\ IsFiniteSet(ActivePages(pages))
         /\ Cardinality(EmptyPages(pages)) \in Int
         /\ Cardinality(ActivePages(pages)) \in Int
         /\ ActivePages(pages) \subseteq Int
<1>1. total \in Int /\ DOMAIN pages = DataPages(total)
  BY DEF TypeOK
<1>2. /\ Cardinality(EmptyPages(pages)) \in Nat
      /\ Cardinality(ActivePages(pages)) \in Nat
      /\ IsFiniteSet(EmptyPages(pages)) /\ IsFiniteSet(ActivePages(pages))
      /\ ActivePages(pages) \subseteq Int
  BY <1>1, ActiveFinite
<1> QED BY <1>2

(* AllocatePages takes PagesNeeded off the count exactly when the run it   *)
(* hands out was made of empty pages of the file.                          *)
LEMMA AllocationCounts ==
  ASSUME IInv, FreeCountExact, NEW alloc \in Allocations
  PROVE  alloc.free_list.free_page_count
           = Cardinality(EmptyPages(pages) \ Run(alloc.first))
<1> DEFINE fl == RefilledFreeList
           E  == EmptyPages(pages)
<1>1. /\ total \in Nat /\ total \in Int /\ DOMAIN pages = DataPages(total)
      /\ E \subseteq DataPages(total)
      /\ IsFiniteSet(E) /\ Cardinality(E) \in Int
      /\ PagesNeeded \in Nat \ {0}
  BY PagesNeededAssumption, PagesFinite DEF IInv, TypeOK, EmptyPages
<1>2. fl.free_page_count = Cardinality(E) /\ fl.listed \subseteq E
  <2>1. CASE fl = free_list
    BY <2>1 DEF IInv, FreeListSound, FreeCountExact
  <2>2. CASE fl = ScanFreePages(pages)
    BY <2>2, <1>1, ScanFreePagesSound
  <2> QED BY <2>1, <2>2 DEF RefilledFreeList
<1>3. \/ alloc = [first |-> total, free_list |-> fl,
                  total |-> total + PagesNeeded]
      \/ \E p \in FreeRuns(fl.listed) :
           alloc = [first     |-> p,
                    free_list |->
                      [free_page_count |-> fl.free_page_count - PagesNeeded,
                       listed          |-> fl.listed \ Run(p)],
                    total     |-> total]
  BY DEF Allocations
<1> HIDE DEF fl, E
<1>4. ASSUME alloc.first = total, alloc.free_list = fl
      PROVE  alloc.free_list.free_page_count
               = Cardinality(E \ Run(alloc.first))
  <2>1. Run(total) \cap DataPages(total) = {}
    BY <1>1 DEF Run, DataPages
  <2>2. E \ Run(total) = E
    BY <2>1, <1>1
  <2> QED BY <2>2, <1>2, <1>4
<1>5. ASSUME NEW p \in FreeRuns(fl.listed), alloc.first = p,
             alloc.free_list.free_page_count = fl.free_page_count - PagesNeeded
      PROVE  alloc.free_list.free_page_count
               = Cardinality(E \ Run(alloc.first))
  <2>1. Run(p) \subseteq E /\ p \in E
    BY <1>2 DEF FreeRuns
  <2>2. p \in Int
    BY <2>1, <1>1 DEF DataPages
  <2>3. E \cap Run(p) = Run(p)
    BY <2>1
  <2>4. Cardinality(E \ Run(p)) = Cardinality(E) - Cardinality(E \cap Run(p))
    BY <1>1, FS_Difference
  <2>5. Cardinality(Run(p)) = PagesNeeded
    BY <2>2, RunSize
  <2> QED BY <2>3, <2>4, <2>5, <1>2, <1>5
<1> QED BY <1>3, <1>4, <1>5 DEF E

-----------------------------------------------------------------------------
(* What each kind of write does to the sets that are counted.              *)

(* A new record: its pages stop being empty and one page becomes active.   *)
LEMMA NewRecordSets ==
  ASSUME IInv, NEW v \in Data, NEW alloc \in Allocations,
         StoreNewRecord(v, alloc)
  PROVE  /\ alloc.first \notin ActivePages(pages)
         /\ ActivePages(pages') = ActivePages(pages) \cup {alloc.first}
         /\ EmptyPages(pages') = EmptyPages(pages) \ Run(alloc.first)
         /\ pages'[alloc.first].id = header.next_record_id
         /\ \A p \in ActivePages(pages) : pages'[p] = pages[p]
<1> DEFINE first == alloc.first
<1>1. /\ TypeOK /\ RunsTile /\ FreeListSound
      /\ DOMAIN pages \subseteq Int
  BY DEF IInv, TypeOK, DataPages
<1>2. first \in Int
  <2>1. first \in Nat
    BY <1>1, AllocationSound
  <2> QED BY <2>1
<1>3. \A p \in ActivePages(pages) :
        p # first /\ Run(p) \cap Run(first) = {}
  BY <1>1, AllocationApart
<1>4. pages' = Overlay(pages, RecordImage(header.next_record_id, first, v))
  BY DEF StoreNewRecord, Write
<1>5. /\ ActivePages(pages') = ActivePages(pages) \cup {first}
      /\ \A p \in ActivePages(pages) : p # first => pages'[p] = pages[p]
      /\ pages'[first] = [id     |-> header.next_record_id,
                          status |-> PS_ACTIVE, data |-> v]
      /\ EmptyPages(pages') = EmptyPages(pages) \ Run(first)
  BY <1>1, <1>2, <1>3, <1>4, WriteRecordTiles DEF RunsTile
<1>6. pages'[first].id = header.next_record_id
  BY <1>5
<1> QED BY <1>3, <1>5, <1>6

(* An update rewrites pages in use: no page becomes empty or active.       *)
LEMMA UpdateRecordSets ==
  ASSUME IInv, NEW id \in DOMAIN index, NEW v \in Data, UpdateRecord(id, v)
  PROVE  /\ ActivePages(pages') = ActivePages(pages)
         /\ EmptyPages(pages') = EmptyPages(pages)
         /\ \A p \in ActivePages(pages) : pages'[p].id = pages[p].id
<1> DEFINE first == index[id]
<1>1. /\ RunsTile /\ IndexSound
      /\ DOMAIN pages \subseteq Int
  BY DEF IInv, TypeOK, DataPages
<1>2. /\ first \in ActivePages(pages) /\ first \in Int
      /\ pages[first].id = id /\ pages[first].status = PS_ACTIVE
  BY <1>1 DEF IndexSound, ActivePages
<1>3. pages' = Overlay(pages, RecordImage(id, first, v))
  BY DEF UpdateRecord, Write
<1>4. \A p \in ActivePages(pages) : p # first => Run(p) \cap Run(first) = {}
  BY <1>1, <1>2, RunsDisjoint DEF RunsTile
<1>5. /\ ActivePages(pages') = ActivePages(pages) \cup {first}
      /\ \A p \in ActivePages(pages) : p # first => pages'[p] = pages[p]
      /\ pages'[first] = [id |-> id, status |-> PS_ACTIVE, data |-> v]
      /\ EmptyPages(pages') = EmptyPages(pages) \ Run(first)
  BY <1>1, <1>2, <1>3, <1>4, WriteRecordTiles DEF RunsTile
<1>6. \A q \in Run(first) : pages[q].status # PS_EMPTY
  <2>1. ASSUME NEW q \in Run(first), q # first
        PROVE  pages[q].status = PS_CONTINUATION
    BY <2>1, <1>1, <1>2, TiledRuns DEF RunsTile
  <2> QED BY <1>2, <2>1
<1>7. pages'[first].id = id
  BY <1>5
<1> HIDE DEF first
<1>8. EmptyPages(pages') = EmptyPages(pages)
  BY <1>5, <1>6 DEF EmptyPages
<1> QED BY <1>2, <1>5, <1>7, <1>8

(* A delete empties one record: its pages become empty, and its first page *)
(* stops being active.                                                     *)
LEMMA DeleteRecordSets ==
  ASSUME IInv, NEW id \in DOMAIN index, DeleteRecord(id)
  PROVE  /\ index[id] \in ActivePages(pages)
         /\ index[id] \in Int
         /\ ActivePages(pages') = ActivePages(pages) \ {index[id]}
         /\ EmptyPages(pages') = EmptyPages(pages) \cup Run(index[id])
         /\ EmptyPages(pages) \cap Run(index[id]) = {}
         /\ \A p \in ActivePages(pages') : pages'[p] = pages[p]
<1> DEFINE first == index[id]
<1>1. /\ RunsTile /\ IndexSound
      /\ DOMAIN pages \subseteq Int
  BY DEF IInv, TypeOK, DataPages
<1>2. /\ first \in ActivePages(pages) /\ first \in Int
      /\ pages[first].status = PS_ACTIVE
  BY <1>1 DEF IndexSound, ActivePages
<1>3. pages' = Overlay(pages, EmptyImage(first))
  BY DEF DeleteRecord, Write
<1>4. /\ ActivePages(pages') = ActivePages(pages) \ {first}
      /\ \A p \in ActivePages(pages') : pages'[p] = pages[p]
      /\ EmptyPages(pages') = EmptyPages(pages) \cup Run(first)
  BY <1>1, <1>2, <1>3, EraseRecordTiles DEF RunsTile
<1>5. \A q \in Run(first) : pages[q].status # PS_EMPTY
  <2>1. ASSUME NEW q \in Run(first), q # first
        PROVE  pages[q].status = PS_CONTINUATION
    BY <2>1, <1>1, <1>2, TiledRuns DEF RunsTile
  <2> QED BY <1>2, <2>1
<1> HIDE DEF first
<1>6. EmptyPages(pages) \cap Run(first) = {}
  BY <1>5 DEF EmptyPages
<1> QED BY <1>2, <1>4, <1>6 DEF first

(* Replaying the journal of a database closed in the middle of a           *)
(* transaction writes what is there.                                       *)
LEMMA ReplayChangesNothing ==
  ASSUME IInv, OpenDatabase
  PROVE  pages' = pages
<1>1. CASE ~header.journal_pending
  BY <1>1 DEF OpenDatabase
<1>2. CASE header.journal_pending
  <2>1. \A p \in DOMAIN journal : p \in DOMAIN pages /\ journal[p] = pages[p]
    BY DEF IInv, JournalAgrees
  <2>2. pages' = Overlay(pages, journal)
    BY <1>2 DEF OpenDatabase, ReplayJournal
  <2>3. pages' = [p \in DOMAIN pages |-> pages[p]]
    BY <2>1, <2>2 DEF Overlay
  <2> QED BY <2>3 DEF IInv, TypeOK
<1> QED BY <1>1, <1>2

-----------------------------------------------------------------------------
(* No call makes free_page_count differ from the number of empty pages.    *)
LEMMA NextFreeCount ==
  IInv /\ IInv' /\ FreeCountExact /\ [Next]_vars => FreeCountExact'
<1> SUFFICES ASSUME IInv, IInv', FreeCountExact, [Next]_vars
             PROVE  FreeCountExact'
  OBVIOUS
<1>1. /\ total' \in Int /\ DOMAIN pages' = DataPages(total')
      /\ total \in Int /\ DOMAIN pages = DataPages(total)
  BY DEF IInv, TypeOK
<1>2. ASSUME free_list' = ScanFreePages(pages')
      PROVE  FreeCountExact'
  BY <1>1, <1>2, ScanFreePagesSound DEF FreeCountExact
<1>3. ASSUME free_list' = free_list, EmptyPages(pages') = EmptyPages(pages)
      PROVE  FreeCountExact'
  BY <1>3 DEF FreeCountExact
<1>4. ASSUME NEW v \in Data, AddRecord(v) \/ AddRecordRefused(v)
      PROVE  FreeCountExact'
  <2>1. PICK alloc \in Allocations : StoreNewRecord(v, alloc)
    BY <1>4 DEF AddRecord, AddRecordRefused
  <2>2. free_list' = alloc.free_list
    BY <2>1 DEF StoreNewRecord
  <2> QED BY <2>1, <2>2, AllocationCounts, NewRecordSets DEF FreeCountExact
<1>5. ASSUME NEW id \in DOMAIN index, DeleteRecord(id)
      PROVE  FreeCountExact'
  <2> DEFINE first == index[id]
  <2>1. /\ first \in Int
        /\ EmptyPages(pages') = EmptyPages(pages) \cup Run(first)
        /\ EmptyPages(pages) \cap Run(first) = {}
    BY <1>5, DeleteRecordSets
  <2>2. IsFiniteSet(EmptyPages(pages)) /\ Cardinality(EmptyPages(pages)) \in Int
    BY PagesFinite DEF IInv
  <2>3. IsFiniteSet(Run(first)) /\ Cardinality(Run(first)) = PagesNeeded
    BY <2>1, RunSize
  <2>4. Cardinality(EmptyPages(pages) \cup Run(first))
          = Cardinality(EmptyPages(pages)) + PagesNeeded
              - Cardinality(EmptyPages(pages) \cap Run(first))
    BY <2>2, <2>3, FS_Union
  <2>5. Cardinality(EmptyPages(pages) \cap Run(first)) = 0
    BY <2>1, FS_EmptySet
  <2>6. free_list'.free_page_count = free_list.free_page_count + PagesNeeded
    BY <1>5 DEF DeleteRecord, Released
  <2>7. PagesNeeded \in Int
    BY PagesNeededAssumption
  <2>8. Cardinality(EmptyPages(pages'))
          = Cardinality(EmptyPages(pages)) + PagesNeeded
    BY <2>1, <2>2, <2>4, <2>5, <2>7
  <2> QED BY <2>6, <2>8 DEF FreeCountExact
<1>6. ASSUME NEW id \in DOMAIN index, NEW v \in Data, UpdateRecord(id, v)
      PROVE  FreeCountExact'
  <2>1. EmptyPages(pages') = EmptyPages(pages)
    BY <1>6, UpdateRecordSets
  <2> QED BY <1>6, <1>3, <2>1 DEF UpdateRecord
<1>7. CASE \/ BeginTransaction \/ CommitTransaction \/ RollbackTransaction
           \/ RebuildIndex \/ CloseDatabase
  BY <1>7, <1>3 DEF BeginTransaction, CommitTransaction, RollbackTransaction,
                    EndTransaction, RebuildIndex, CloseDatabase
<1>8. CASE UpdateFreePages \/ CompactDatabase
  BY <1>8, <1>2 DEF UpdateFreePages, CompactDatabase
<1>9. CASE OpenDatabase
  <2>1. CASE ~header.journal_pending
    BY <1>9, <2>1, <1>3 DEF OpenDatabase
  <2>2. CASE header.journal_pending
    BY <1>9, <2>2, <1>2 DEF OpenDatabase, ReplayJournal
  <2> QED BY <2>1, <2>2
<1>10. CASE UNCHANGED vars
  BY <1>10, <1>3 DEF vars
<1> QED BY <1>4, <1>5, <1>6, <1>7, <1>8, <1>9, <1>10 DEF Next

(* ReleasePages, AllocatePages and UpdateFreePages agree on how many pages *)
(* are free, although the list leaves some of them out: for every record   *)
(* size and every list capacity free_page_count is the number of empty     *)
(* pages.                                                                  *)
THEOREM FreeCountAlwaysExact == Spec => []FreeCountExact
<1>1. Init => FreeCountExact
  <2> SUFFICES ASSUME Init PROVE FreeCountExact
    OBVIOUS
  <2>1. EmptyPages(pages) = {} /\ free_list.free_page_count = 0
    BY DEF Init, EmptyPages
  <2>2. Cardinality(EmptyPages(pages)) = 0
    BY <2>1, FS_EmptySet
  <2> QED BY <2>1, <2>2 DEF FreeCountExact
<1> QED BY <1>1, NextFreeCount, Invariance, PTL DEF Spec

-----------------------------------------------------------------------------
(* The index and the active pages correspond one to one.                   *)

(* A key for every active page, of which each names its page, makes as     *)
(* many keys as active pages: a leaf with room has room for one more       *)
(* record.                                                                 *)
LEMMA KeysAreRecords ==
  ASSUME IInv, ValidateDatabase
  PROVE  Cardinality(DOMAIN index) = Cardinality(ActivePages(pages))
<1> DEFINE A == ActivePages(pages)
           f == [p \in A |-> pages[p].id]
<1>1. IsFiniteSet(A)
  BY PagesFinite DEF IInv
<1>2. f \in [A -> DOMAIN index]
  BY DEF ValidateDatabase
<1>3. \A p, q \in A : f[p] = f[q] => p = q
  BY DEF IInv, IdsUsedOnce
<1>4. \A id \in DOMAIN index : \E p \in A : f[p] = id
  BY DEF IInv, IndexSound
<1>5. f \in Bijection(A, DOMAIN index)
  BY <1>2, <1>3, <1>4 DEF Bijection, Injection, Surjection, IsInjective
<1>6. ExistsBijection(A, DOMAIN index)
  BY <1>5 DEF ExistsBijection
<1> QED BY <1>1, <1>6, FS_Bijection

(* The scan of RebuildIndex keeps every active page when they fit in the   *)
(* leaf.                                                                   *)
LEMMA ScanIndexComplete ==
  ASSUME NEW t \in Int, NEW pgs, DOMAIN pgs = DataPages(t),
         Cardinality(ActivePages(pgs)) <= LeafKeys,
         \A p, q \in ActivePages(pgs) : pgs[p].id = pgs[q].id => p = q,
         NEW p \in ActivePages(pgs)
  PROVE  /\ pgs[p].id \in DOMAIN ScanIndex(pgs)
         /\ ScanIndex(pgs)[pgs[p].id] = p
<1> DEFINE A == ActivePages(pgs)
           kept == FirstOf(LeafKeys, A)
<1>1. /\ IsFiniteSet(A) /\ A \subseteq Int /\ Cardinality(A) \in Nat
      /\ LeafKeys \in Nat
  BY ActiveFinite, LeafKeysAssumption
<1>2. \A q \in A : Rank(q, A) < LeafKeys
  <2>1. SUFFICES ASSUME NEW q \in A PROVE Rank(q, A) < LeafKeys
    OBVIOUS
  <2>2. Rank(q, A) \in 0 .. (Cardinality(A) - 1)
    BY <1>1, RankRange
  <2> QED BY <2>2, <1>1
<1>3. kept = A
  BY <1>2 DEF FirstOf
<1>4. ScanIndex(pgs) = [id \in {pgs[q].id : q \in A} |->
                          CHOOSE q \in A : pgs[q].id = id]
  BY <1>3 DEF ScanIndex
<1> HIDE DEF A
<1>5. p \in A /\ \A q \in A : pgs[q].id = pgs[p].id => q = p
  BY DEF A
<1>6. (CHOOSE q \in A : pgs[q].id = pgs[p].id) = p
  BY <1>5
<1> QED BY <1>4, <1>5, <1>6

(* So a scan of the file rebuilds a complete index.                        *)
LEMMA ScanCompletes ==
  ASSUME IInv', index' = ScanIndex(pages'),
         Cardinality(ActivePages(pages')) <= LeafKeys,
         header'.record_count = Cardinality(ActivePages(pages'))
  PROVE  IndexComplete'
<1>1. total' \in Int /\ DOMAIN pages' = DataPages(total')
  BY DEF IInv, TypeOK
<1>2. \A p, q \in ActivePages(pages') : pages'[p].id = pages'[q].id => p = q
  BY DEF IInv, IdsUsedOnce
<1>3. ASSUME NEW p \in ActivePages(pages')
      PROVE  /\ pages'[p].id \in DOMAIN index'
             /\ index'[pages'[p].id] = p
  BY <1>1, <1>2, ScanIndexComplete
<1> QED BY <1>3 DEF IndexComplete, ValidateDatabase

(* A step that leaves the active pages, their ids, the index and the count *)
(* alone.                                                                  *)
LEMMA SameRecords ==
  ASSUME IndexComplete, refused' = refused, index' = index,
         header'.record_count = header.record_count,
         ActivePages(pages') = ActivePages(pages),
         \A p \in ActivePages(pages) : pages'[p].id = pages[p].id
  PROVE  IndexComplete'
BY DEF IndexComplete, ValidateDatabase

(* AddRecord: the key it adds is of the one page that became active.       *)
LEMMA AddRecordComplete ==
  ASSUME IInv, IndexComplete, NEW v \in Data, AddRecord(v)
  PROVE  IndexComplete'
<1> SUFFICES ASSUME ~refused'
             PROVE  /\ ValidateDatabase'
                    /\ Cardinality(ActivePages(pages')) <= LeafKeys
  BY DEF IndexComplete
<1>1. PICK alloc \in Allocations :
        /\ StoreNewRecord(v, alloc)
        /\ LeafHasRoom
        /\ index' = [id \in DOMAIN index \cup {header.next_record_id} |->
                       IF id = header.next_record_id THEN alloc.first
                                                     ELSE index[id]]
        /\ header' = [header EXCEPT !.record_count = @ + 1,
                                    !.next_record_id = @ + 1]
        /\ refused' = refused
  BY DEF AddRecord
<1> DEFINE A == ActivePages(pages)
           first == alloc.first
<1>2. ValidateDatabase /\ Cardinality(A) <= LeafKeys
  BY <1>1 DEF IndexComplete
<1>3. /\ first \notin A
      /\ ActivePages(pages') = A \cup {first}
      /\ pages'[first].id = header.next_record_id
      /\ \A p \in A : pages'[p] = pages[p]
  BY <1>1, NewRecordSets
<1>4. IsFiniteSet(A) /\ Cardinality(A) \in Int
  BY PagesFinite DEF IInv
<1>5. Cardinality(ActivePages(pages')) = Cardinality(A) + 1
  BY <1>3, <1>4, FS_AddElement
<1>6. header'.record_count = header.record_count + 1
  <2>1. header \in [record_count : Int, next_record_id : Nat \ {0},
                    journal_pending : BOOLEAN]
    BY DEF IInv, TypeOK
  <2> QED BY <2>1, <1>1
<1>7. Cardinality(A) + 1 <= LeafKeys
  <2>1. Cardinality(A) < LeafKeys
    BY <1>1, <1>2, KeysAreRecords DEF LeafHasRoom
  <2>2. LeafKeys \in Int
    BY LeafKeysAssumption
  <2> QED BY <2>1, <2>2, <1>4
<1>8. ASSUME NEW p \in A
      PROVE  pages'[p].id \in DOMAIN index' /\ index'[pages'[p].id] = p
  <2>1. pages[p].id \in DOMAIN index /\ index[pages[p].id] = p
    BY <1>2 DEF ValidateDatabase
  <2>2. pages[p].id # header.next_record_id
    <3>1. pages[p].id < header.next_record_id
      BY DEF IInv, IdsUsedOnce
    <3>2. header.next_record_id \in Int
      BY DEF IInv, TypeOK
    <3> QED BY <3>1, <3>2
  <2>3. pages'[p] = pages[p]
    BY <1>3
  <2> QED BY <2>1, <2>2, <2>3, <1>1
<1>9. /\ pages'[first].id \in DOMAIN index'
      /\ index'[pages'[first].id] = first
  BY <1>1, <1>3
<1>10. header.record_count = Cardinality(A)
  BY <1>2 DEF ValidateDatabase
<1> HIDE DEF A, first
<1>11. ValidateDatabase'
  BY <1>3, <1>5, <1>6, <1>8, <1>9, <1>10 DEF ValidateDatabase
<1> QED BY <1>5, <1>7, <1>11

(* DeleteRecord removes one record and the key that names it.              *)
LEMMA DeleteRecordComplete ==
  ASSUME IInv, IndexComplete, NEW id \in DOMAIN index, DeleteRecord(id)
  PROVE  IndexComplete'
<1> SUFFICES ASSUME ~refused'
             PROVE  /\ ValidateDatabase'
                    /\ Cardinality(ActivePages(pages')) <= LeafKeys
  BY DEF IndexComplete
<1> DEFINE A == ActivePages(pages)
           first == index[id]
<1>1. /\ index' = [i \in DOMAIN index \ {id} |-> index[i]]
      /\ header' = [header EXCEPT !.record_count = @ - 1]
      /\ refused' = refused
  BY DEF DeleteRecord
<1>2. ValidateDatabase /\ Cardinality(A) <= LeafKeys
  BY <1>1 DEF IndexComplete
<1>3. /\ first \in A
      /\ ActivePages(pages') = A \ {first}
      /\ \A p \in ActivePages(pages') : pages'[p] = pages[p]
  BY DeleteRecordSets
<1>4. IsFiniteSet(A) /\ Cardinality(A) \in Int
  BY PagesFinite DEF IInv
<1>5. Cardinality(ActivePages(pages')) = Cardinality(A) - 1
  BY <1>3, <1>4, FS_RemoveElement
<1>6. header'.record_count = header.record_count - 1
  <2>1. header \in [record_count : Int, next_record_id : Nat \ {0},
                    journal_pending : BOOLEAN]
    BY DEF IInv, TypeOK
  <2> QED BY <2>1, <1>1
<1>7. Cardinality(A) - 1 <= LeafKeys
  BY <1>2, <1>4, LeafKeysAssumption
<1>8. ASSUME NEW p \in ActivePages(pages')
      PROVE  pages'[p].id \in DOMAIN index' /\ index'[pages'[p].id] = p
  <2>1. p \in A /\ p # first /\ pages'[p] = pages[p]
    BY <1>3
  <2>2. pages[p].id \in DOMAIN index /\ index[pages[p].id] = p
    BY <2>1, <1>2 DEF ValidateDatabase
  <2>3. pages[p].id # id
    BY <2>1, <2>2
  <2> QED BY <2>1, <2>2, <2>3, <1>1
<1>9. header.record_count = Cardinality(A)
  BY <1>2 DEF ValidateDatabase
<1> HIDE DEF A, first
<1>10. ValidateDatabase'
  BY <1>5, <1>6, <1>8, <1>9 DEF ValidateDatabase
<1> QED BY <1>5, <1>7, <1>10

(* Compaction moves the records and neither loses nor doubles one.         *)
LEMMA CompactionKeepsCount ==
  ASSUME NEW t \in Int, NEW pgs \in [DataPages(t) -> Page], Tiled(pgs)
  PROVE  Cardinality(ActivePages(CompactedPages(pgs)))
           = Cardinality(ActivePages(pgs))
<1> DEFINE A == ActivePages(pgs)
           B == ActivePages(CompactedPages(pgs))
           f == [p \in A |-> Place(p, A)]
<1>1. /\ \A p \in A : Place(p, A) \in B
      /\ \A k \in B : \E p \in A : k = Place(p, A)
      /\ \A p, q \in A : Place(p, A) = Place(q, A) => p = q
  BY CompactionTiles
<1>2. IsFiniteSet(A)
  BY ActiveFinite
<1> HIDE DEF A, B
<1>3. /\ f \in [A -> B]
      /\ \A p, q \in A : f[p] = f[q] => p = q
      /\ \A k \in B : \E p \in A : f[p] = k
  BY <1>1
<1>4. f \in Bijection(A, B)
  BY <1>3 DEF Bijection, Injection, Surjection, IsInjective
<1>5. ExistsBijection(A, B)
  BY <1>4 DEF ExistsBijection
<1> QED BY <1>2, <1>5, FS_Bijection DEF A, B

(* No call makes the index incomplete, except the AddRecord that says so.  *)
LEMMA NextIndexComplete ==
  IInv /\ IInv' /\ IndexComplete /\ [Next]_vars => IndexComplete'
<1> SUFFICES ASSUME IInv, IInv', IndexComplete, [Next]_vars
             PROVE  IndexComplete'
  OBVIOUS
<1>1. ASSUME NEW v \in Data, AddRecord(v) \/ AddRecordRefused(v)
      PROVE  IndexComplete'
  <2>1. CASE AddRecordRefused(v)
    BY <2>1 DEF AddRecordRefused, IndexComplete
  <2> QED BY <1>1, <2>1, AddRecordComplete
<1>2. ASSUME NEW id \in DOMAIN index, DeleteRecord(id)
      PROVE  IndexComplete'
  BY <1>2, DeleteRecordComplete
<1>3. ASSUME NEW id \in DOMAIN index, NEW v \in Data, UpdateRecord(id, v)
      PROVE  IndexComplete'
  <2>1. /\ ActivePages(pages') = ActivePages(pages)
        /\ \A p \in ActivePages(pages) : pages'[p].id = pages[p].id
    BY <1>3, UpdateRecordSets
  <2>2. refused' = refused /\ index' = index /\ header' = header
    BY <1>3 DEF UpdateRecord
  <2> QED BY <2>1, <2>2, SameRecords
<1>4. CASE \/ BeginTransaction \/ CommitTransaction \/ RollbackTransaction
           \/ UpdateFreePages \/ CloseDatabase
  <2>1. pages' = pages /\ index' = index /\ refused' = refused
    BY <1>4 DEF BeginTransaction, CommitTransaction, RollbackTransaction,
                EndTransaction, UpdateFreePages, CloseDatabase
  <2>2. header'.record_count = header.record_count
    BY <1>4 DEF BeginTransaction, CommitTransaction, RollbackTransaction,
                EndTransaction, UpdateFreePages, CloseDatabase, IInv, TypeOK
  <2> QED BY <2>1, <2>2, SameRecords
<1>5. ASSUME ~refused
      PROVE  /\ header.record_count = Cardinality(ActivePages(pages))
             /\ Cardinality(ActivePages(pages)) <= LeafKeys
  BY <1>5 DEF IndexComplete, ValidateDatabase
<1>6. CASE RebuildIndex
  <2>1. /\ pages' = pages /\ header' = header /\ refused' = refused
        /\ index' = ScanIndex(pages')
    BY <1>6 DEF RebuildIndex
  <2>2. CASE ~refused
    BY <2>1, <2>2, <1>5, ScanCompletes
  <2> QED BY <2>1, <2>2 DEF IndexComplete
<1>7. CASE CompactDatabase
  <2>1. /\ header' = header /\ refused' = refused
        /\ pages' = CompactedPages(pages)
        /\ index' = ScanIndex(pages')
    BY <1>7 DEF CompactDatabase
  <2>2. /\ total \in Int /\ pages \in [DataPages(total) -> Page]
        /\ Tiled(pages)
    BY DEF IInv, TypeOK, RunsTile
  <2>3. Cardinality(ActivePages(pages')) = Cardinality(ActivePages(pages))
    BY <2>1, <2>2, CompactionKeepsCount
  <2>4. CASE ~refused
    BY <2>1, <2>3, <2>4, <1>5, ScanCompletes
  <2> QED BY <2>1, <2>4 DEF IndexComplete
<1>8. CASE OpenDatabase
  <2>1. pages' = pages
    BY <1>8, ReplayChangesNothing
  <2>2. CASE ~header.journal_pending
    <3>1. refused' = refused /\ index' = index /\ header' = header
      BY <1>8, <2>2 DEF OpenDatabase
    <3> QED BY <3>1, <2>1, SameRecords
  <2>3. CASE header.journal_pending
    <3>1. /\ index' = ScanIndex(pages') /\ refused' = refused
          /\ header' = [header EXCEPT
                          !.record_count = Cardinality(ActivePages(pages')),
                          !.journal_pending = FALSE]
      BY <1>8, <2>3 DEF OpenDatabase, ReplayJournal
    <3>2. header'.record_count = Cardinality(ActivePages(pages'))
      BY <3>1 DEF IInv, TypeOK
    <3>3. CASE ~refused
      BY <2>1, <3>1, <3>2, <3>3, <1>5, ScanCompletes
    <3> QED BY <3>1, <3>3 DEF IndexComplete
  <2> QED BY <2>2, <2>3
<1>9. CASE UNCHANGED vars
  BY <1>9, SameRecords DEF vars
<1> QED BY <1>1, <1>2, <1>3, <1>4, <1>6, <1>7, <1>8, <1>9 DEF Next

(* Until an AddRecord is refused by a full root leaf, ValidateDatabase     *)
(* accepts the database after any sequence of calls in which compaction    *)
(* stays outside transactions, for every record size and every capacity:   *)
(* neither deletes, reuse, transactions, a close in the middle of one,     *)
(* rebuilding nor compaction loses a key or miscounts.                     *)
THEOREM ValidWhileNoneRefused == Spec => []ValidUntilRefused
<1>1. Init => IndexComplete
  <2> SUFFICES ASSUME Init PROVE IndexComplete
    OBVIOUS
  <2>1. ActivePages(pages) = {} /\ header.record_count = 0
    BY DEF Init, ActivePages
  <2>2. Cardinality(ActivePages(pages)) = 0
    BY <2>1, FS_EmptySet
  <2>3. 0 <= LeafKeys
    BY LeafKeysAssumption
  <2> QED BY <2>1, <2>2, <2>3 DEF IndexComplete, ValidateDatabase
<1>2. IndexComplete => ValidUntilRefused
  BY DEF IndexComplete, ValidUntilRefused
<1> QED BY <1>1, <1>2, NextIndexComplete, Invariance, PTL DEF Spec

-----------------------------------------------------------------------------
(***************************************************************************)
(* 3. The record map                                                       *)
(***************************************************************************)

(* The ids on disk, the page and the content of each.                      *)
Ids(pgs)        == {pgs[p].id : p \in ActivePages(pgs)}
PageOf(pgs, id) == CHOOSE p \in ActivePages(pgs) : pgs[p].id = id
Records(pgs)    == [id \in Ids(pgs) |-> pgs[PageOf(pgs, id)].data]

OneEach(pgs) == \A p, q \in ActivePages(pgs) : pgs[p].id = pgs[q].id => p = q

-----------------------------------------------------------------------------
(* The page an id is found on is the one that holds it.                    *)
LEMMA PageOfId ==
  ASSUME NEW pgs, OneEach(pgs), NEW p \in ActivePages(pgs)
  PROVE  PageOf(pgs, pgs[p].id) = p
BY DEF OneEach, PageOf

(* Records that agree, one active page at a time, are the same records.    *)
LEMMA SameRecordsOnDisk ==
  ASSUME NEW old, NEW new, OneEach(old), OneEach(new),
         \A p \in ActivePages(old) : \E q \in ActivePages(new) : new[q] = old[p],
         \A q \in ActivePages(new) : \E p \in ActivePages(old) : new[q] = old[p]
  PROVE  Records(new) = Records(old)
<1>1. Ids(new) = Ids(old)
  BY DEF Ids
<1>2. ASSUME NEW id \in Ids(old)
      PROVE  new[PageOf(new, id)].data = old[PageOf(old, id)].data
  <2>1. PICK p \in ActivePages(old) : old[p].id = id
    BY DEF Ids
  <2>2. PICK q \in ActivePages(new) : new[q] = old[p]
    OBVIOUS
  <2>3. PageOf(old, id) = p
    BY <2>1, PageOfId
  <2>4. new[q].id = id
    BY <2>1, <2>2
  <2>5. PageOf(new, id) = q
    BY <2>4, PageOfId
  <2> QED BY <2>2, <2>3, <2>5
<1> QED BY <1>1, <1>2 DEF Records

(* A change of one record, new or old.                                     *)
LEMMA OneRecordWritten ==
  ASSUME NEW old, NEW new, OneEach(old), OneEach(new), NEW first,
         ActivePages(new) = ActivePages(old) \cup {first},
         \A p \in ActivePages(old) : p # first => new[p] = old[p],
         first \in ActivePages(old) => old[first].id = new[first].id
  PROVE  Records(new) =
           [i \in Ids(old) \cup {new[first].id} |->
              IF i = new[first].id THEN new[first].data ELSE Records(old)[i]]
<1> DEFINE id == new[first].id
           v == new[first].data
<1>1. Ids(new) = Ids(old) \cup {id}
  BY DEF Ids
<1>2. new[PageOf(new, id)].data = v
  <2>1. first \in ActivePages(new)
    OBVIOUS
  <2>2. PageOf(new, new[first].id) = first
    BY <2>1, PageOfId
  <2> QED BY <2>2
<1>3. ASSUME NEW i \in Ids(old), i # id
      PROVE  new[PageOf(new, i)].data = Records(old)[i]
  <2>1. PICK p \in ActivePages(old) : old[p].id = i
    BY DEF Ids
  <2>2. p # first /\ new[p] = old[p] /\ p \in ActivePages(new)
    BY <1>3, <2>1
  <2>3. PageOf(old, i) = p
    BY <2>1, PageOfId
  <2>4. new[p].id = i
    BY <2>1, <2>2
  <2>5. PageOf(new, i) = p
    BY <2>2, <2>4, PageOfId
  <2> QED BY <2>2, <2>3, <2>5 DEF Records
<1> QED BY <1>1, <1>2, <1>3 DEF Records

(* A record whose page is no longer active is gone; the others stay.       *)
LEMMA OneRecordErased ==
  ASSUME NEW old, NEW new, OneEach(old), OneEach(new),
         NEW first \in ActivePages(old),
         ActivePages(new) = ActivePages(old) \ {first},
         \A p \in ActivePages(new) : new[p] = old[p]
  PROVE  Records(new) = [i \in Ids(old) \ {old[first].id} |-> Records(old)[i]]
<1>1. Ids(new) = Ids(old) \ {old[first].id}
  <2>1. \A p \in ActivePages(new) :
          new[p].id \in Ids(old) /\ new[p].id # old[first].id
    BY DEF Ids, OneEach
  <2>2. \A i \in Ids(old) \ {old[first].id} : i \in Ids(new)
    <3>1. SUFFICES ASSUME NEW p \in ActivePages(old), old[p].id # old[first].id
                   PROVE  old[p].id \in Ids(new)
      BY DEF Ids
    <3>2. p \in ActivePages(new) /\ new[p] = old[p]
      BY <3>1
    <3> QED BY <3>2 DEF Ids
  <2> QED BY <2>1, <2>2 DEF Ids
<1>2. ASSUME NEW i \in Ids(new)
      PROVE  new[PageOf(new, i)].data = Records(old)[i]
  <2>1. PICK p \in ActivePages(new) : new[p].id = i
    BY DEF Ids
  <2>2. p \in ActivePages(old) /\ new[p] = old[p] /\ i \in Ids(old)
    BY <2>1, <1>1
  <2>3. PageOf(new, i) = p
    BY <2>1, PageOfId
  <2>4. old[p].id = i
    BY <2>1, <2>2
  <2>5. PageOf(old, i) = p
    BY <2>2, <2>4, PageOfId
  <2> QED BY <2>2, <2>3, <2>5 DEF Records
<1> QED BY <1>1, <1>2 DEF Records

-----------------------------------------------------------------------------
(* The mapping under the invariant: what the index names can be found, and *)
(* the rest of what is on disk is in limbo.                                *)
LEMMA EveryKeyFound ==
  ASSUME IInv, NEW id \in DOMAIN index
  PROVE  Found(id)
<1>1. /\ index[id] \in ActivePages(pages)
      /\ pages[index[id]].id = id
      /\ index[id] \in DOMAIN pages /\ pages[index[id]].status = PS_ACTIVE
  BY DEF IInv, IndexSound, ActivePages
<1>2. ASSUME NEW q \in Run(index[id]), q # index[id]
      PROVE  /\ q \in DOMAIN pages
             /\ pages[q].id = id /\ pages[q].status = PS_CONTINUATION
  <2>1. /\ q \in DOMAIN pages
        /\ pages[q] = [id |-> pages[index[id]].id, status |-> PS_CONTINUATION,
                       data |-> pages[index[id]].data]
    BY <1>1, <1>2, TiledRuns DEF IInv, RunsTile
  <2> QED BY <2>1, <1>1
<1> QED BY <1>1, <1>2 DEF Found

(* No two records on disk have the same id.                                *)
LEMMA OneEachPage == ASSUME IInv PROVE OneEach(pages)
BY DEF IInv, IdsUsedOnce, OneEach

Split ==
  /\ DOMAIN index \subseteq Ids(pages)
  /\ Visible = [id \in DOMAIN index |-> Records(pages)[id]]
  /\ Hidden = [id \in Ids(pages) \ DOMAIN index |-> Records(pages)[id]]

(* The mapped variables: what the index names can be read back, and what   *)
(* it does not name is hidden, both as they are on disk.                   *)
LEMMA Mapping == IInv => Split
<1> SUFFICES ASSUME IInv PROVE Split
  OBVIOUS
<1>1. OneEach(pages)
  BY OneEachPage
<1>2. ASSUME NEW id \in DOMAIN index
      PROVE  id \in Ids(pages) /\ FindRecordByID(id) = Records(pages)[id]
  <2>1. index[id] \in ActivePages(pages) /\ pages[index[id]].id = id
    BY DEF IInv, IndexSound
  <2>2. id \in Ids(pages)
    BY <2>1 DEF Ids
  <2>3. PageOf(pages, id) = index[id]
    BY <1>1, <2>1, PageOfId
  <2> QED BY <2>2, <2>3 DEF Records, FindRecordByID
<1>3. {i \in DOMAIN index : Found(i)} = DOMAIN index
  BY EveryKeyFound
<1>4. Visible = [id \in DOMAIN index |-> Records(pages)[id]]
  BY <1>2, <1>3 DEF Visible
<1> DEFINE lost == {p \in ActivePages(pages) : pages[p].id \notin DOMAIN index}
<1>5. Hidden = [id \in {pages[p].id : p \in lost} |->
                  pages[CHOOSE p \in lost : pages[p].id = id].data]
  <2>1. DOMAIN Visible = DOMAIN index
    BY <1>4
  <2> QED BY <2>1 DEF Hidden
<1>6. {pages[p].id : p \in lost} = Ids(pages) \ DOMAIN index
  BY DEF Ids
<1>7. ASSUME NEW id \in Ids(pages) \ DOMAIN index
      PROVE  pages[CHOOSE p \in lost : pages[p].id = id].data
               = Records(pages)[id]
  <2>1. PICK p \in ActivePages(pages) : pages[p].id = id
    BY DEF Ids
  <2>2. p \in lost
    BY <2>1
  <2>3. \A q \in lost : pages[q].id = id => q = p
    BY <1>1, <2>1 DEF OneEach
  <2> HIDE DEF lost
  <2>4. (CHOOSE q \in lost : pages[q].id = id) = p
    BY <2>1, <2>2, <2>3
  <2>5. PageOf(pages, id) = p
    BY <1>1, <2>1, PageOfId
  <2>6. id \in Ids(pages)
    OBVIOUS
  <2>7. Records(pages)[id] = pages[PageOf(pages, id)].data
    BY <2>6 DEF Records
  <2> QED BY <2>4, <2>5, <2>7
<1> HIDE DEF lost
<1>8. Hidden = [id \in Ids(pages) \ DOMAIN index |-> Records(pages)[id]]
  BY <1>5, <1>6, <1>7
<1> QED BY <1>2, <1>4, <1>8 DEF Split

(* The index never has more keys than there are records on disk.           *)
LEMMA KeysFinite ==
  ASSUME IInv
  PROVE  IsFiniteSet(DOMAIN index) /\ Cardinality(DOMAIN index) \in Int
<1> DEFINE A == ActivePages(pages)
           f == [id \in DOMAIN index |-> index[id]]
<1>1. IsFiniteSet(A)
  BY PagesFinite DEF IInv
<1>2. \A id \in DOMAIN index : index[id] \in A /\ pages[index[id]].id = id
  BY DEF IInv, IndexSound
<1> HIDE DEF A
<1>3. f \in [DOMAIN index -> A] /\ \A i, j \in DOMAIN index : f[i] = f[j] => i = j
  BY <1>2
<1>4. f \in Injection(DOMAIN index, A)
  BY <1>3 DEF Injection, IsInjective
<1>5. IsFiniteSet(DOMAIN index)
  BY <1>1, <1>4, FS_Injection
<1>6. Cardinality(DOMAIN index) \in Nat
  BY <1>5, FS_CardinalityType
<1> QED BY <1>5, <1>6

(* A scan takes every page it is for, or as many as there is room for.     *)
LEMMA FirstOfSize ==
  ASSUME NEW A, IsFiniteSet(A), A \subseteq Int, NEW k \in Nat
  PROVE  /\ FirstOf(k, A) \subseteq A
         /\ FirstOf(k, A) = A \/ Cardinality(FirstOf(k, A)) = k
<1> DEFINE F == FirstOf(k, A)
           c == Cardinality(A)
<1>1. F \subseteq A /\ c \in Nat /\ IsFiniteSet(F)
  <2>1. F \in SUBSET A
    BY DEF FirstOf
  <2> QED BY <2>1, FS_CardinalityType, FS_Subset
<1>2. CASE c <= k
  <2>1. ASSUME NEW p \in A PROVE p \in F
    <3>1. Rank(p, A) \in 0 .. (c - 1)
      BY RankRange
    <3> QED BY <3>1, <1>1, <1>2 DEF FirstOf
  <2> QED BY <2>1, <1>1
<1>3. CASE k < c
  <2> DEFINE f == [p \in F |-> Rank(p, A)]
             S == 0 .. (k - 1)
  <2>1. \A p \in F : Rank(p, A) \in S
    <3>1. SUFFICES ASSUME NEW p \in F PROVE Rank(p, A) \in S
      OBVIOUS
    <3>2. Rank(p, A) \in 0 .. (c - 1)
      BY <1>1, RankRange
    <3>3. Rank(p, A) < k
      BY DEF FirstOf
    <3> QED BY <3>2, <3>3, <1>1
  <2>2. \A p, q \in F : Rank(p, A) = Rank(q, A) => p = q
    <3>1. SUFFICES ASSUME NEW p \in F, NEW q \in F, p # q
                   PROVE  Rank(p, A) # Rank(q, A)
      OBVIOUS
    <3>2. p \in A /\ q \in A /\ p \in Int /\ q \in Int
      BY <1>1
    <3>3. Rank(p, A) \in Int /\ Rank(q, A) \in Int
      BY <2>1
    <3>4. CASE p < q
      <4>1. Rank(p, A) < Rank(q, A)
        BY <3>2, <3>4, RankOrder
      <4> QED BY <3>3, <4>1
    <3>5. CASE q < p
      <4>1. Rank(q, A) < Rank(p, A)
        BY <3>2, <3>5, RankOrder
      <4> QED BY <3>3, <4>1
    <3> QED BY <3>1, <3>2, <3>4, <3>5
  <2>3. \A i \in S : \E p \in F : Rank(p, A) = i
    <3>1. SUFFICES ASSUME NEW i \in S PROVE \E p \in F : Rank(p, A) = i
      OBVIOUS
    <3>2. i \in 0 .. (c - 1) /\ i < k
      BY <1>1, <1>3
    <3>3. PICK p \in A : Rank(p, A) = i
      BY <3>2, RankOnto
    <3> QED BY <3>2, <3>3 DEF FirstOf
  <2> HIDE DEF F, S
  <2>4. f \in [F -> S]
    BY <2>1
  <2>5. f \in Bijection(F, S)
    BY <2>2, <2>3, <2>4 DEF Bijection, Injection, Surjection, IsInjective
  <2>6. ExistsBijection(F, S)
    BY <2>5 DEF ExistsBijection
  <2>7. Cardinality(S) = Cardinality(F)
    BY <1>1, <2>6, FS_Bijection
  <2>8. Cardinality(S) = k
    BY FS_Interval DEF S
  <2> QED BY <1>1, <2>7, <2>8 DEF F
<1> QED BY <1>1, <1>2, <1>3

(* What a scan of the file keeps in the index is all the ids on disk, or   *)
(* LeafKeys of them.                                                       *)
LEMMA ScanKeeps ==
  ASSUME NEW t \in Int, NEW pgs, DOMAIN pgs = DataPages(t), OneEach(pgs)
  PROVE  LET kept == DOMAIN ScanIndex(pgs)
         IN  /\ kept \subseteq Ids(pgs)
             /\ kept = Ids(pgs) \/ Cardinality(kept) = LeafKeys
<1> DEFINE A == ActivePages(pgs)
           F == FirstOf(LeafKeys, A)
           kept == DOMAIN ScanIndex(pgs)
           f == [p \in F |-> pgs[p].id]
<1>1. IsFiniteSet(A) /\ A \subseteq Int /\ LeafKeys \in Nat
  BY ActiveFinite, LeafKeysAssumption
<1>2. F \subseteq A /\ (F = A \/ Cardinality(F) = LeafKeys)
  BY <1>1, FirstOfSize
<1>3. kept = {pgs[p].id : p \in F}
  BY DEF ScanIndex
<1>4. kept \subseteq Ids(pgs) /\ (F = A => kept = Ids(pgs))
  BY <1>2, <1>3 DEF Ids
<1>5. IsFiniteSet(F)
  <2>1. F \in SUBSET A
    BY <1>2
  <2> QED BY <1>1, <2>1, FS_Subset
<1>6. \A p, q \in F : pgs[p].id = pgs[q].id => p = q
  BY <1>2 DEF OneEach
<1> HIDE DEF F, kept
<1>7. f \in Bijection(F, kept)
  BY <1>3, <1>6 DEF Bijection, Injection, Surjection, IsInjective
<1>8. ExistsBijection(F, kept)
  BY <1>7 DEF ExistsBijection
<1>9. Cardinality(kept) = Cardinality(F)
  BY <1>5, <1>8, FS_Bijection
<1> QED BY <1>2, <1>4, <1>9 DEF kept

-----------------------------------------------------------------------------
(* The abstract module counts as this one does.                            *)
LEMMA SameCardinality == \A S : Map!Cardinality(S) = Cardinality(S)
BY DEF Map!Cardinality, Cardinality

(* One lemma for the calls that move the border and one for those that     *)
(* leave everything as it was.                                             *)
LEMMA RescanStep ==
  ASSUME IInv, IInv', index' = ScanIndex(pages'),
         Records(pages') = Records(pages),
         header'.next_record_id = header.next_record_id
  PROVE  Map!Rescan
<1> DEFINE R == Records(pages)
           kept == DOMAIN index'
<1>1. /\ R = [id \in Ids(pages) |-> R[id]] /\ Ids(pages') = Ids(pages)
      /\ Records(pages') = R
  <2>1. DOMAIN Records(pages) = Ids(pages) /\ DOMAIN Records(pages') = Ids(pages')
    BY DEF Records
  <2> QED BY <2>1 DEF Records
<1>2. /\ DOMAIN index \subseteq Ids(pages)
      /\ Visible = [id \in DOMAIN index |-> R[id]]
      /\ Hidden = [id \in Ids(pages) \ DOMAIN index |-> R[id]]
  BY Mapping DEF Split
<1>3. /\ kept \subseteq Ids(pages)
      /\ Visible' = [id \in kept |-> R[id]]
      /\ Hidden' = [id \in Ids(pages) \ kept |-> R[id]]
  <2>1. /\ kept \subseteq Ids(pages')
        /\ Visible' = [id \in kept |-> Records(pages')[id]]
        /\ Hidden' = [id \in Ids(pages') \ kept |-> Records(pages')[id]]
    <3>1. Split'
      BY Mapping, PTL
    <3> QED BY <3>1 DEF Split
  <2> QED BY <2>1, <1>1
<1>4. kept = Ids(pages) \/ Cardinality(kept) = LeafKeys
  <2>1. total' \in Int /\ DOMAIN pages' = DataPages(total')
    BY DEF IInv, TypeOK
  <2>2. OneEach(pages')
    BY DEF IInv, IdsUsedOnce, OneEach
  <2>3. kept = Ids(pages') \/ Cardinality(kept) = LeafKeys
    BY <2>1, <2>2, ScanKeeps
  <2> QED BY <2>3, <1>1
<1>5. DOMAIN Visible \cup DOMAIN Hidden = Ids(pages)
  BY <1>2
<1>6. [id \in Ids(pages) |-> IF id \in DOMAIN Visible THEN Visible[id]
                                                      ELSE Hidden[id]] = R
  BY <1>1, <1>2
<1> HIDE DEF kept, R
<1> QED BY <1>3, <1>4, <1>5, <1>6, SameCardinality DEF Map!Rescan

(* A call that leaves pages, index and counter alone is a stutter.         *)
LEMMA StutterStep ==
  ASSUME IInv, IInv', pages' = pages, index' = index,
         header'.next_record_id = header.next_record_id
  PROVE  UNCHANGED Map!mapVars
<1>1. Split /\ Split'
  BY Mapping, PTL
<1>2. Visible' = Visible /\ Hidden' = Hidden
  BY <1>1 DEF Split
<1> QED BY <1>2 DEF Map!mapVars

-----------------------------------------------------------------------------
(* AddRecord adds the id to the ids on disk and to the index.              *)
LEMMA NewRecordOnDisk ==
  ASSUME IInv, IInv', NEW v \in Data, NEW alloc \in Allocations,
         StoreNewRecord(v, alloc)
  PROVE  /\ header.next_record_id \notin Ids(pages)
         /\ Ids(pages') = Ids(pages) \cup {header.next_record_id}
         /\ Records(pages') =
              [i \in Ids(pages) \cup {header.next_record_id} |->
                 IF i = header.next_record_id THEN v ELSE Records(pages)[i]]
<1> DEFINE first == alloc.first
           id == header.next_record_id
<1>1. /\ first \notin ActivePages(pages)
      /\ ActivePages(pages') = ActivePages(pages) \cup {first}
      /\ pages'[first].id = id
      /\ \A p \in ActivePages(pages) : pages'[p] = pages[p]
  BY NewRecordSets
<1>2. OneEach(pages) /\ OneEach(pages')
  BY DEF IInv, IdsUsedOnce, OneEach
<1>3. pages'[first].data = v
  <2>1. first \in Run(first)
    <3>1. first \in Nat
      BY AllocationSound DEF IInv
    <3>2. first \in Int
      BY <3>1
    <3> QED BY <3>2, FirstInRun
  <2>2. pages' = Overlay(pages, RecordImage(id, first, v))
    BY DEF StoreNewRecord, Write
  <2>3. first \in DOMAIN RecordImage(id, first, v)
        /\ RecordImage(id, first, v)[first].data = v
    BY <2>1 DEF RecordImage
  <2> QED BY <2>2, <2>3 DEF Overlay
<1>4. id \notin Ids(pages)
  <2>1. \A p \in ActivePages(pages) : pages[p].id < id
    BY DEF IInv, IdsUsedOnce
  <2>2. id \in Int
    BY DEF IInv, TypeOK
  <2> QED BY <2>1, <2>2 DEF Ids
<1>5. Ids(pages') = Ids(pages) \cup {id}
  BY <1>1 DEF Ids
<1> HIDE DEF first, id
<1>6. Records(pages') = [i \in Ids(pages) \cup {id} |->
                           IF i = id THEN v ELSE Records(pages)[i]]
  <2>1. Records(pages') =
          [i \in Ids(pages) \cup {pages'[first].id} |->
             IF i = pages'[first].id THEN pages'[first].data
                                     ELSE Records(pages)[i]]
    BY <1>1, <1>2, OneRecordWritten
  <2> QED BY <2>1, <1>1, <1>3
<1> QED BY <1>4, <1>5, <1>6 DEF id

(* A record that got its key appears in the map.                           *)
LEMMA AddRecordMaps ==
  ASSUME IInv, IInv', NEW v \in Data, AddRecord(v)
  PROVE  Map!Add(v)
<1>1. PICK alloc \in Allocations :
        /\ StoreNewRecord(v, alloc)
        /\ LeafHasRoom
        /\ index' = [id \in DOMAIN index \cup {header.next_record_id} |->
                       IF id = header.next_record_id THEN alloc.first
                                                     ELSE index[id]]
        /\ header' = [header EXCEPT !.record_count = @ + 1,
                                    !.next_record_id = @ + 1]
  BY DEF AddRecord
<1> DEFINE id == header.next_record_id
           R == Records(pages)
<1>2. /\ id \notin Ids(pages)
      /\ Ids(pages') = Ids(pages) \cup {id}
      /\ Records(pages') = [i \in Ids(pages) \cup {id} |->
                              IF i = id THEN v ELSE R[i]]
  BY <1>1, NewRecordOnDisk
<1>3. Split /\ Split'
  BY Mapping, PTL
<1>4. DOMAIN index' = DOMAIN index \cup {id}
  BY <1>1
<1>5. header'.next_record_id = id + 1
  BY <1>1 DEF IInv, TypeOK
<1>6. Cardinality(DOMAIN index) < LeafKeys
  BY <1>1 DEF LeafHasRoom
<1> HIDE DEF id, R
<1>7. DOMAIN Visible = DOMAIN index
  BY <1>3 DEF Split
<1>8. Visible' = [i \in DOMAIN Visible \cup {id} |->
                    IF i = id THEN v ELSE Visible[i]]
  BY <1>2, <1>3, <1>4 DEF Split, R
<1>9. Hidden' = Hidden
  BY <1>2, <1>3, <1>4 DEF Split, R
<1> QED BY <1>5, <1>6, <1>7, <1>8, <1>9, SameCardinality
        DEF Map!Add, Map!With, id

(* A record the index refused is on disk, in limbo.                        *)
LEMMA AddRecordRefusedMaps ==
  ASSUME IInv, IInv', NEW v \in Data, AddRecordRefused(v)
  PROVE  Map!AddRefused(v)
<1>1. PICK alloc \in Allocations :
        /\ StoreNewRecord(v, alloc)
        /\ ~LeafHasRoom
        /\ header' = [header EXCEPT !.next_record_id = @ + 1]
        /\ index' = index
  BY DEF AddRecordRefused
<1> DEFINE id == header.next_record_id
           R == Records(pages)
<1>2. /\ id \notin Ids(pages)
      /\ Ids(pages') = Ids(pages) \cup {id}
      /\ Records(pages') = [i \in Ids(pages) \cup {id} |->
                              IF i = id THEN v ELSE R[i]]
  BY <1>1, NewRecordOnDisk
<1>3. Split /\ Split'
  BY Mapping, PTL
<1>4. header'.next_record_id = id + 1
  BY <1>1 DEF IInv, TypeOK
<1>5. Cardinality(DOMAIN index) >= LeafKeys
  BY <1>1, KeysFinite, LeafKeysAssumption DEF LeafHasRoom
<1> HIDE DEF id, R
<1>6. DOMAIN Visible = DOMAIN index
  BY <1>3 DEF Split
<1>7. Visible' = Visible
  BY <1>1, <1>2, <1>3 DEF Split, R
<1>8. Hidden' = [i \in DOMAIN Hidden \cup {id} |->
                   IF i = id THEN v ELSE Hidden[i]]
  BY <1>1, <1>2, <1>3 DEF Split, R
<1> QED BY <1>4, <1>5, <1>6, <1>7, <1>8, SameCardinality
        DEF Map!AddRefused, Map!With, id

(* An update changes the content under one id, in the pages it has.        *)
LEMMA UpdateRecordMaps ==
  ASSUME IInv, IInv', NEW id \in DOMAIN index, NEW v \in Data,
         UpdateRecord(id, v)
  PROVE  Map!Update(id, v)
<1> DEFINE first == index[id]
           R == Records(pages)
<1>1. /\ pages' = Overlay(pages, RecordImage(id, first, v))
      /\ index' = index /\ header' = header
  BY DEF UpdateRecord, Write
<1>2. /\ first \in ActivePages(pages) /\ first \in Int
      /\ pages[first].id = id
      /\ DOMAIN pages \subseteq Int
  BY DEF IInv, IndexSound, TypeOK, DataPages, ActivePages
<1>3. \A p \in ActivePages(pages) : p # first => Run(p) \cap Run(first) = {}
  BY <1>2, RunsDisjoint DEF IInv, RunsTile
<1>4. /\ ActivePages(pages') = ActivePages(pages) \cup {first}
      /\ \A p \in ActivePages(pages) : p # first => pages'[p] = pages[p]
      /\ pages'[first] = [id |-> id, status |-> PS_ACTIVE, data |-> v]
  BY <1>1, <1>2, <1>3, WriteRecordTiles DEF IInv, RunsTile
<1>5. pages'[first].id = id /\ pages'[first].data = v
  BY <1>4
<1>6. OneEach(pages) /\ OneEach(pages')
  BY DEF IInv, IdsUsedOnce, OneEach
<1>7. Split /\ Split'
  BY Mapping, PTL
<1> HIDE DEF first
<1>8. Records(pages') = [i \in Ids(pages) \cup {id} |->
                           IF i = id THEN v ELSE R[i]]
  <2>1. Records(pages') =
          [i \in Ids(pages) \cup {pages'[first].id} |->
             IF i = pages'[first].id THEN pages'[first].data
                                     ELSE Records(pages)[i]]
    <3>1. /\ ActivePages(pages') = ActivePages(pages) \cup {first}
          /\ \A p \in ActivePages(pages) : p # first => pages'[p] = pages[p]
          /\ first \in ActivePages(pages) => pages[first].id = pages'[first].id
      BY <1>2, <1>4, <1>5
    <3> QED BY <3>1, <1>6, OneRecordWritten
  <2> QED BY <1>5, <2>1, Zenon
<1>9. id \in Ids(pages) /\ Ids(pages') = Ids(pages)
  <2>1. id \in Ids(pages)
    BY <1>2 DEF Ids
  <2>2. Ids(pages') = Ids(pages) \cup {id}
    BY <1>2, <1>4, <1>5 DEF Ids
  <2> QED BY <2>1, <2>2
<1> HIDE DEF R
<1>10. DOMAIN Visible = DOMAIN index
  BY <1>7 DEF Split
<1>11. Visible' = [i \in DOMAIN Visible \cup {id} |->
                    IF i = id THEN v ELSE Visible[i]]
  BY <1>1, <1>7, <1>8, <1>9 DEF Split, R
<1>12. Hidden' = Hidden
  BY <1>1, <1>7, <1>8, <1>9 DEF Split, R
<1> QED BY <1>1, <1>10, <1>11, <1>12 DEF Map!Update, Map!With

(* A delete takes one id off the disk and out of the index.                *)
LEMMA DeleteRecordMaps ==
  ASSUME IInv, IInv', NEW id \in DOMAIN index, DeleteRecord(id)
  PROVE  Map!Delete(id)
<1> DEFINE first == index[id]
           R == Records(pages)
<1>1. /\ first \in ActivePages(pages)
      /\ ActivePages(pages') = ActivePages(pages) \ {first}
      /\ \A p \in ActivePages(pages') : pages'[p] = pages[p]
  BY DeleteRecordSets
<1>2. pages[first].id = id
  BY DEF IInv, IndexSound
<1>3. /\ index' = [i \in DOMAIN index \ {id} |-> index[i]]
      /\ header'.next_record_id = header.next_record_id
  BY DEF DeleteRecord, IInv, TypeOK
<1>4. OneEach(pages) /\ OneEach(pages')
  BY DEF IInv, IdsUsedOnce, OneEach
<1>5. Split /\ Split'
  BY Mapping, PTL
<1> HIDE DEF first
<1>6. Records(pages') = [i \in Ids(pages) \ {id} |-> R[i]]
  BY <1>1, <1>2, <1>4, OneRecordErased
<1>7. Ids(pages') = Ids(pages) \ {id}
  <2>1. Ids(pages') = DOMAIN Records(pages')
    BY DEF Records
  <2> QED BY <2>1, <1>6
<1> HIDE DEF R
<1>8. DOMAIN Visible = DOMAIN index
  BY <1>5 DEF Split
<1>9. Visible' = [i \in DOMAIN Visible \ {id} |-> Visible[i]]
  BY <1>3, <1>5, <1>6, <1>7 DEF Split, R
<1>10. Hidden' = Hidden
  BY <1>3, <1>5, <1>6, <1>7 DEF Split, R
<1> QED BY <1>3, <1>8, <1>9, <1>10 DEF Map!Delete, Map!Without

(* Compaction renumbers pages; the records are the same.                   *)
LEMMA CompactDatabaseMaps ==
  ASSUME IInv, IInv', CompactDatabase
  PROVE  Map!Rescan
<1> DEFINE A == ActivePages(pages)
<1>1. /\ pages' = CompactedPages(pages) /\ index' = ScanIndex(pages')
      /\ header' = header
  BY DEF CompactDatabase
<1>2. total \in Int /\ pages \in [DataPages(total) -> Page] /\ Tiled(pages)
  BY DEF IInv, TypeOK, RunsTile
<1>3. /\ \A p \in A : /\ Place(p, A) \in ActivePages(pages')
                      /\ pages'[Place(p, A)] = pages[p]
      /\ \A k \in ActivePages(pages') : \E p \in A : k = Place(p, A)
  BY <1>1, <1>2, CompactionTiles
<1>4. OneEach(pages) /\ OneEach(pages')
  BY DEF IInv, IdsUsedOnce, OneEach
<1>5. /\ \A p \in A : \E q \in ActivePages(pages') : pages'[q] = pages[p]
      /\ \A q \in ActivePages(pages') : \E p \in A : pages'[q] = pages[p]
  BY <1>3
<1>6. Records(pages') = Records(pages)
  BY <1>4, <1>5, SameRecordsOnDisk
<1> QED BY <1>1, <1>6, RescanStep

(* Opening a database that needs recovery is a scan of the file.           *)
LEMMA OpenDatabaseMaps ==
  ASSUME IInv, IInv', OpenDatabase
  PROVE  Map!Rescan \/ UNCHANGED Map!mapVars
<1>1. pages' = pages
  BY ReplayChangesNothing
<1>2. CASE ~header.journal_pending
  <2>1. index' = index /\ header' = header
    BY <1>2 DEF OpenDatabase
  <2> QED BY <1>1, <2>1, StutterStep
<1>3. CASE header.journal_pending
  <2>1. /\ index' = ScanIndex(pages')
        /\ header'.next_record_id = header.next_record_id
    BY <1>3 DEF OpenDatabase, ReplayJournal, IInv, TypeOK
  <2> QED BY <1>1, <2>1, RescanStep
<1> QED BY <1>2, <1>3

-----------------------------------------------------------------------------
(* A new database is an empty map.                                         *)
LEMMA InitMaps == Init => Map!Init
<1> SUFFICES ASSUME Init PROVE Map!Init
  OBVIOUS
<1>1. /\ DOMAIN index = {} /\ DOMAIN pages = {}
      /\ header.next_record_id = 1
  BY DEF Init
<1>2. Visible = [id \in {} |-> 0]
  BY <1>1 DEF Visible
<1>3. Hidden = [id \in {} |-> 0]
  BY <1>1 DEF Hidden, ActivePages
<1> QED BY <1>1, <1>2, <1>3 DEF Map!Init

(* Every call is a step of the record map or changes nothing in it.        *)
LEMMA NextMaps == IInv /\ IInv' /\ [Next]_vars => [Map!Next]_(Map!mapVars)
<1> SUFFICES ASSUME IInv, IInv', [Next]_vars
             PROVE  Map!Next \/ UNCHANGED Map!mapVars
  OBVIOUS
<1>1. ASSUME NEW v \in Data, AddRecord(v) \/ AddRecordRefused(v)
      PROVE  Map!Next
  BY <1>1, AddRecordMaps, AddRecordRefusedMaps DEF Map!Next
<1>2. ASSUME NEW id \in DOMAIN index, DeleteRecord(id)
      PROVE  Map!Next
  BY <1>2, DeleteRecordMaps DEF Map!Next, Map!Delete
<1>3. ASSUME NEW id \in DOMAIN index, NEW v \in Data, UpdateRecord(id, v)
      PROVE  Map!Next
  BY <1>3, UpdateRecordMaps DEF Map!Next, Map!Update
<1>4. CASE \/ BeginTransaction \/ CommitTransaction \/ RollbackTransaction
           \/ UpdateFreePages \/ CloseDatabase \/ UNCHANGED vars
  <2>1. pages' = pages /\ index' = index
    BY <1>4 DEF BeginTransaction, CommitTransaction, RollbackTransaction,
                EndTransaction, UpdateFreePages, CloseDatabase, vars
  <2>2. header'.next_record_id = header.next_record_id
    BY <1>4 DEF BeginTransaction, CommitTransaction, RollbackTransaction,
                EndTransaction, UpdateFreePages, CloseDatabase, vars,
                IInv, TypeOK
  <2> QED BY <2>1, <2>2, StutterStep
<1>5. CASE RebuildIndex
  <2>1. pages' = pages /\ header' = header /\ index' = ScanIndex(pages')
    BY <1>5 DEF RebuildIndex
  <2>2. Map!Rescan
    BY <2>1, RescanStep
  <2> QED BY <2>2 DEF Map!Next
<1>6. CASE CompactDatabase
  BY <1>6, CompactDatabaseMaps DEF Map!Next
<1>7. CASE OpenDatabase
  BY <1>7, OpenDatabaseMaps DEF Map!Next
<1> QED BY <1>1, <1>2, <1>3, <1>4, <1>5, <1>6, <1>7 DEF Next

(* The page store is a record map: whatever calls are made, a read returns *)
(* the last content written to that id, no call disturbs another record,   *)
(* and an id is given once.                                                *)
THEOREM StoreIsRecordMap == Spec => ImplementsRecordMap
<1>1. Spec => Map!Spec
  BY Invariance, InitMaps, NextMaps, PTL DEF Spec, Map!Spec
<1> QED BY <1>1 DEF ImplementsRecordMap

=============================================================================
