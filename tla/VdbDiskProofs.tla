--------------------------- MODULE VdbDiskProofs ---------------------------
(***************************************************************************)
(* The safety invariants of VdbDisk, for records of one page that are      *)
(* changed only in transactions: for any file size, capacities, contents,  *)
(* bounds, calls and number of crashes, with or without torn writes.       *)
(*                                                                         *)
(* Each call is a safe way (VdbDiskPathProofs) between files that serve    *)
(* the handle, so its queue of writes is safe when the call starts, and    *)
(* stays so as Flush takes the first write off it.                         *)
(***************************************************************************)
EXTENDS VdbDiskPathProofs

(* When a call has returned, the files serve a handle that agrees with     *)
(* them.                                                                   *)
Rested(h, d, cl, ok) ==
  /\ Safe(d, cl, ok)
  /\ h.open =>
       /\ d.dat
       /\ h.free_list = d.free_list
       /\ h.header.journal_pending = d.header.journal_pending
       /\ ok => h.header = d.header
       /\ d.header.journal_pending => ReplayedPages(d) = d.pages
       /\ Serviceable(d, cl.stale, ok)

(* The inductive invariant.                                                *)
IInv ==
  /\ ram \in Handles
  /\ client \in Clients /\ outcome \in Clients
  /\ refused \in BOOLEAN /\ reissued \in BOOLEAN
  /\ crashes \in 0 .. MaxCrashes
  /\ todo \in Seq(ToSet(todo))
  /\ todo = <<>> => outcome = client
  /\ SafePath(disk, todo, client, Undisturbed)
  /\ Rested(ram, ApplyAll(disk, todo), outcome, Undisturbed)

-----------------------------------------------------------------------------
(* A record with a new id is put in an empty page.                         *)
LEMMA GoodAdded ==
  ASSUME NEW cl \in Clients, NEW pgs \in PageFiles, Good(pgs, cl),
         NEW p \in EmptyPages(pgs), NEW x \in Page, x.status = PS_ACTIVE,
         x.id \in 1 .. MaxRecordId, x.data \in Data,
         NewId(x.id, ActivePages(pgs), pgs),
         Room(Cardinality(ActivePages(pgs)) + 1)
  PROVE  LET new == [pgs EXCEPT ![p] = x]
         IN  /\ Good(new, OpenOf(cl, {x.id}))
             /\ Good(new, KeptOf(cl, x.id, x.data))
             /\ ActivePages(new) = ActivePages(pgs) \cup {p}
             /\ EmptyPages(new) = EmptyPages(pgs) \ {p}
             /\ Cardinality(ActivePages(new)) = Cardinality(ActivePages(pgs)) + 1
<1>1. \A q \in ActivePages(pgs) : pgs[q].id # x.id
  BY DEF NewId
<1> QED BY <1>1, GoodAdd

(* When AddRecord starts, in a transaction: the files are safe and serve;  *)
(* if the id is new and no insert was refused, there is room for it.       *)
AddReady(d, cl, ok, id, v) ==
  /\ PagesNeeded = 1
  /\ cl \in Clients
  /\ Safe(d, cl, ok)
  /\ d.header.journal_pending
  /\ ReplayedPages(d) = d.pages
  /\ Serviceable(d, FALSE, ok)
  /\ id \in 1 .. MaxRecordId
  /\ v \in Data
  /\ AllocatePages(d.free_list, d.pages).first + 1 <= MaxPages
  /\ ok => NewId(id, ActivePages(d.pages), d.pages)
  /\ ok => Room(Cardinality(ActivePages(d.pages)) + 1)

(* The writes of AddRecord up to the data page.                            *)
StoreWrites(d, id, v) ==
  LET a  == AllocatePages(d.free_list, d.pages)
      im == RecordImage(id, a.first, v)
  IN  a.writes \o (JournalImage(im, a.first) \o PutImage(im, a.first))

(* What they lead to: the record is in the pages and the journal, and the  *)
(* index does not name it yet.                                             *)
Stored(d, cl, ok, id, v) ==
  LET a  == AllocatePages(d.free_list, d.pages)
      p  == a.first
      ws == StoreWrites(d, id, v)
      e  == ApplyAll(d, ws)
  IN  /\ Moves(d, ws, e, OpenOf(cl, {id}), ok)
      /\ e \in Files /\ e.dat = d.dat /\ e.header = d.header
      /\ e.index = d.index /\ e.free_list = a.free_list
      /\ ReplayedPages(e) = e.pages
      /\ ListInFile(e)
      /\ p \in DOMAIN e.pages /\ DOMAIN d.pages \subseteq DOMAIN e.pages
      /\ p \in DataPages(MaxPages)
      /\ e.pages[p].id = id
      /\ ok => /\ Good(e.pages, KeptOf(cl, id, v))
               /\ p \notin ActivePages(d.pages)
               /\ ActivePages(e.pages) = ActivePages(d.pages) \cup {p}
               /\ Cardinality(ActivePages(e.pages))
                    = Cardinality(ActivePages(d.pages)) + 1
               /\ \A q \in ActivePages(d.pages) :
                    e.pages[q].id = d.pages[q].id
               /\ FreeListOf(e.free_list, e.pages)

(* AddRecord, in a transaction: the page is allocated and written ...      *)
LEMMA AddStored ==
  ASSUME NEW d, NEW cl, NEW ok, NEW id, NEW v, AddReady(d, cl, ok, id, v)
  PROVE  Stored(d, cl, ok, id, v)
<1> DEFINE a  == AllocatePages(d.free_list, d.pages)
           p  == a.first
           im == RecordImage(id, p, v)
           x  == [id |-> id, status |-> PS_ACTIVE, data |-> v]
           u  == a.writes
           w  == JournalImage(im, p) \o PutImage(im, p)
           c  == ApplyAll(d, u)
           e  == ApplyAll(c, w)
           o  == OpenOf(cl, {id})
           A  == ActivePages(d.pages)
<1> USE DEF AddReady
<1>0. /\ PagesNeeded = 1 /\ cl \in Clients /\ Safe(d, cl, ok)
      /\ d.header.journal_pending /\ ReplayedPages(d) = d.pages
      /\ Serviceable(d, FALSE, ok) /\ id \in 1 .. MaxRecordId /\ v \in Data
      /\ AllocatePages(d.free_list, d.pages).first + 1 <= MaxPages
      /\ (ok => NewId(id, ActivePages(d.pages), d.pages))
      /\ (ok => Room(Cardinality(ActivePages(d.pages)) + 1))
  OBVIOUS
<1> HIDE DEF AddReady
<1> USE <1>0
<1>1. d \in Files /\ d.dat /\ ListInFile(d)
  <2>1. d \in Files
    BY DEF Safe
  <2>2. d.dat
    BY <2>1, SafeInTxn
  <2> QED BY <2>1, <2>2 DEF Serviceable
<1>2. Safe(d, o, ok)
  BY SafeOpen
<1> HIDE DEF o
<1>3. /\ Moves(d, u, c, o, ok)
      /\ c \in Files /\ c.dat = d.dat /\ c.header = d.header
      /\ c.index = d.index /\ c.tmp = d.tmp
      /\ c.free_list = a.free_list
      /\ ReplayedPages(c) = c.pages
      /\ p \in DOMAIN c.pages
      /\ DOMAIN d.pages \subseteq DOMAIN c.pages
      /\ \A q \in DOMAIN d.pages : c.pages[q] = d.pages[q]
      /\ ActivePages(c.pages) = ActivePages(d.pages)
      /\ ListInFile(c)
      /\ FreeListExact(d) =>
           /\ p \in EmptyPages(c.pages)
           /\ ToSet(c.free_list.list) \subseteq EmptyPages(c.pages) \ {p}
           /\ Len(c.free_list.list) = Cardinality(ToSet(c.free_list.list))
           /\ c.free_list.free_page_count = Cardinality(EmptyPages(c.pages)) - 1
  BY <1>1, <1>2, TxnAllocate
<1>4. Moves(d, u, c, cl, ok)
  BY <1>1, TxnAllocate
<1> HIDE DEF a, u, c
<1>5. Safe(c, cl, ok) /\ Safe(c, o, ok) /\ c.header.journal_pending
  BY <1>3, <1>4, MovesEnds
<1>6. c.pages \in PageFiles /\ p \in DataPages(MaxPages) /\ p \in Int
  <2>1. c.pages \in PageFiles
    BY <1>3 DEF Files
  <2> QED BY <1>3, <2>1, FileOfPages
<1>7. ok => Good(c.pages, cl)
  BY <1>3, <1>5, SafeInTxn
<1>8. im[p] = x
  BY <1>6, OnePageRun
<1>9. x \in Page /\ x.status = PS_ACTIVE /\ x.id = id /\ x.data = v
      /\ x.status # PS_CONTINUATION
  BY DEF Page, PS_ACTIVE, PS_CONTINUATION
<1> HIDE DEF x, im
<1> DEFINE new == [c.pages EXCEPT ![p] = x]
<1>10. ok => /\ p \in EmptyPages(c.pages)
             /\ \A q \in ActivePages(c.pages) : c.pages[q].id # id
             /\ Room(Cardinality(ActivePages(c.pages)) + 1)
  <2>1. ok => FreeListExact(d)
    BY DEF Serviceable
  <2>2. A \subseteq DOMAIN d.pages
    BY DEF ActivePages
  <2>3. ok => \A q \in A : c.pages[q].id # id
    BY <1>3, <2>2 DEF NewId
  <2> QED BY <1>3, <2>1, <2>3
<1>11. ok => /\ Good(new, OpenOf(cl, {x.id}))
             /\ Good(new, KeptOf(cl, x.id, x.data))
             /\ ActivePages(new) = ActivePages(c.pages) \cup {p}
             /\ EmptyPages(new) = EmptyPages(c.pages) \ {p}
             /\ Cardinality(ActivePages(new))
                  = Cardinality(ActivePages(c.pages)) + 1
  <2> SUFFICES ASSUME ok
               PROVE  /\ Good(new, OpenOf(cl, {x.id}))
                      /\ Good(new, KeptOf(cl, x.id, x.data))
                      /\ ActivePages(new) = ActivePages(c.pages) \cup {p}
                      /\ EmptyPages(new) = EmptyPages(c.pages) \ {p}
                      /\ Cardinality(ActivePages(new))
                           = Cardinality(ActivePages(c.pages)) + 1
    OBVIOUS
  <2> DEFINE pgs == c.pages
  <2>1. /\ pgs \in PageFiles /\ Good(pgs, cl) /\ p \in EmptyPages(pgs)
        /\ NewId(x.id, ActivePages(pgs), pgs)
        /\ Room(Cardinality(ActivePages(pgs)) + 1)
        /\ x.id \in 1 .. MaxRecordId /\ x.data \in Data
    BY <1>6, <1>7, <1>9, <1>10 DEF NewId
  <2> HIDE DEF pgs
  <2>2. LET n == [pgs EXCEPT ![p] = x]
         IN  /\ Good(n, OpenOf(cl, {x.id}))
             /\ Good(n, KeptOf(cl, x.id, x.data))
             /\ ActivePages(n) = ActivePages(pgs) \cup {p}
             /\ EmptyPages(n) = EmptyPages(pgs) \ {p}
             /\ Cardinality(ActivePages(n)) = Cardinality(ActivePages(pgs)) + 1
    <3> HIDE DEF p
    <3> QED BY <1>9, <2>1, GoodAdded, ZenonT(60)
  <2> QED BY <2>2 DEF pgs
<1>12. ok => Good([ReplayedPages(c) EXCEPT ![p] = im[p]], o)
  BY <1>3, <1>8, <1>9, <1>11 DEF o
<1>13. /\ Moves(c, w, e, o, ok)
       /\ e \in Files /\ e.dat = c.dat /\ e.header = c.header
       /\ e.free_list = c.free_list /\ e.index = c.index
       /\ e.pages = [c.pages EXCEPT ![p] = im[p]]
       /\ ReplayedPages(e) = [ReplayedPages(c) EXCEPT ![p] = im[p]]
  <2>1. im[p] \in Page /\ im[p].status # PS_CONTINUATION
        /\ (im[p].status = PS_ACTIVE => im[p].id \in 1 .. MaxRecordId)
    BY <1>8, <1>9
  <2>2. /\ Safe(c, o, ok) /\ c.header.journal_pending /\ p \in DOMAIN c.pages
        /\ (ok => Good([ReplayedPages(c) EXCEPT ![p] = im[p]], o))
    BY <1>3, <1>5, <1>12
  <2> HIDE DEF p
  <2> QED BY <2>1, <2>2, TxnRecord, SMTT(30)
<1> HIDE DEF w, e
<1>14. Moves(d, u \o w, e, o, ok)
  BY <1>3, <1>13, MovesThen
<1>15. e = ApplyAll(d, u \o w)
  BY <1>14, MovesIs
<1>16. e.pages = new /\ ReplayedPages(e) = e.pages
  BY <1>3, <1>8, <1>13
<1>17. /\ DOMAIN new = DOMAIN c.pages /\ new[p] = x
       /\ \A q \in DOMAIN c.pages : q # p => new[q] = c.pages[q]
  BY <1>3
<1> HIDE DEF new
<1>18. ListInFile(e)
  BY <1>3, <1>13, <1>16, <1>17 DEF ListInFile
<1>19. p \in DOMAIN e.pages /\ DOMAIN d.pages \subseteq DOMAIN e.pages
       /\ e.pages[p].id = id
  BY <1>3, <1>9, <1>16, <1>17
<1>20. ASSUME ok
       PROVE  /\ Good(e.pages, KeptOf(cl, id, v))
              /\ p \notin A
              /\ ActivePages(e.pages) = A \cup {p}
              /\ Cardinality(ActivePages(e.pages)) = Cardinality(A) + 1
              /\ \A q \in A : e.pages[q].id = d.pages[q].id
              /\ FreeListOf(e.free_list, e.pages)
  <2>1. /\ Good(new, KeptOf(cl, id, v))
        /\ ActivePages(new) = A \cup {p}
        /\ EmptyPages(new) = EmptyPages(c.pages) \ {p}
        /\ Cardinality(ActivePages(new)) = Cardinality(A) + 1
    BY <1>3, <1>9, <1>11, <1>20
  <2>2. p \in EmptyPages(c.pages) /\ A = ActivePages(c.pages)
    BY <1>3, <1>10, <1>20
  <2>3. p \notin A
    BY <2>2 DEF ActivePages, EmptyPages, PS_ACTIVE, PS_EMPTY
  <2>4. \A q \in A : e.pages[q].id = d.pages[q].id
    <3> SUFFICES ASSUME NEW q \in A PROVE e.pages[q].id = d.pages[q].id
      OBVIOUS
    <3>1. q \in DOMAIN d.pages /\ q # p
      BY <2>3 DEF ActivePages
    <3>2. q \in DOMAIN c.pages /\ c.pages[q] = d.pages[q]
      BY <1>3, <3>1
    <3>3. e.pages[q] = c.pages[q]
      BY <1>16, <1>17, <3>1, <3>2
    <3> QED BY <3>2, <3>3
  <2>5. FreeListOf(e.free_list, e.pages)
    <3> DEFINE E == EmptyPages(c.pages)
               fl == c.free_list
    <3>1. FreeListExact(d)
      BY <1>20 DEF Serviceable
    <3>2. /\ p \in E
          /\ ToSet(fl.list) \subseteq E \ {p}
          /\ Len(fl.list) = Cardinality(ToSet(fl.list))
          /\ fl.free_page_count = Cardinality(E) - 1
      BY <1>3, <3>1
    <3>3. IsFiniteSet(E)
      BY <1>6, FileOfPages
    <3> HIDE DEF E
    <3>4. Cardinality(E \ {p}) = Cardinality(E) - 1
      BY <3>2, <3>3, FS_RemoveElement
    <3>5. EmptyPages(e.pages) = E \ {p} /\ e.free_list = fl
      BY <1>13, <1>16, <2>1 DEF E
    <3> QED BY <3>2, <3>4, <3>5 DEF FreeListOf
  <2> QED BY <1>16, <2>1, <2>3, <2>4, <2>5
<1>21. e.dat = d.dat /\ e.header = d.header /\ e.index = d.index
       /\ e.free_list = a.free_list
  BY <1>3, <1>13
<1> HIDE DEF p
<1> QED BY <1>6, <1>13, <1>14, <1>15, <1>16, <1>18, <1>19, <1>20, <1>21
        DEF a, p, im, u, w, o, A, Stored, StoreWrites

(* What the client is promised stays a client's state.                     *)
LEMMA ClientOpen ==
  ASSUME NEW cl \in Clients, NEW id \in 1 .. MaxRecordId, NEW v \in Data
  PROVE  /\ OpenOf(cl, {id}) \in Clients /\ OpenOf(cl, {id}).stale = cl.stale
         /\ KeptOf(cl, id, v) \in Clients /\ KeptOf(cl, id, v).stale = cl.stale
         /\ RemovedOf(cl, id) \in Clients /\ RemovedOf(cl, id).stale = cl.stale
BY Opens, Keeps, Removes

(* A handle that agrees with its files in a transaction.                   *)
LEMMA RestedInTxn ==
  ASSUME NEW d \in Files, d.header.journal_pending, d.dat, JournalInFile(d),
         ReplayedPages(d) = d.pages, Clean(d.pages),
         NEW cl, NEW ok, ok => Good(d.pages, cl),
         Serviceable(d, cl.stale, ok),
         NEW h, h.journal_pending, ok => h = d.header,
         NEW fl, fl = d.free_list
  PROVE  Rested(Handle(h, fl), d, cl, ok)
<1> DEFINE r == Handle(h, fl)
<1>1. r.open /\ r.header = h /\ r.free_list = fl
  BY DEF Handle
<1> HIDE DEF r
<1>2. Safe(d, cl, ok) <=>
           /\ d.dat
           /\ JournalInFile(d)
           /\ Clean(ReplayedPages(d))
           /\ ok => Good(ReplayedPages(d), cl)
  BY SafeInTxn
<1>3. ok => Good(ReplayedPages(d), cl)
  OBVIOUS
<1>4. Clean(ReplayedPages(d))
  OBVIOUS
<1>5. Safe(d, cl, ok)
  BY <1>2, <1>3, <1>4, Zenon
<1>6. r.header.journal_pending = d.header.journal_pending
  <2>1. d.header.journal_pending \in BOOLEAN
    BY DEF Files, Headers
  <2>2. h.journal_pending = TRUE
    OBVIOUS
  <2> QED BY <1>1, <2>1, <2>2
<1>7. ok => r.header = d.header
  BY <1>1
<1>8. r.free_list = d.free_list
  BY <1>1
<1> QED BY <1>1, <1>5, <1>6, <1>7, <1>8, Zenon DEF Rested, r

(* ... the index refuses the id, which the handle has used up ...          *)
LEMMA AddRefused ==
  ASSUME PagesNeeded = 1, NEW d, NEW cl \in Clients, Safe(d, cl, FALSE),
         d.header.journal_pending, ReplayedPages(d) = d.pages,
         Serviceable(d, FALSE, FALSE), cl.stale = FALSE,
         NEW id \in 1 .. MaxRecordId, NEW v \in Data,
         AllocatePages(d.free_list, d.pages).first + 1 <= MaxPages,
         NEW h, h.journal_pending
  PROVE  LET a  == AllocatePages(d.free_list, d.pages)
             ws == StoreWrites(d, id, v)
             o  == OpenOf(cl, {id})
         IN  /\ Moves(d, ws, ApplyAll(d, ws), o, FALSE)
             /\ Rested(Handle(h, a.free_list), ApplyAll(d, ws), o, FALSE)
<1> DEFINE a  == AllocatePages(d.free_list, d.pages)
           ws == StoreWrites(d, id, v)
           e  == ApplyAll(d, ws)
           o  == OpenOf(cl, {id})
<1>1. /\ Moves(d, ws, e, o, FALSE)
      /\ e \in Files /\ e.dat = d.dat /\ e.header = d.header
      /\ e.index = d.index /\ e.free_list = a.free_list
      /\ ReplayedPages(e) = e.pages
      /\ ListInFile(e)
      /\ DOMAIN d.pages \subseteq DOMAIN e.pages
  <2>1. AddReady(d, cl, FALSE, id, v)
    BY DEF AddReady
  <2>2. Stored(d, cl, FALSE, id, v)
    BY <2>1, AddStored
  <2> QED BY <2>2 DEF Stored
<1>2. o.stale = FALSE
  BY ClientOpen
<1>3. d \in Files /\ d.dat
  BY SafeInTxn DEF Safe
<1> HIDE DEF a, ws, e, o
<1>4. Safe(e, o, FALSE)
  BY <1>1, MovesEnds
<1>5. JournalInFile(e) /\ Clean(e.pages)
  BY <1>1, <1>4, SafeInTxn
<1>6. IndexInFile(e)
  BY <1>1 DEF Serviceable, IndexInFile
<1>7. Serviceable(e, o.stale, FALSE)
  BY <1>1, <1>6 DEF Serviceable
<1>8. Rested(Handle(h, a.free_list), e, o, FALSE)
  BY <1>1, <1>3, <1>5, <1>7, RestedInTxn
<1> QED BY <1>1, <1>8 DEF a, ws, e, o

(* ... or takes it.                                                        *)
LEMMA AddDone ==
  ASSUME PagesNeeded = 1, NEW d, NEW cl \in Clients, NEW ok, Safe(d, cl, ok),
         d.header.journal_pending, ReplayedPages(d) = d.pages,
         Serviceable(d, FALSE, ok), cl.stale = FALSE,
         NEW id \in 1 .. MaxRecordId, NEW v \in Data,
         AllocatePages(d.free_list, d.pages).first + 1 <= MaxPages,
         ok => NewId(id, ActivePages(d.pages), d.pages),
         d.index.size = 2,
         LeafInsert(d.index.leaf, id,
                    AllocatePages(d.free_list, d.pages).first).ok,
         NEW h \in Headers, h.journal_pending,
         ok => h.record_count = d.header.record_count + 1
  PROVE  LET a  == AllocatePages(d.free_list, d.pages)
             lf == LeafInsert(d.index.leaf, id, a.first).leaf
             ws == StoreWrites(d, id, v) \o <<PutIndex(2, lf), PutHeader(h)>>
         IN  /\ Moves(d, ws, ApplyAll(d, ws), OpenOf(cl, {id}), ok)
             /\ Rested(Handle(h, a.free_list), ApplyAll(d, ws),
                       KeptOf(cl, id, v), ok)
<1> DEFINE a  == AllocatePages(d.free_list, d.pages)
           p  == a.first
           u  == StoreWrites(d, id, v)
           c  == ApplyAll(d, u)
           o  == OpenOf(cl, {id})
           k  == KeptOf(cl, id, v)
           A  == ActivePages(d.pages)
           L  == d.index.leaf
           lf == LeafInsert(L, id, p).leaf
           X  == [size |-> 2, leaf |-> lf]
           w1 == PutIndex(2, lf)
           w2 == PutHeader(h)
           c1 == Apply(c, w1)
           e  == Apply(c1, w2)
<1>1. d \in Files /\ d.dat
  BY SafeInTxn DEF Safe
<1>2. d.pages \in PageFiles /\ L \in Leaves /\ LeafOK(L)
  <2>1. d.pages \in PageFiles /\ L \in Leaves
    BY <1>1 DEF Files, Indexes
  <2> QED BY <2>1, LeafParts
<1>3. ok => OneEach(L, A, d.pages)
  <2> SUFFICES ASSUME ok PROVE OneEach(L, A, d.pages)
    OBVIOUS
  <2>1. IndexExact(d)
    BY DEF Serviceable
  <2>2. Good(d.pages, cl)
    BY <1>1, SafeInTxn
  <2>3. Unique(d.pages)
    BY <2>2 DEF Good
  <2> QED BY <1>2, <2>1, <2>3, ExactOneEach
<1>4. IsFiniteSet(A)
  BY <1>2, FileOfPages
<1>5. ok => Room(Cardinality(A) + 1)
  <2> SUFFICES ASSUME ok PROVE Room(Cardinality(A) + 1)
    OBVIOUS
  <2>1. NewId(id, A, d.pages) /\ OneEach(L, A, d.pages)
    BY <1>3
  <2>2. LeafInsert(L, id, p).ok
    OBVIOUS
  <2> HIDE DEF L, A, p
  <2>3. LeafInsert(L, id, p).ok <=> Room(Cardinality(A) + 1)
    BY <1>4, <2>1, OneEachInsert
  <2> QED BY <2>2, <2>3
<1>6. /\ Moves(d, u, c, o, ok)
      /\ c \in Files /\ c.dat = d.dat /\ c.header = d.header
      /\ c.index = d.index /\ c.free_list = a.free_list
      /\ ReplayedPages(c) = c.pages
      /\ ListInFile(c)
      /\ p \in DOMAIN c.pages /\ DOMAIN d.pages \subseteq DOMAIN c.pages
      /\ p \in DataPages(MaxPages)
      /\ c.pages[p].id = id
      /\ ok => /\ Good(c.pages, k)
               /\ p \notin A
               /\ ActivePages(c.pages) = A \cup {p}
               /\ Cardinality(ActivePages(c.pages)) = Cardinality(A) + 1
               /\ \A q \in A : c.pages[q].id = d.pages[q].id
               /\ FreeListOf(c.free_list, c.pages)
  <2>1. AddReady(d, cl, ok, id, v)
    BY <1>5 DEF AddReady
  <2>2. Stored(d, cl, ok, id, v)
    BY <2>1, AddStored
  <2> QED BY <2>2 DEF Stored
<1> HIDE DEF a, u, c
<1>7. o.stale = FALSE /\ k.stale = FALSE
  BY ClientOpen
<1> HIDE DEF o, k
<1>8. /\ lf \in Leaves
      /\ LeafWithin(L, DOMAIN d.pages) => LeafWithin(lf, DOMAIN c.pages)
  <2>1. /\ LeafInsert(L, id, p).leaf \in Leaves
        /\ \A S : LeafWithin(L, S) /\ p \in S
                    => LeafWithin(LeafInsert(L, id, p).leaf, S)
    BY <1>2, <1>6, InsertTyped
  <2>2. LeafWithin(L, DOMAIN d.pages) => LeafWithin(L, DOMAIN c.pages)
    BY <1>6 DEF LeafWithin
  <2> QED BY <1>6, <2>1, <2>2
<1>9. X \in Indexes /\ X.size = 2 /\ X.leaf = lf
  BY <1>8 DEF Indexes
<1>10. LeafWithin(L, DOMAIN d.pages)
  BY DEF Serviceable, IndexInFile, LeafWithin
<1>11. ok => OneEach(lf, A \cup {p}, c.pages)
  <2> SUFFICES ASSUME ok PROVE OneEach(lf, A \cup {p}, c.pages)
    OBVIOUS
  <2>1. /\ NewId(id, A, d.pages) /\ OneEach(L, A, d.pages)
        /\ Room(Cardinality(A) + 1)
    BY <1>3, <1>5
  <2>2. LeafInsert(L, id, p) = [ok |-> TRUE, leaf |-> WithEntry(L, id, <<p>>)]
    <3> HIDE DEF L, A, p
    <3> QED BY <1>4, <2>1, OneEachRoom
  <2>3. lf = WithEntry(L, id, <<p>>)
    BY <2>2
  <2>4. OneEach(WithEntry(L, id, <<p>>), A \cup {p}, c.pages)
    <3> DEFINE old == d.pages
               new == c.pages
    <3>1. /\ OneEach(L, A, old) /\ \A q \in A : old[q].id # id
          /\ \A q \in A : new[q].id = old[q].id
          /\ new[p].id = id
      BY <1>6, <2>1 DEF NewId
    <3> HIDE DEF L, A, p, old, new
    <3>2. OneEach(WithEntry(L, id, <<p>>), A \cup {p}, new)
      BY <3>1, OneEachGrown
    <3> QED BY <3>2 DEF new
  <2> QED BY <2>3, <2>4
<1> HIDE DEF lf
<1>12. /\ Moves(c, <<w1>>, c1, o, ok)
       /\ c1 \in Files /\ c1.dat = c.dat /\ c1.header = c.header
       /\ c1.free_list = c.free_list /\ c1.pages = c.pages
       /\ c1.index = X /\ c1.journal = c.journal
       /\ ReplayedPages(c1) = ReplayedPages(c)
  <2>1. Safe(c, o, ok) /\ c.header.journal_pending
    BY <1>6, MovesEnds
  <2>2. w1 = PutIndex(X.size, X.leaf)
    BY <1>9
  <2> HIDE DEF w1, X
  <2>3. /\ Moves(c, <<PutIndex(X.size, X.leaf)>>, Apply(c, PutIndex(X.size, X.leaf)), o, ok)
        /\ Apply(c, PutIndex(X.size, X.leaf)) \in Files
        /\ Apply(c, PutIndex(X.size, X.leaf)).dat = c.dat
        /\ Apply(c, PutIndex(X.size, X.leaf)).header = c.header
        /\ Apply(c, PutIndex(X.size, X.leaf)).free_list = c.free_list
        /\ Apply(c, PutIndex(X.size, X.leaf)).pages = c.pages
        /\ Apply(c, PutIndex(X.size, X.leaf)).index = X
        /\ Apply(c, PutIndex(X.size, X.leaf)).journal = c.journal
        /\ ReplayedPages(Apply(c, PutIndex(X.size, X.leaf))) = ReplayedPages(c)
    BY <1>9, <2>1, TxnIndex
  <2> QED BY <2>2, <2>3
<1> HIDE DEF w1, c1, X
<1>13. /\ Moves(c1, <<w2>>, e, o, ok)
       /\ e \in Files /\ e.dat = c1.dat /\ e.header = h
       /\ e.free_list = c1.free_list /\ e.pages = c1.pages
       /\ e.index = c1.index /\ e.journal = c1.journal
       /\ ReplayedPages(e) = ReplayedPages(c1)
  <2>1. Safe(c1, o, ok) /\ c1.header.journal_pending
    BY <1>6, <1>12, MovesEnds
  <2> QED BY <2>1, TxnHeader
<1> HIDE DEF w2, e
<1>14. Moves(c, <<w1, w2>>, e, o, ok)
  <2>1. Moves(c, <<w1>> \o <<w2>>, e, o, ok)
    BY <1>12, <1>13, MovesThen
  <2>2. <<w1>> \o <<w2>> = <<w1, w2>>
    BY TwoWrites
  <2> QED BY <2>1, <2>2
<1>15. Moves(d, u \o <<w1, w2>>, e, o, ok) /\ e = ApplyAll(d, u \o <<w1, w2>>)
  <2>1. Moves(d, u \o <<w1, w2>>, e, o, ok)
    BY <1>6, <1>14, MovesThen
  <2> QED BY <2>1, MovesIs
<1>16. /\ e \in Files /\ e.dat /\ e.header = h
       /\ e.free_list = a.free_list /\ e.pages = c.pages
       /\ e.index.size = 2 /\ e.index.leaf = lf
       /\ ReplayedPages(e) = e.pages
  BY <1>1, <1>6, <1>9, <1>12, <1>13
<1>17. JournalInFile(e) /\ Clean(e.pages)
  <2>1. Safe(e, o, ok)
    BY <1>15, MovesEnds
  <2> QED BY <1>16, <2>1, SafeInTxn
<1>18. Serviceable(e, FALSE, ok)
  <2>1. ListInFile(e) /\ IndexInFile(e)
    <3>1. ListInFile(e)
      BY <1>6, <1>16 DEF ListInFile
    <3>2. IndexInFile(e)
      BY <1>8, <1>10, <1>16 DEF IndexInFile, LeafWithin
    <3> QED BY <3>1, <3>2
  <2>2. ok => FreeListExact(e)
    BY <1>6, <1>16 DEF FreeListOf, FreeListExact
  <2>3. ok => e.header.record_count = Cardinality(ActivePages(e.pages))
    BY <1>6, <1>16 DEF Serviceable
  <2>4. ok => IndexExact(e)
    <3>1. ok => OneEach(e.index.leaf, ActivePages(e.pages), e.pages)
      BY <1>6, <1>11, <1>16
    <3> QED BY <1>16, <3>1, OneEachExact
  <2> QED BY <2>1, <2>2, <2>3, <2>4, Zenon DEF Serviceable
<1>19. ok => Good(e.pages, k)
  BY <1>6, <1>16
<1>20. Rested(Handle(h, a.free_list), e, k, ok)
  <2>1. /\ e \in Files /\ e.header.journal_pending /\ e.dat
        /\ JournalInFile(e) /\ ReplayedPages(e) = e.pages /\ Clean(e.pages)
        /\ Serviceable(e, k.stale, ok) /\ (ok => h = e.header)
        /\ a.free_list = e.free_list
    BY <1>7, <1>16, <1>17, <1>18
  <2> QED BY <1>19, <2>1, RestedInTxn
<1> QED BY <1>15, <1>20 DEF a, u, c, lf, w1, w2, o, k, L

-----------------------------------------------------------------------------
(* A record is looked up, in a transaction.                                *)
FoundReady(d, cl, ok, id) ==
  /\ PagesNeeded = 1
  /\ cl \in Clients
  /\ cl.stale = FALSE
  /\ Safe(d, cl, ok)
  /\ d.header.journal_pending
  /\ ReplayedPages(d) = d.pages
  /\ Serviceable(d, FALSE, ok)
  /\ IndexHas(d, id)

(* The page the index names is in the file; undisturbed, it is the active  *)
(* page of that id.                                                        *)
LEMMA FoundPage ==
  ASSUME NEW d, NEW cl, NEW ok, NEW id, FoundReady(d, cl, ok, id)
  PROVE  LET p == IndexPage(d, id)
         IN  /\ d \in Files /\ d.dat /\ d.pages \in PageFiles
             /\ d.index.leaf \in Leaves
             /\ LeafWithin(d.index.leaf, DOMAIN d.pages)
             /\ id \in 1 .. MaxRecordId
             /\ p \in DOMAIN d.pages /\ p \in Int
             /\ Clean(d.pages)
             /\ ok => /\ p \in ActivePages(d.pages)
                      /\ d.pages[p].id = id
                      /\ Good(d.pages, cl)
                      /\ IndexExact(d)
                      /\ FreeListOf(d.free_list, d.pages)
                      /\ d.header.record_count
                           = Cardinality(ActivePages(d.pages))
                      /\ OneEach(d.index.leaf, ActivePages(d.pages), d.pages)
<1> DEFINE p == IndexPage(d, id)
           L == d.index.leaf
<1>1. d \in Files
  BY DEF FoundReady, Safe
<1>2. d.dat /\ Clean(d.pages) /\ (ok => Good(d.pages, cl))
  BY <1>1, SafeInTxn DEF FoundReady
<1>3. d.pages \in PageFiles /\ L \in Leaves
  BY <1>1 DEF Files, Indexes
<1>4. /\ LeafOK(L) /\ DOMAIN L \subseteq 1 .. MaxRecordId
      /\ \A k \in DOMAIN L : L[k] \in Seq(DataPages(MaxPages))
  BY <1>3, LeafParts
<1>5. id \in DOMAIN L /\ d.index.size = 2
  BY DEF FoundReady, IndexHas
<1>6. LeafWithin(L, DOMAIN d.pages)
  BY <1>5 DEF FoundReady, Serviceable, IndexInFile, LeafWithin
<1>7. 1 \in DOMAIN L[id] /\ p = L[id][1]
  <2>1. L[id] \in Seq(DataPages(MaxPages)) /\ L[id] # <<>>
    BY <1>4, <1>5 DEF LeafOK
  <2> HIDE DEF L
  <2>2. 1 \in DOMAIN L[id]
    BY <2>1
  <2> QED BY <2>2 DEF IndexPage, L
<1>8. p \in DOMAIN d.pages /\ p \in Int
  <2>1. p \in DOMAIN d.pages
    BY <1>5, <1>6, <1>7 DEF LeafWithin
  <2> QED BY <1>3, <2>1, FileOfPages
<1>9. ASSUME ok
      PROVE  /\ p \in ActivePages(d.pages)
             /\ d.pages[p].id = id
             /\ IndexExact(d)
             /\ FreeListOf(d.free_list, d.pages)
             /\ d.header.record_count = Cardinality(ActivePages(d.pages))
             /\ OneEach(L, ActivePages(d.pages), d.pages)
  <2>1. IndexExact(d) /\ FreeListExact(d)
        /\ d.header.record_count = Cardinality(ActivePages(d.pages))
    BY <1>9 DEF FoundReady, Serviceable
  <2>2. p \in ToSet(L[id])
    BY <1>7 DEF ToSet
  <2>3. p \in ActivePages(d.pages) /\ d.pages[p].id = id
    BY <1>5, <2>1, <2>2 DEF IndexExact
  <2>4. Unique(d.pages)
    BY <1>2, <1>9 DEF Good
  <2>5. OneEach(L, ActivePages(d.pages), d.pages)
    BY <1>3, <1>4, <2>1, <2>4, ExactOneEach
  <2>6. FreeListOf(d.free_list, d.pages)
    BY <2>1 DEF FreeListExact, FreeListOf
  <2> QED BY <2>1, <2>3, <2>5, <2>6
<1> HIDE DEF p, L
<1>10. id \in 1 .. MaxRecordId
  BY <1>4, <1>5
<1> QED BY <1>1, <1>2, <1>3, <1>6, <1>8, <1>9, <1>10 DEF p, L

(* A record's page is written, through the journal.                        *)
RecordReady(d, cl, ok, p, image) ==
  /\ PagesNeeded = 1
  /\ Safe(d, cl, ok)
  /\ d.header.journal_pending
  /\ p \in DOMAIN d.pages
  /\ image[p] \in Page
  /\ image[p].status # PS_CONTINUATION
  /\ image[p].status = PS_ACTIVE => image[p].id \in 1 .. MaxRecordId
  /\ ok => Good([ReplayedPages(d) EXCEPT ![p] = image[p]], cl)

RecordWrites(image, p) == JournalImage(image, p) \o PutImage(image, p)

RecordDone(d, cl, ok, p, image) ==
  LET e == ApplyAll(d, RecordWrites(image, p))
  IN  /\ Moves(d, RecordWrites(image, p), e, cl, ok)
      /\ e \in Files /\ e.dat = d.dat /\ e.header = d.header
      /\ e.free_list = d.free_list /\ e.index = d.index
      /\ e.pages = [d.pages EXCEPT ![p] = image[p]]
      /\ ReplayedPages(e) = [ReplayedPages(d) EXCEPT ![p] = image[p]]

(* That is safe, and the pages replayed change as the page does.           *)
LEMMA RecordPut ==
  ASSUME NEW d, NEW cl, NEW ok, NEW p, NEW image,
         RecordReady(d, cl, ok, p, image)
  PROVE  RecordDone(d, cl, ok, p, image)
<1>1. /\ PagesNeeded = 1 /\ Safe(d, cl, ok) /\ d.header.journal_pending
      /\ p \in DOMAIN d.pages /\ image[p] \in Page
      /\ image[p].status # PS_CONTINUATION
      /\ (image[p].status = PS_ACTIVE => image[p].id \in 1 .. MaxRecordId)
      /\ (ok => Good([ReplayedPages(d) EXCEPT ![p] = image[p]], cl))
  BY DEF RecordReady
<1> DEFINE ws == JournalImage(image, p) \o PutImage(image, p)
           e  == ApplyAll(d, ws)
<1>2. /\ Moves(d, ws, e, cl, ok)
      /\ e \in Files /\ e.dat = d.dat /\ e.header = d.header
      /\ e.free_list = d.free_list /\ e.index = d.index
      /\ e.pages = [d.pages EXCEPT ![p] = image[p]]
      /\ ReplayedPages(e) = [ReplayedPages(d) EXCEPT ![p] = image[p]]
  BY <1>1, TxnRecord
<1> QED BY <1>2 DEF RecordDone, RecordWrites

(* The active page of a record is rewritten ...                            *)
ChangeReady(pgs, cl, p) ==
  /\ cl \in Clients /\ pgs \in PageFiles /\ Good(pgs, cl)
  /\ p \in ActivePages(pgs) /\ pgs[p].id \in 1 .. MaxRecordId

UpdatedGood(pgs, new, cl, id, v) ==
  /\ Good(new, OpenOf(cl, {id})) /\ Good(new, KeptOf(cl, id, v))
  /\ ActivePages(new) = ActivePages(pgs)
  /\ EmptyPages(new) = EmptyPages(pgs)
  /\ \A q \in ActivePages(pgs) : new[q].id = pgs[q].id

(* ... with a new content, which keeps every other promise ...             *)
LEMMA GoodUpdated ==
  ASSUME NEW pgs, NEW cl, NEW p, ChangeReady(pgs, cl, p),
         NEW x \in Page, x.status = PS_ACTIVE, x.id = pgs[p].id, x.data \in Data
  PROVE  UpdatedGood(pgs, [pgs EXCEPT ![p] = x], cl, x.id, x.data)
BY GoodUpdate, SMTT(30) DEF ChangeReady, UpdatedGood

(* ... or emptied.                                                         *)
DeletedGood(pgs, new, cl, id, p) ==
  /\ Good(new, OpenOf(cl, {id})) /\ Good(new, RemovedOf(cl, id))
  /\ ActivePages(new) = ActivePages(pgs) \ {p}
  /\ EmptyPages(new) = EmptyPages(pgs) \cup {p}
  /\ \A q \in ActivePages(new) : new[q] = pgs[q]
  /\ Cardinality(ActivePages(new)) = Cardinality(ActivePages(pgs)) - 1

(* An emptied page frees room and breaks no other promise.                 *)
LEMMA GoodDeleted ==
  ASSUME NEW pgs, NEW cl, NEW p, ChangeReady(pgs, cl, p),
         NEW x \in Page, x.status = PS_EMPTY
  PROVE  DeletedGood(pgs, [pgs EXCEPT ![p] = x], cl, pgs[p].id, p)
<1>1. /\ cl \in Clients /\ pgs \in PageFiles /\ Good(pgs, cl)
      /\ p \in ActivePages(pgs) /\ pgs[p].id \in 1 .. MaxRecordId
  BY DEF ChangeReady
<1> DEFINE new == [pgs EXCEPT ![p] = x]
<1>2. /\ Good(new, OpenOf(cl, {pgs[p].id}))
      /\ Good(new, RemovedOf(cl, pgs[p].id))
      /\ ActivePages(new) = ActivePages(pgs) \ {p}
      /\ EmptyPages(new) = EmptyPages(pgs) \cup {p}
      /\ \A q \in ActivePages(new) : new[q] = pgs[q]
      /\ Cardinality(ActivePages(new)) = Cardinality(ActivePages(pgs)) - 1
  BY <1>1, GoodDelete
<1> HIDE DEF new
<1>3. DeletedGood(pgs, new, cl, pgs[p].id, p)
  BY <1>2 DEF DeletedGood
<1> QED BY <1>3 DEF new

(* UpdateRecord.                                                           *)
UpdateWrites(d, id, v) ==
  LET p == IndexPage(d, id) IN RecordWrites(RecordImage(id, p, v), p)

Updated(d, cl, ok, id, v, h) ==
  LET ws == UpdateWrites(d, id, v)
  IN  /\ Moves(d, ws, ApplyAll(d, ws), OpenOf(cl, {id}), ok)
      /\ Rested(Handle(h, d.free_list), ApplyAll(d, ws), KeptOf(cl, id, v), ok)
      /\ KeptOf(cl, id, v) \in Clients

(* UpdateRecord ends with the new content promised.                        *)
LEMMA UpdateDone ==
  ASSUME NEW d, NEW cl, NEW ok, NEW id, FoundReady(d, cl, ok, id), NEW v \in Data,
         NEW h, h.journal_pending, ok => h = d.header
  PROVE  Updated(d, cl, ok, id, v, h)
<1> DEFINE p  == IndexPage(d, id)
           im == RecordImage(id, p, v)
           x  == [id |-> id, status |-> PS_ACTIVE, data |-> v]
           ws == RecordWrites(im, p)
           e  == ApplyAll(d, ws)
           o  == OpenOf(cl, {id})
           k  == KeptOf(cl, id, v)
           A  == ActivePages(d.pages)
           new == [d.pages EXCEPT ![p] = x]
<1>1. /\ d \in Files /\ d.dat /\ d.pages \in PageFiles
      /\ id \in 1 .. MaxRecordId
      /\ p \in DOMAIN d.pages /\ p \in Int
      /\ Clean(d.pages)
      /\ LeafWithin(d.index.leaf, DOMAIN d.pages)
      /\ ok => /\ p \in A
               /\ d.pages[p].id = id
               /\ Good(d.pages, cl)
               /\ OneEach(d.index.leaf, A, d.pages)
               /\ FreeListOf(d.free_list, d.pages)
               /\ d.header.record_count = Cardinality(A)
               /\ IndexExact(d)
  BY FoundPage
<1>2. /\ PagesNeeded = 1 /\ cl \in Clients /\ cl.stale = FALSE
      /\ Safe(d, cl, ok) /\ d.header.journal_pending
      /\ ReplayedPages(d) = d.pages /\ Serviceable(d, FALSE, ok)
      /\ d.index.size = 2
  BY DEF FoundReady, IndexHas
<1> HIDE DEF p
<1>3. x \in Page /\ x.status = PS_ACTIVE /\ x.id = id /\ x.data = v
      /\ x.status # PS_CONTINUATION
  BY <1>1 DEF Page, PS_ACTIVE, PS_CONTINUATION
<1>4. im[p] = x
  BY <1>1, <1>2, OnePageRun
<1> HIDE DEF x, im
<1>5. ok => /\ Good(new, o)
            /\ Good(new, k)
            /\ ActivePages(new) = A
            /\ EmptyPages(new) = EmptyPages(d.pages)
            /\ \A q \in A : new[q].id = d.pages[q].id
  <2> SUFFICES ASSUME ok
               PROVE  /\ Good(new, o)
                      /\ Good(new, k)
                      /\ ActivePages(new) = A
                      /\ EmptyPages(new) = EmptyPages(d.pages)
                      /\ \A q \in A : new[q].id = d.pages[q].id
    OBVIOUS
  <2>1. ChangeReady(d.pages, cl, p) /\ x.id = d.pages[p].id /\ x.data \in Data
    BY <1>1, <1>2, <1>3 DEF ChangeReady
  <2>2. UpdatedGood(d.pages, new, cl, x.id, x.data)
    BY <1>3, <2>1, GoodUpdated
  <2> QED BY <1>3, <2>2 DEF UpdatedGood
<1>6. o \in Clients /\ k \in Clients /\ o.stale = FALSE /\ k.stale = FALSE
  BY <1>1, <1>2, ClientOpen
<1>7. Safe(d, o, ok)
  BY <1>2, SafeOpen
<1> HIDE DEF o, k
<1>8. /\ Moves(d, ws, e, o, ok)
      /\ e \in Files /\ e.dat = d.dat /\ e.header = d.header
      /\ e.free_list = d.free_list /\ e.index = d.index
      /\ e.pages = new
      /\ ReplayedPages(e) = new
  <2>1. RecordReady(d, o, ok, p, im)
    BY <1>1, <1>2, <1>3, <1>4, <1>5, <1>7 DEF RecordReady
  <2>2. RecordDone(d, o, ok, p, im)
    BY <2>1, RecordPut
  <2> QED BY <1>2, <1>4, <2>2 DEF RecordDone
<1> HIDE DEF ws, e
<1>9. DOMAIN new = DOMAIN d.pages
  OBVIOUS
<1> HIDE DEF new
<1>10. Safe(e, o, ok) /\ JournalInFile(e) /\ Clean(e.pages)
  <2>1. Safe(e, o, ok)
    BY <1>8, MovesEnds
  <2> QED BY <1>2, <1>8, <2>1, SafeInTxn
<1>11. Serviceable(e, FALSE, ok)
  <2>1. ListInFile(e)
    BY <1>2, <1>8, <1>9 DEF Serviceable, ListInFile
  <2>2. IndexInFile(e)
    BY <1>1, <1>8, <1>9 DEF IndexInFile, LeafWithin
  <2>3. ok => FreeListExact(e)
    BY <1>1, <1>5, <1>8 DEF FreeListOf, FreeListExact
  <2>4. ok => e.header.record_count = Cardinality(ActivePages(e.pages))
    BY <1>1, <1>5, <1>8
  <2>5. ok => IndexExact(e)
    <3> SUFFICES ASSUME ok PROVE IndexExact(e)
      OBVIOUS
    <3>1. IndexExact(d)
      BY <1>1
    <3>2. ActivePages(e.pages) = A /\ e.index = d.index
          /\ \A q \in A : e.pages[q].id = d.pages[q].id
      BY <1>5, <1>8
    <3> QED BY <3>1, <3>2 DEF IndexExact, IndexHas, IndexPage
  <2> QED BY <2>1, <2>2, <2>3, <2>4, <2>5, Zenon DEF Serviceable
<1>12. ok => Good(e.pages, k)
  BY <1>5, <1>8
<1>13. Rested(Handle(h, d.free_list), e, k, ok)
  <2>1. /\ e \in Files /\ e.header.journal_pending /\ e.dat
        /\ JournalInFile(e) /\ ReplayedPages(e) = e.pages /\ Clean(e.pages)
        /\ Serviceable(e, k.stale, ok) /\ (ok => h = e.header)
        /\ d.free_list = e.free_list
    BY <1>1, <1>2, <1>6, <1>8, <1>10, <1>11
  <2> QED BY <1>12, <2>1, RestedInTxn
<1> QED BY <1>6, <1>8, <1>13 DEF Updated, UpdateWrites, ws, e, im, p, o, k

(* DeleteRecord.                                                           *)
DeleteWrites(d, id, h) ==
  LET p     == IndexPage(d, id)
      freed == ReleasePages(d.free_list, p)
  IN  RecordWrites(EmptyImage(p), p)
        \o <<PutIndex(2, WithoutKey(d.index.leaf, id)), PutFreeList(freed),
             PutHeader(h)>>

Deleted(d, cl, ok, id, h) ==
  LET ws == DeleteWrites(d, id, h)
  IN  /\ Moves(d, ws, ApplyAll(d, ws), OpenOf(cl, {id}), ok)
      /\ Rested(Handle(h, ReleasePages(d.free_list, IndexPage(d, id))),
                ApplyAll(d, ws), RemovedOf(cl, id), ok)
      /\ RemovedOf(cl, id) \in Clients
      /\ ReleasePages(d.free_list, IndexPage(d, id)) \in FreeLists

(* DeleteRecord ends with the record gone from pages, index and count, and *)
(* its page listed or counted as free.                                     *)
LEMMA DeleteDone ==
  ASSUME NEW d, NEW cl, NEW ok, NEW id, FoundReady(d, cl, ok, id),
         NEW h \in Headers, h.journal_pending,
         ok => h.record_count = d.header.record_count - 1
  PROVE  Deleted(d, cl, ok, id, h)
<1> DEFINE p  == IndexPage(d, id)
           im == EmptyImage(p)
           freed == ReleasePages(d.free_list, p)
           lf == WithoutKey(d.index.leaf, id)
           X  == [size |-> 2, leaf |-> lf]
           u  == RecordWrites(im, p)
           w1 == PutIndex(2, lf)
           w2 == PutFreeList(freed)
           w3 == PutHeader(h)
           c  == ApplyAll(d, u)
           c1 == Apply(c, w1)
           c2 == Apply(c1, w2)
           e  == Apply(c2, w3)
           o  == OpenOf(cl, {id})
           k  == RemovedOf(cl, id)
           A  == ActivePages(d.pages)
           new == [d.pages EXCEPT ![p] = EmptyPage]
<1>1. /\ d \in Files /\ d.dat /\ d.pages \in PageFiles
      /\ id \in 1 .. MaxRecordId
      /\ p \in DOMAIN d.pages /\ p \in Int
      /\ Clean(d.pages)
      /\ d.index.leaf \in Leaves
      /\ LeafWithin(d.index.leaf, DOMAIN d.pages)
      /\ ok => /\ p \in A
               /\ d.pages[p].id = id
               /\ Good(d.pages, cl)
               /\ OneEach(d.index.leaf, A, d.pages)
               /\ FreeListOf(d.free_list, d.pages)
               /\ d.header.record_count = Cardinality(A)
  BY FoundPage
<1>2. /\ PagesNeeded = 1 /\ cl \in Clients /\ cl.stale = FALSE
      /\ Safe(d, cl, ok) /\ d.header.journal_pending
      /\ ReplayedPages(d) = d.pages /\ Serviceable(d, FALSE, ok)
  BY DEF FoundReady
<1> HIDE DEF p
<1>3. EmptyPage \in Page /\ EmptyPage.status = PS_EMPTY
      /\ EmptyPage.status # PS_CONTINUATION /\ EmptyPage.status # PS_ACTIVE
  BY DEF EmptyPage, Page, PS_ACTIVE, PS_CONTINUATION, PS_EMPTY
<1>4. im[p] = EmptyPage
  BY <1>1, <1>2, OnePageRun
<1> HIDE DEF im
<1>5. ok => /\ Good(new, o)
            /\ Good(new, k)
            /\ ActivePages(new) = A \ {p}
            /\ EmptyPages(new) = EmptyPages(d.pages) \cup {p}
            /\ \A q \in A \ {p} : new[q] = d.pages[q]
            /\ Cardinality(A \ {p}) = Cardinality(A) - 1
  <2> SUFFICES ASSUME ok
               PROVE  /\ Good(new, o)
                      /\ Good(new, k)
                      /\ ActivePages(new) = A \ {p}
                      /\ EmptyPages(new) = EmptyPages(d.pages) \cup {p}
                      /\ \A q \in A \ {p} : new[q] = d.pages[q]
                      /\ Cardinality(A \ {p}) = Cardinality(A) - 1
    OBVIOUS
  <2>1. ChangeReady(d.pages, cl, p) /\ d.pages[p].id = id
    BY <1>1, <1>2 DEF ChangeReady
  <2>2. DeletedGood(d.pages, new, cl, d.pages[p].id, p)
    BY <1>3, <2>1, GoodDeleted
  <2> HIDE DEF new
  <2>3. DeletedGood(d.pages, new, cl, id, p)
    BY <2>1, <2>2
  <2> QED BY <2>3 DEF DeletedGood
<1>6. o \in Clients /\ k \in Clients /\ o.stale = FALSE /\ k.stale = FALSE
  BY <1>1, <1>2, Opens, Removes
<1>7. Safe(d, o, ok)
  BY <1>2, SafeOpen
<1> HIDE DEF o, k
<1>8. /\ Moves(d, u, c, o, ok)
      /\ c \in Files /\ c.dat = d.dat /\ c.header = d.header
      /\ c.free_list = d.free_list /\ c.index = d.index
      /\ c.pages = new
      /\ ReplayedPages(c) = new
  <2>1. RecordReady(d, o, ok, p, im)
    BY <1>1, <1>2, <1>3, <1>4, <1>5, <1>7 DEF RecordReady
  <2>2. RecordDone(d, o, ok, p, im)
    BY <2>1, RecordPut
  <2> QED BY <1>2, <1>4, <2>2 DEF RecordDone
<1> HIDE DEF u, c
<1>9. DOMAIN new = DOMAIN d.pages
  OBVIOUS
<1> HIDE DEF new
<1>10. lf \in Leaves /\ LeafWithin(lf, DOMAIN d.pages)
  BY <1>1, WithoutTyped
<1>11. ok => OneEach(lf, A \ {p}, new)
  <2> SUFFICES ASSUME ok PROVE OneEach(lf, A \ {p}, new)
    OBVIOUS
  <2> DEFINE L == d.index.leaf
             pgs == d.pages
             B == A
  <2>1. /\ OneEach(L, B, pgs) /\ p \in B
        /\ \A q \in B \ {p} : new[q].id = pgs[q].id
        /\ pgs[p].id = id
    BY <1>1, <1>5
  <2> HIDE DEF L, pgs, B
  <2>2. OneEach(WithoutKey(L, pgs[p].id), B \ {p}, new)
    BY <2>1, OneEachWithout
  <2> QED BY <2>1, <2>2 DEF L, B
<1> HIDE DEF lf
<1>12. X \in Indexes /\ X.size = 2 /\ X.leaf = lf
  BY <1>10 DEF Indexes
<1>13. /\ freed \in FreeLists /\ ListWithin(freed, d.pages)
       /\ ok => FreeListOf(freed, new)
  <2>1. d.free_list \in FreeLists /\ ListWithin(d.free_list, d.pages)
    BY <1>1, <1>2 DEF Files, Serviceable, ListInFile, ListWithin
  <2> DEFINE pgs == d.pages
             fl == d.free_list
             E == EmptyPages(pgs)
  <2>2. /\ freed \in FreeLists /\ ListWithin(freed, pgs)
        /\ FreeListOf(fl, pgs) /\ p \notin EmptyPages(pgs) =>
             /\ ToSet(freed.list) \subseteq EmptyPages(pgs) \cup {p}
             /\ Len(freed.list) = Cardinality(ToSet(freed.list))
             /\ freed.free_page_count = Cardinality(EmptyPages(pgs)) + 1
    BY <1>1, <1>2, <2>1, ReleasedList
  <2>3. ASSUME ok PROVE FreeListOf(freed, new)
    <3>1. p \notin E
      BY <1>1, <2>3 DEF ActivePages, EmptyPages, PS_ACTIVE, PS_EMPTY
    <3>2. IsFiniteSet(E)
      BY <1>1, FileOfPages
    <3>3. /\ ToSet(freed.list) \subseteq E \cup {p}
          /\ Len(freed.list) = Cardinality(ToSet(freed.list))
          /\ freed.free_page_count = Cardinality(E) + 1
      BY <1>1, <2>2, <2>3, <3>1
    <3>4. EmptyPages(new) = E \cup {p}
      BY <1>5, <2>3
    <3> HIDE DEF E
    <3>5. Cardinality(E \cup {p}) = Cardinality(E) + 1
      BY <3>1, <3>2, FS_AddElement
    <3> QED BY <3>3, <3>4, <3>5 DEF FreeListOf
  <2> QED BY <2>2, <2>3
<1> HIDE DEF freed
<1>14. /\ Moves(c, <<w1>>, c1, o, ok)
       /\ c1 \in Files /\ c1.dat = c.dat /\ c1.header = c.header
       /\ c1.free_list = c.free_list /\ c1.pages = c.pages
       /\ c1.index = X /\ c1.journal = c.journal
       /\ ReplayedPages(c1) = ReplayedPages(c)
  <2>1. Safe(c, o, ok) /\ c.header.journal_pending
    BY <1>2, <1>8, MovesEnds
  <2> DEFINE w == PutIndex(X.size, X.leaf)
  <2>2. w1 = w
    BY <1>12
  <2> HIDE DEF w1, X
  <2>3. /\ Moves(c, <<w>>, Apply(c, w), o, ok)
        /\ Apply(c, w) \in Files
        /\ Apply(c, w).dat = c.dat
        /\ Apply(c, w).header = c.header
        /\ Apply(c, w).free_list = c.free_list
        /\ Apply(c, w).pages = c.pages
        /\ Apply(c, w).index = X
        /\ Apply(c, w).journal = c.journal
        /\ ReplayedPages(Apply(c, w)) = ReplayedPages(c)
    BY <1>12, <2>1, TxnIndex
  <2> HIDE DEF w
  <2> QED BY <2>2, <2>3
<1> HIDE DEF w1, c1, X
<1>15. /\ Moves(c1, <<w2>>, c2, o, ok)
       /\ c2 \in Files /\ c2.dat = c1.dat /\ c2.header = c1.header
       /\ c2.free_list = freed /\ c2.pages = c1.pages
       /\ c2.index = c1.index /\ c2.journal = c1.journal
       /\ ReplayedPages(c2) = ReplayedPages(c1)
  <2>1. Safe(c1, o, ok) /\ c1.header.journal_pending
    BY <1>2, <1>8, <1>14, MovesEnds
  <2> QED BY <1>13, <2>1, TxnFreeList
<1> HIDE DEF w2, c2
<1>16. /\ Moves(c2, <<w3>>, e, o, ok)
       /\ e \in Files /\ e.dat = c2.dat /\ e.header = h
       /\ e.free_list = c2.free_list /\ e.pages = c2.pages
       /\ e.index = c2.index /\ e.journal = c2.journal
       /\ ReplayedPages(e) = ReplayedPages(c2)
  <2>1. Safe(c2, o, ok) /\ c2.header.journal_pending
    BY <1>2, <1>8, <1>14, <1>15, MovesEnds
  <2> QED BY <2>1, TxnHeader
<1> HIDE DEF w3, e
<1> DEFINE ws == u \o <<w1, w2, w3>>
<1>17. Moves(d, ws, e, o, ok) /\ e = ApplyAll(d, ws)
  <2>1. Moves(c, <<w1>> \o <<w2>>, c2, o, ok)
    BY <1>14, <1>15, MovesThen
  <2>2. Moves(c, (<<w1>> \o <<w2>>) \o <<w3>>, e, o, ok)
    BY <1>16, <2>1, MovesThen
  <2>3. Moves(d, u \o ((<<w1>> \o <<w2>>) \o <<w3>>), e, o, ok)
    BY <1>8, <2>2, MovesThen
  <2>4. (<<w1>> \o <<w2>>) \o <<w3>> = <<w1, w2, w3>>
    BY ThreeWrites
  <2>5. Moves(d, ws, e, o, ok)
    BY <2>3, <2>4
  <2> QED BY <2>5, MovesIs
<1> HIDE DEF ws
<1>18. /\ e \in Files /\ e.dat /\ e.header = h
       /\ e.free_list = freed /\ e.pages = new
       /\ e.index.size = 2 /\ e.index.leaf = lf
       /\ ReplayedPages(e) = e.pages
  BY <1>1, <1>8, <1>12, <1>14, <1>15, <1>16
<1>19. JournalInFile(e) /\ Clean(e.pages)
  <2>1. Safe(e, o, ok)
    BY <1>17, MovesEnds
  <2> QED BY <1>18, <2>1, SafeInTxn
<1>20. Serviceable(e, FALSE, ok)
  <2>1. ListInFile(e)
    BY <1>9, <1>13, <1>18 DEF ListInFile, ListWithin
  <2>2. IndexInFile(e)
    BY <1>9, <1>10, <1>18 DEF IndexInFile, LeafWithin
  <2>3. ok => FreeListExact(e)
    BY <1>13, <1>18 DEF FreeListOf, FreeListExact
  <2>4. ok => e.header.record_count = Cardinality(ActivePages(e.pages))
    BY <1>1, <1>5, <1>18
  <2>5. ok => IndexExact(e)
    <3>1. ok => OneEach(e.index.leaf, ActivePages(e.pages), e.pages)
      BY <1>5, <1>11, <1>18
    <3> QED BY <1>18, <3>1, OneEachExact
  <2> QED BY <2>1, <2>2, <2>3, <2>4, <2>5, Zenon DEF Serviceable
<1>21. ok => Good(e.pages, k)
  BY <1>5, <1>18
<1>22. Rested(Handle(h, freed), e, k, ok)
  <2>1. /\ e \in Files /\ e.header.journal_pending /\ e.dat
        /\ JournalInFile(e) /\ ReplayedPages(e) = e.pages /\ Clean(e.pages)
        /\ Serviceable(e, k.stale, ok) /\ (ok => h = e.header)
        /\ freed = e.free_list
    BY <1>6, <1>18, <1>19, <1>20
  <2> QED BY <1>21, <2>1, RestedInTxn
<1>23. ws = DeleteWrites(d, id, h)
  BY DEF ws, DeleteWrites, u, w1, w2, w3, im, p, lf, freed
<1> QED BY <1>6, <1>13, <1>17, <1>22, <1>23 DEF Deleted, o, k, freed, p

-----------------------------------------------------------------------------
(* Files between two calls of a client: as a handle needs them.            *)
Settled(d, cl, ok) ==
  /\ d \in Files
  /\ d.dat
  /\ Clean(d.pages)
  /\ ok => Good(d.pages, cl)
  /\ Serviceable(d, cl.stale, ok)
  /\ d.header.journal_pending => JournalInFile(d) /\ ReplayedPages(d) = d.pages

(* The index is exact or not whatever the other files are ...              *)
LEMMA SameIndexExact ==
  ASSUME NEW d, NEW e, e.index = d.index, e.pages = d.pages, IndexExact(d)
  PROVE  IndexExact(e)
<1>1. \A id : IndexHas(e, id) <=> IndexHas(d, id)
  BY DEF IndexHas
<1>2. \A id : IndexPage(e, id) = IndexPage(d, id)
  BY DEF IndexPage
<1>3. \A p \in ActivePages(e.pages) :
        IndexHas(e, e.pages[p].id) /\ IndexPage(e, e.pages[p].id) = p
  BY <1>1, <1>2 DEF IndexExact
<1>4. e.index.size = 2
  BY DEF IndexExact
<1>5. \A id \in DOMAIN e.index.leaf : \A p \in ToSet(e.index.leaf[id]) :
        p \in ActivePages(e.pages) /\ e.pages[p].id = id
  BY Zenon DEF IndexExact
<1> QED BY <1>3, <1>4, <1>5, Zenon DEF IndexExact

(* ... and files that agree where it matters serve alike.                  *)
LEMMA SameFilesServe ==
  ASSUME NEW d, NEW e, NEW stale, NEW ok, Serviceable(d, stale, ok),
         e.index = d.index, e.pages = d.pages, e.free_list = d.free_list,
         ok => e.header.record_count = d.header.record_count
  PROVE  Serviceable(e, stale, ok)
<1>1. ListInFile(e) /\ (~stale => IndexInFile(e))
  BY DEF Serviceable, ListInFile, IndexInFile
<1>2. ok => FreeListExact(e)
  BY DEF Serviceable, FreeListExact
<1>3. ok => e.header.record_count = Cardinality(ActivePages(e.pages))
  BY DEF Serviceable
<1>4. ok /\ ~stale => IndexExact(e)
  BY SameIndexExact DEF Serviceable
<1> QED BY <1>1, <1>2, <1>3, <1>4, Zenon DEF Serviceable

(* Such files are safe.                                                    *)
LEMMA SettledSafe ==
  ASSUME NEW d, NEW cl, NEW ok, Settled(d, cl, ok)
  PROVE  Safe(d, cl, ok)
<1>1. /\ d \in Files /\ d.dat /\ Clean(d.pages)
      /\ Serviceable(d, cl.stale, ok)
      /\ (d.header.journal_pending =>
            JournalInFile(d) /\ ReplayedPages(d) = d.pages)
  BY DEF Settled
<1>2. ok => Good(d.pages, cl)
  BY Zenon DEF Settled
<1>3. CASE d.header.journal_pending
  <2>1. Safe(d, cl, ok) <=>
           /\ d.dat
           /\ JournalInFile(d)
           /\ Clean(ReplayedPages(d))
           /\ ok => Good(ReplayedPages(d), cl)
    BY <1>1, <1>3, SafeInTxn
  <2>2. ok => Good(ReplayedPages(d), cl)
    BY <1>1, <1>2, <1>3
  <2>3. Clean(ReplayedPages(d))
    BY <1>1, <1>3
  <2> QED BY <1>1, <1>3, <2>1, <2>2, <2>3, Zenon
<1>4. CASE ~d.header.journal_pending
  <2>1. Safe(d, cl, ok) <=>
           /\ Clean(d.pages)
           /\ ok => Good(d.pages, cl)
           /\ Serviceable(d, cl.stale, ok)
    BY <1>1, <1>4, SafeOutside
  <2> QED BY <1>1, <1>2, <2>1, Zenon
<1> QED BY <1>3, <1>4

(* A write that cannot be torn, from settled files to settled files.       *)
LEMMA SettledMove ==
  ASSUME NEW d, NEW w, NEW cl, NEW ok, Settled(d, cl, ok),
         Settled(Apply(d, w), cl, ok), TornBy(d, w) = {}
  PROVE  Moves(d, <<w>>, Apply(d, w), cl, ok)
<1>1. TornSafe(d, w, cl, ok)
  BY DEF TornSafe
<1>2. Safe(d, cl, ok) /\ Safe(Apply(d, w), cl, ok)
  BY SettledSafe
<1> QED BY <1>1, <1>2, MovesOne

(* They serve a handle that agrees with them ...                           *)
LEMMA SettledRested ==
  ASSUME NEW d, NEW cl, NEW ok, Settled(d, cl, ok), NEW h, NEW fl,
         fl = d.free_list, h.journal_pending = d.header.journal_pending,
         ok => h = d.header
  PROVE  Rested(Handle(h, fl), d, cl, ok)
<1> DEFINE r == Handle(h, fl)
<1>1. r.open /\ r.header = h /\ r.free_list = fl
  BY DEF Handle
<1> HIDE DEF r
<1>2. Safe(d, cl, ok)
  BY SettledSafe
<1>3. /\ d.dat /\ Serviceable(d, cl.stale, ok)
      /\ (d.header.journal_pending => ReplayedPages(d) = d.pages)
  BY DEF Settled
<1>4. ok => r.header = d.header
  BY <1>1
<1>5. r.free_list = d.free_list
      /\ r.header.journal_pending = d.header.journal_pending
  BY <1>1
<1> QED BY <1>2, <1>3, <1>4, <1>5, Zenon DEF Rested, r

(* ... and an open handle between two calls has such files.                *)
LEMMA RestedSettled ==
  ASSUME NEW h \in Handles, h.open, NEW d, NEW cl, NEW ok, Rested(h, d, cl, ok)
  PROVE  /\ Settled(d, cl, ok)
         /\ h = Handle(h.header, h.free_list)
         /\ h.header \in Headers /\ h.free_list \in FreeLists
         /\ h.free_list = d.free_list
         /\ h.header.journal_pending = d.header.journal_pending
         /\ ok => h.header = d.header
<1>1. /\ Safe(d, cl, ok) /\ d.dat /\ h.free_list = d.free_list
      /\ h.header.journal_pending = d.header.journal_pending
      /\ (d.header.journal_pending => ReplayedPages(d) = d.pages)
      /\ Serviceable(d, cl.stale, ok)
  BY DEF Rested
<1>2. ok => h.header = d.header
  BY Zenon DEF Rested
<1>3. d \in Files
  BY <1>1 DEF Safe
<1>4. Clean(d.pages) /\ (ok => Good(d.pages, cl))
      /\ (d.header.journal_pending => JournalInFile(d))
  BY <1>1, <1>3, SafeInTxn, SafeOutside
<1>5. Settled(d, cl, ok)
  BY <1>1, <1>3, <1>4, Zenon DEF Settled
<1>6. h \in [open : {TRUE}, header : Headers, free_list : FreeLists]
  <2>1. Closed.open = FALSE
    BY DEF Closed
  <2>2. h # Closed
    BY <2>1
  <2> QED BY <2>2 DEF Handles
<1>7. h = Handle(h.header, h.free_list) /\ h.header \in Headers
      /\ h.free_list \in FreeLists
  BY <1>6 DEF Handle
<1> QED BY <1>1, <1>2, <1>5, <1>7

(* They stay settled when promises are suspended.                          *)
LEMMA SettledOpen ==
  ASSUME NEW cl \in Clients, NEW ids, NEW d, NEW ok, Settled(d, cl, ok)
  PROVE  Settled(d, OpenOf(cl, ids), ok)
<1>1. OpenOf(cl, ids).stale = cl.stale
  BY Opens
<1>2. Good(d.pages, cl) => Good(d.pages, OpenOf(cl, ids))
  BY GoodOpen
<1> QED BY <1>1, <1>2 DEF Settled

(* Replaying an empty journal changes nothing.                             *)
LEMMA EmptyJournal ==
  ASSUME NEW d \in Files, d.journal = <<>>
  PROVE  JournalInFile(d) /\ ReplayedPages(d) = d.pages
<1>1. JournalInFile(d)
  BY DEF JournalInFile
<1>2. d.pages \in PageFiles
  BY DEF Files
<1>3. Len(d.journal) = 0
  OBVIOUS
<1>4. ReplayedPages(d) = Replayed(d.pages, d.journal, Len(d.journal))
  BY <1>1, ReplayedIs
<1>5. Replayed(d.pages, d.journal, 0) = d.pages
  BY <1>2, ReplayNone
<1> QED BY <1>1, <1>3, <1>4, <1>5

(* The header is written with the same record count.                       *)
LEMMA SettledHeader ==
  ASSUME NEW d, NEW cl, NEW ok, Settled(d, cl, ok), NEW h \in Headers,
         ok => h.record_count = d.header.record_count,
         h.journal_pending => JournalInFile(d) /\ ReplayedPages(d) = d.pages
  PROVE  LET e == Apply(d, PutHeader(h))
         IN  /\ Moves(d, <<PutHeader(h)>>, e, cl, ok)
             /\ Settled(e, cl, ok)
             /\ e.header = h /\ e.free_list = d.free_list /\ e.pages = d.pages
             /\ e.journal = d.journal /\ e.index = d.index
<1> DEFINE e == Apply(d, PutHeader(h))
<1>1. d \in Files
  BY DEF Settled
<1>2. /\ e \in Files /\ e.dat = d.dat /\ e.header = h
      /\ e.free_list = d.free_list /\ e.pages = d.pages
      /\ e.index = d.index /\ e.journal = d.journal
      /\ TornBy(d, PutHeader(h)) = {}
  BY <1>1, HeaderPut
<1> HIDE DEF e
<1>3. Serviceable(e, cl.stale, ok)
  <2>1. ok => e.header.record_count = d.header.record_count
    BY <1>2 DEF Settled, Serviceable
  <2> QED BY <1>2, <2>1, SameFilesServe DEF Settled
<1>4. h.journal_pending => JournalInFile(e) /\ ReplayedPages(e) = e.pages
  <2> SUFFICES ASSUME h.journal_pending
               PROVE  JournalInFile(e) /\ ReplayedPages(e) = e.pages
    OBVIOUS
  <2>1. JournalInFile(d) /\ ReplayedPages(d) = d.pages
    OBVIOUS
  <2> QED BY <1>1, <1>2, <2>1, ReplayedSame
<1>5. e.dat /\ Clean(e.pages) /\ (ok => Good(e.pages, cl))
  BY <1>2 DEF Settled
<1>6. Settled(e, cl, ok)
  BY <1>2, <1>3, <1>4, <1>5 DEF Settled
<1>7. Moves(d, <<PutHeader(h)>>, e, cl, ok)
  BY <1>2, <1>6, SettledMove DEF e
<1> QED BY <1>2, <1>6, <1>7 DEF e

(* The journal is truncated.                                               *)
LEMMA SettledTruncate ==
  ASSUME NEW d, NEW cl, NEW ok, Settled(d, cl, ok)
  PROVE  LET e == Apply(d, TruncateJournal)
         IN  /\ Moves(d, <<TruncateJournal>>, e, cl, ok)
             /\ Settled(e, cl, ok)
             /\ e.header = d.header /\ e.free_list = d.free_list
             /\ e.pages = d.pages /\ e.index = d.index
             /\ JournalInFile(e) /\ ReplayedPages(e) = e.pages
<1> DEFINE e == Apply(d, TruncateJournal)
<1>1. d \in Files
  BY DEF Settled
<1>2. /\ e \in Files /\ e.dat = d.dat /\ e.header = d.header
      /\ e.free_list = d.free_list /\ e.pages = d.pages
      /\ e.index = d.index /\ e.journal = <<>>
      /\ TornBy(d, TruncateJournal) = {}
  BY <1>1, JournalTruncated
<1> HIDE DEF e
<1>3. JournalInFile(e) /\ ReplayedPages(e) = e.pages
  BY <1>2, EmptyJournal
<1>4. Serviceable(e, cl.stale, ok)
  BY <1>2, SameFilesServe DEF Settled
<1>5. Settled(e, cl, ok)
  BY <1>2, <1>3, <1>4 DEF Settled
<1>6. Moves(d, <<TruncateJournal>>, e, cl, ok)
  BY <1>2, <1>5, SettledMove DEF e
<1> QED BY <1>2, <1>3, <1>5, <1>6 DEF e

(* A free list that fits the pages is written.                             *)
LEMMA SettledList ==
  ASSUME NEW d, NEW cl, NEW ok, Settled(d, cl, ok), NEW fl \in FreeLists,
         ListWithin(fl, d.pages), ok => FreeListOf(fl, d.pages)
  PROVE  LET e == Apply(d, PutFreeList(fl))
         IN  /\ Moves(d, <<PutFreeList(fl)>>, e, cl, ok)
             /\ Settled(e, cl, ok)
             /\ e.header = d.header /\ e.free_list = fl
             /\ e.pages = d.pages /\ e.index = d.index
<1> DEFINE e == Apply(d, PutFreeList(fl))
<1>1. d \in Files
  BY DEF Settled
<1>2. /\ e \in Files /\ e.dat = d.dat /\ e.header = d.header
      /\ e.free_list = fl /\ e.pages = d.pages
      /\ e.index = d.index /\ e.journal = d.journal
      /\ TornBy(d, PutFreeList(fl)) = {}
  BY <1>1, FreeListPut
<1> HIDE DEF e
<1>3. Serviceable(e, cl.stale, ok)
  <2>1. ListInFile(e) /\ (~cl.stale => IndexInFile(e))
    BY <1>2 DEF Settled, Serviceable, ListInFile, ListWithin, IndexInFile
  <2>2. ok => FreeListExact(e)
    BY <1>2 DEF FreeListExact, FreeListOf
  <2>3. ok => e.header.record_count = Cardinality(ActivePages(e.pages))
    BY <1>2 DEF Settled, Serviceable
  <2>4. ok /\ ~cl.stale => IndexExact(e)
    BY <1>2, SameIndexExact DEF Settled, Serviceable
  <2> QED BY <2>1, <2>2, <2>3, <2>4, Zenon DEF Serviceable
<1>4. e.header.journal_pending =>
        JournalInFile(e) /\ ReplayedPages(e) = e.pages
  <2> SUFFICES ASSUME d.header.journal_pending
               PROVE  JournalInFile(e) /\ ReplayedPages(e) = e.pages
    BY <1>2
  <2>1. JournalInFile(d) /\ ReplayedPages(d) = d.pages
    BY DEF Settled
  <2> QED BY <1>1, <1>2, <2>1, ReplayedSame
<1>5. e.dat /\ Clean(e.pages) /\ (ok => Good(e.pages, cl))
  BY <1>2 DEF Settled
<1>6. Settled(e, cl, ok)
  BY <1>2, <1>3, <1>4, <1>5 DEF Settled
<1>7. Moves(d, <<PutFreeList(fl)>>, e, cl, ok)
  BY <1>2, <1>6, SettledMove DEF e
<1> QED BY <1>2, <1>6, <1>7 DEF e

-----------------------------------------------------------------------------
(* A call that is about no record.                                         *)
LEMMA OpenNone ==
  ASSUME NEW cl \in Clients
  PROVE  OpenOf(cl, {}) = cl
<1>1. /\ cl.promised \in UNION {[S -> Data] : S \in SUBSET (1 .. MaxRecordId)}
      /\ cl.gone \in SUBSET (1 .. MaxRecordId)
      /\ cl = [promised |-> cl.promised, gone |-> cl.gone, stale |-> cl.stale]
  BY DEF Clients
<1>2. cl.promised = [i \in DOMAIN cl.promised |-> cl.promised[i]]
  BY <1>1
<1>3. DOMAIN cl.promised \ {} = DOMAIN cl.promised /\ cl.gone \ {} = cl.gone
  BY <1>1
<1>4. [i \in DOMAIN cl.promised \ {} |-> cl.promised[i]] = cl.promised
  BY <1>2, <1>3
<1>5. OpenOf(cl, {}).promised = cl.promised
      /\ OpenOf(cl, {}).gone = cl.gone /\ OpenOf(cl, {}).stale = cl.stale
  BY <1>1, <1>3, <1>4 DEF OpenOf
<1>6. OpenOf(cl, {}) \in Clients
  BY Opens
<1>7. OpenOf(cl, {}) = [promised |-> OpenOf(cl, {}).promised,
                        gone |-> OpenOf(cl, {}).gone,
                        stale |-> OpenOf(cl, {}).stale]
  BY <1>6 DEF Clients
<1> QED BY <1>1, <1>5, <1>7

(* A call takes files from between two calls to such files again.          *)
Turned(d, ws, cl, ok, h, fl) ==
  /\ ws # <<>>
  /\ Moves(d, ws, ApplyAll(d, ws), cl, ok)
  /\ Settled(ApplyAll(d, ws), cl, ok)
  /\ ApplyAll(d, ws).header = h
  /\ ApplyAll(d, ws).free_list = fl

(* Turned, from the files the call leads to.                               *)
LEMMA TurnedBy ==
  ASSUME NEW d, NEW ws, ws # <<>>, NEW e, NEW cl, NEW ok,
         Moves(d, ws, e, cl, ok), Settled(e, cl, ok)
  PROVE  Turned(d, ws, cl, ok, e.header, e.free_list)
<1>1. e = ApplyAll(d, ws)
  BY MovesIs
<1> QED BY <1>1 DEF Turned

(* Two writes.                                                             *)
LEMMA TwoMoves ==
  ASSUME NEW d, NEW a, NEW e, NEW b, NEW f, NEW cl, NEW ok,
         Moves(d, <<a>>, e, cl, ok), Moves(e, <<b>>, f, cl, ok)
  PROVE  Moves(d, <<a, b>>, f, cl, ok)
<1>1. Moves(d, <<a>> \o <<b>>, f, cl, ok)
  BY MovesThen
<1> QED BY <1>1, TwoWrites

(* BeginTransaction.                                                       *)
LEMMA BeginTurns ==
  ASSUME NEW d, NEW cl, NEW ok, Settled(d, cl, ok), NEW h \in Headers,
         ok => h.record_count = d.header.record_count
  PROVE  Turned(d, <<TruncateJournal, PutHeader(h)>>, cl, ok, h, d.free_list)
<1> DEFINE e == Apply(d, TruncateJournal)
           f == Apply(e, PutHeader(h))
<1>1. /\ Moves(d, <<TruncateJournal>>, e, cl, ok) /\ Settled(e, cl, ok)
      /\ e.header = d.header /\ e.free_list = d.free_list
      /\ JournalInFile(e) /\ ReplayedPages(e) = e.pages
  BY SettledTruncate
<1> HIDE DEF e
<1>2. ok => h.record_count = e.header.record_count
  BY <1>1
<1>3. /\ Moves(e, <<PutHeader(h)>>, f, cl, ok) /\ Settled(f, cl, ok)
      /\ f.header = h /\ f.free_list = e.free_list
  BY <1>1, <1>2, SettledHeader
<1> HIDE DEF f
<1>4. Moves(d, <<TruncateJournal, PutHeader(h)>>, f, cl, ok)
  BY <1>1, <1>3, TwoMoves
<1>5. <<TruncateJournal, PutHeader(h)>> # <<>>
  OBVIOUS
<1>6. Turned(d, <<TruncateJournal, PutHeader(h)>>, cl, ok, f.header, f.free_list)
  BY <1>3, <1>4, <1>5, TurnedBy
<1> QED BY <1>1, <1>3, <1>6

(* CommitTransaction and RollbackTransaction.                              *)
LEMMA EndTurns ==
  ASSUME NEW d, NEW cl, NEW ok, Settled(d, cl, ok), NEW h \in Headers,
         ok => h.record_count = d.header.record_count, ~h.journal_pending
  PROVE  Turned(d, <<PutHeader(h), TruncateJournal>>, cl, ok, h, d.free_list)
<1> DEFINE e == Apply(d, PutHeader(h))
           f == Apply(e, TruncateJournal)
<1>1. /\ Moves(d, <<PutHeader(h)>>, e, cl, ok) /\ Settled(e, cl, ok)
      /\ e.header = h /\ e.free_list = d.free_list
  BY SettledHeader
<1> HIDE DEF e
<1>2. /\ Moves(e, <<TruncateJournal>>, f, cl, ok) /\ Settled(f, cl, ok)
      /\ f.header = e.header /\ f.free_list = e.free_list
  BY <1>1, SettledTruncate
<1> HIDE DEF f
<1>3. Moves(d, <<PutHeader(h), TruncateJournal>>, f, cl, ok)
  BY <1>1, <1>2, TwoMoves
<1>4. <<PutHeader(h), TruncateJournal>> # <<>>
  OBVIOUS
<1>5. Turned(d, <<PutHeader(h), TruncateJournal>>, cl, ok, f.header, f.free_list)
  BY <1>2, <1>3, <1>4, TurnedBy
<1> QED BY <1>1, <1>2, <1>5

(* UpdateFreePages.                                                        *)
LEMMA ListTurns ==
  ASSUME NEW d, NEW cl, NEW ok, Settled(d, cl, ok), NEW fl \in FreeLists,
         ListWithin(fl, d.pages), ok => FreeListOf(fl, d.pages)
  PROVE  Turned(d, <<PutFreeList(fl)>>, cl, ok, d.header, fl)
<1> DEFINE e == Apply(d, PutFreeList(fl))
<1>1. /\ Moves(d, <<PutFreeList(fl)>>, e, cl, ok) /\ Settled(e, cl, ok)
      /\ e.header = d.header /\ e.free_list = fl
  BY SettledList
<1> HIDE DEF e
<1>2. <<PutFreeList(fl)>> # <<>>
  OBVIOUS
<1>3. Turned(d, <<PutFreeList(fl)>>, cl, ok, e.header, e.free_list)
  BY <1>1, <1>2, TurnedBy
<1> QED BY <1>1, <1>3

(* CloseDatabase.                                                          *)
LEMMA CloseTurns ==
  ASSUME NEW d, NEW cl, NEW ok, Settled(d, cl, ok), NEW h \in Headers,
         ok => h = d.header,
         h.journal_pending = d.header.journal_pending,
         NEW fl, fl = d.free_list
  PROVE  Turned(d, <<PutHeader(h), PutFreeList(fl)>>, cl, ok, h, fl)
<1> DEFINE e == Apply(d, PutHeader(h))
           f == Apply(e, PutFreeList(fl))
<1>1. ok => h.record_count = d.header.record_count
  OBVIOUS
<1>2. h.journal_pending => JournalInFile(d) /\ ReplayedPages(d) = d.pages
  BY DEF Settled
<1>3. /\ Moves(d, <<PutHeader(h)>>, e, cl, ok) /\ Settled(e, cl, ok)
      /\ e.header = h /\ e.free_list = d.free_list /\ e.pages = d.pages
  BY <1>1, <1>2, SettledHeader
<1> HIDE DEF e
<1>4. fl \in FreeLists
  BY DEF Settled, Files
<1>5. ListWithin(fl, e.pages) /\ (ok => FreeListOf(fl, e.pages))
  BY <1>3 DEF Settled, Serviceable, ListInFile, ListWithin, FreeListExact,
              FreeListOf
<1>6. /\ Moves(e, <<PutFreeList(fl)>>, f, cl, ok) /\ Settled(f, cl, ok)
      /\ f.header = e.header /\ f.free_list = fl
  BY <1>3, <1>4, <1>5, SettledList
<1> HIDE DEF f
<1>7. Moves(d, <<PutHeader(h), PutFreeList(fl)>>, f, cl, ok)
  BY <1>3, <1>6, TwoMoves
<1>8. <<PutHeader(h), PutFreeList(fl)>> # <<>>
  OBVIOUS
<1>9. Turned(d, <<PutHeader(h), PutFreeList(fl)>>, cl, ok, f.header, f.free_list)
  BY <1>6, <1>7, <1>8, TurnedBy
<1> QED BY <1>3, <1>6, <1>9

-----------------------------------------------------------------------------
(* RebuildIndex.                                                           *)
LEMMA SettledStale ==
  ASSUME NEW cl \in Clients, NEW d, NEW ok, Settled(d, cl, ok)
  PROVE  Settled(d, Stale(cl), ok)
<1>1. Stale(cl).stale = TRUE
      /\ \A pgs : Good(pgs, cl) <=> Good(pgs, Stale(cl))
  BY StaleClient
<1>2. ok => Good(d.pages, Stale(cl))
  BY <1>1 DEF Settled
<1>3. Serviceable(d, Stale(cl).stale, ok)
  BY <1>1 DEF Settled, Serviceable
<1> QED BY <1>2, <1>3 DEF Settled

(* What a rebuild leads to: an index the client may rely on again.         *)
RebuildSettles(d, cl, ok) ==
  LET ws == RebuildIndexWrites(d.pages)
      e  == ApplyAll(d, ws)
  IN  /\ ws # <<>>
      /\ Moves(d, ws, e, cl, ok)
      /\ Settled(e, cl, ok)
      /\ Settled(e, Fresh(cl), ok)
      /\ e.header = d.header /\ e.free_list = d.free_list /\ e.pages = d.pages

(* In a transaction recovery would rebuild the index anyway; outside one   *)
(* the client does not rely on it until the rebuild is complete.           *)
LEMMA RebuildTurns ==
  ASSUME NEW cl \in Clients, NEW d, NEW ok, Settled(d, cl, ok),
         d.header.journal_pending \/ cl.stale
  PROVE  RebuildSettles(d, cl, ok)
<1> DEFINE ws == RebuildIndexWrites(d.pages)
           e  == ApplyAll(d, ws)
<1>1. IndexFree(d, cl, ok)
  BY SettledSafe DEF Settled, IndexFree
<1>2. d.pages \in PageFiles /\ Clean(d.pages) /\ d \in Files /\ d.dat
  BY DEF Settled, Files
<1>3. /\ Moves(d, ws, e, cl, ok)
      /\ SameButIndex(d, e)
      /\ ws # <<>>
      /\ e.index.size = 2
      /\ LeafWithin(e.index.leaf, ActivePages(d.pages))
      /\ (Unique(d.pages) /\ Room(Cardinality(ActivePages(d.pages))) =>
            OneEach(e.index.leaf, ActivePages(d.pages), d.pages))
  BY <1>1, <1>2, Rebuilt
<1> HIDE DEF e, ws
<1>4. /\ e \in Files /\ e.dat = d.dat /\ e.header = d.header
      /\ e.free_list = d.free_list /\ e.pages = d.pages
      /\ e.journal = d.journal
  BY <1>3 DEF SameButIndex
<1>5. ListWithin(e.free_list, e.pages)
  BY <1>4 DEF Settled, Serviceable, ListInFile, ListWithin
<1>6. LeafWithin(e.index.leaf, ActivePages(e.pages))
  BY <1>3, <1>4
<1>7. ok => Good(e.pages, cl)
  BY <1>4 DEF Settled
<1>8. ok => /\ FreeListOf(e.free_list, e.pages)
            /\ e.header.record_count = Cardinality(ActivePages(e.pages))
  BY <1>4 DEF Settled, Serviceable, FreeListExact, FreeListOf
<1>9. ok => OneEach(e.index.leaf, ActivePages(e.pages), e.pages)
  BY <1>3, <1>4, <1>7 DEF Good
<1>10. \A s : Serviceable(e, s, ok)
  BY <1>3, <1>5, <1>6, <1>8, <1>9, ServiceableIs
<1>11. e.header.journal_pending =>
         JournalInFile(e) /\ ReplayedPages(e) = e.pages
  BY <1>2, <1>4, ReplayedSame DEF Settled
<1>12. Clean(e.pages) /\ e.dat
  BY <1>2, <1>4
<1>13. Settled(e, cl, ok)
  BY <1>4, <1>7, <1>10, <1>11, <1>12 DEF Settled
<1>14. ok => Good(e.pages, Fresh(cl))
  BY <1>7, StaleClient
<1>15. Settled(e, Fresh(cl), ok)
  BY <1>4, <1>10, <1>11, <1>12, <1>14 DEF Settled
<1> QED BY <1>3, <1>4, <1>13, <1>15 DEF RebuildSettles, e, ws

-----------------------------------------------------------------------------
(* CompactDatabase, for records of one page.  The pages copied are the     *)
(* active ones, in their order.                                            *)
Starts(pgs) ==
  LET starts[p \in DOMAIN pgs] ==
        /\ p \in ActivePages(pgs)
        /\ \A q \in (p - PagesNeeded + 1) .. (p - 1) :
             q \in DOMAIN pgs => ~starts[q]
  IN  starts

(* Every active page starts a record, as no other page can be in one.      *)
LEMMA StartsAre ==
  ASSUME PagesNeeded = 1, NEW pgs \in PageFiles
  PROVE  {p \in DOMAIN pgs : Starts(pgs)[p]} = ActivePages(pgs)
<1> DEFINE Is(s) == s = [p \in DOMAIN pgs |->
                           /\ p \in ActivePages(pgs)
                           /\ \A q \in (p - PagesNeeded + 1) .. (p - 1) :
                                q \in DOMAIN pgs => ~s[q]]
           g == [p \in DOMAIN pgs |-> p \in ActivePages(pgs)]
<1>1. Starts(pgs) = CHOOSE s : Is(s)
  BY DEF Starts
<1>2. DOMAIN pgs \subseteq Nat /\ ActivePages(pgs) \subseteq DOMAIN pgs
  BY FileOfPages
<1>3. \A p \in DOMAIN pgs : (p - PagesNeeded + 1) .. (p - 1) = {}
  <2> SUFFICES ASSUME NEW p \in DOMAIN pgs
               PROVE  (p - PagesNeeded + 1) .. (p - 1) = {}
    OBVIOUS
  <2>1. p \in Nat /\ p - PagesNeeded + 1 = p
    BY <1>2
  <2> QED BY <2>1
<1>4. ASSUME NEW s, NEW p \in DOMAIN pgs
      PROVE  (/\ p \in ActivePages(pgs)
              /\ \A q \in (p - PagesNeeded + 1) .. (p - 1) :
                   q \in DOMAIN pgs => ~s[q]) = (p \in ActivePages(pgs))
  <2>1. \A q \in (p - PagesNeeded + 1) .. (p - 1) : q \in DOMAIN pgs => ~s[q]
    BY <1>3
  <2> DEFINE F == \A q \in (p - PagesNeeded + 1) .. (p - 1) :
                    q \in DOMAIN pgs => ~s[q]
  <2>2. F = TRUE
    BY <2>1
  <2> HIDE DEF F
  <2>3. (p \in ActivePages(pgs) /\ F) = (p \in ActivePages(pgs))
    BY <2>2
  <2> QED BY <2>3 DEF F
<1>5. Is(g)
  BY <1>4
<1>6. Is(Starts(pgs))
  <2> HIDE DEF Is, g
  <2> QED BY <1>1, <1>5
<1>7. Starts(pgs) = [p \in DOMAIN pgs |-> p \in ActivePages(pgs)]
  BY <1>4, <1>6
<1> HIDE DEF Is, g
<1> QED BY <1>2, <1>7

(* CompactDatabase copies one page per record.                             *)
LEMMA CopiedIs ==
  ASSUME PagesNeeded = 1, NEW pgs \in PageFiles
  PROVE  LET s == Ascending(ActivePages(pgs))
         IN  /\ Len(s) \in Nat
             /\ CopiedPages(pgs) =
                  [k \in DataPages(2 + Len(s)) |-> pgs[s[k - 1]]]
<1> DEFINE s == Ascending(ActivePages(pgs))
           From(k) == s[1 + ((k - FirstDataPage) \div PagesNeeded)]
           At(k) == From(k) + ((k - FirstDataPage) % PagesNeeded)
           Rest(k) == [id |-> pgs[From(k)].id, status |-> PS_CONTINUATION,
                       data |-> NoData]
<1>1. CopiedPages(pgs) =
        [k \in DataPages(FirstDataPage + PagesNeeded * Len(s)) |->
           IF At(k) \in DOMAIN pgs THEN pgs[At(k)] ELSE Rest(k)]
  <2>1. {p \in DOMAIN pgs : Starts(pgs)[p]} = ActivePages(pgs)
    BY StartsAre
  <2> QED BY <2>1 DEF CopiedPages, Starts
<1>2. /\ ActivePages(pgs) \subseteq DOMAIN pgs /\ DOMAIN pgs \subseteq Nat
      /\ IsFiniteSet(ActivePages(pgs))
  BY FileOfPages
<1>3. s \in Seq(ActivePages(pgs)) /\ Len(s) = Cardinality(ActivePages(pgs))
      /\ Cardinality(ActivePages(pgs)) \in Nat
  BY <1>2, AscendingLists
<1> HIDE DEF s
<1>4. Len(s) \in Nat
  BY <1>3
<1>5. FirstDataPage + PagesNeeded * Len(s) = 2 + Len(s)
  BY <1>4 DEF FirstDataPage
<1>6. ASSUME NEW k \in DataPages(2 + Len(s))
      PROVE  At(k) = s[k - 1] /\ s[k - 1] \in DOMAIN pgs
  <2>1. k \in Int /\ k - 1 \in 1 .. Len(s)
    BY <1>4 DEF DataPages, FirstDataPage
  <2>2. (k - FirstDataPage) \div PagesNeeded = k - 2
        /\ (k - FirstDataPage) % PagesNeeded = 0
    BY <2>1 DEF FirstDataPage
  <2>3. From(k) = s[k - 1]
    BY <2>1, <2>2
  <2>4. s[k - 1] \in ActivePages(pgs)
    BY <1>3, <2>1
  <2> QED BY <1>2, <2>2, <2>3, <2>4
<1> HIDE DEF From, At, Rest
<1>7. \A k \in DataPages(2 + Len(s)) :
        (IF At(k) \in DOMAIN pgs THEN pgs[At(k)] ELSE Rest(k)) = pgs[s[k - 1]]
  BY <1>6
<1>8. CopiedPages(pgs) = [k \in DataPages(2 + Len(s)) |-> pgs[s[k - 1]]]
  BY <1>1, <1>5, <1>7
<1> QED BY <1>4, <1>8 DEF s

(* A copy that loses nothing: the same records, no empty page.             *)
CopiesWell(pgs, new) ==
  /\ new \in PageFiles
  /\ Clean(new)
  /\ EmptyPages(new) = {}
  /\ Cardinality(ActivePages(new)) = Cardinality(ActivePages(pgs))
  /\ \A cl : Good(pgs, cl) => Good(new, cl)

(* The copy is such a copy.                                                *)
LEMMA CopiedWell ==
  ASSUME PagesNeeded = 1, NEW pgs \in PageFiles, Clean(pgs)
  PROVE  CopiesWell(pgs, CopiedPages(pgs))
<1> DEFINE A == ActivePages(pgs)
           s == Ascending(A)
           n == Len(s)
           new == CopiedPages(pgs)
<1>1. PICK t \in FirstDataPage .. MaxPages :
        /\ pgs \in [DataPages(t) -> Page] /\ t \in Nat /\ t >= 2 /\ t <= MaxPages
        /\ DOMAIN pgs = 2 .. (t - 1)
        /\ A \subseteq DOMAIN pgs /\ IsFiniteSet(A) /\ A \subseteq Nat
        /\ Cardinality(A) \in Nat
  <2>1. \E t \in FirstDataPage .. MaxPages :
           /\ pgs \in [DataPages(t) -> Page]
           /\ DOMAIN pgs = 2 .. (t - 1) /\ t \in Nat /\ t >= 2 /\ t <= MaxPages
           /\ DOMAIN pgs \subseteq Nat
           /\ IsFiniteSet(ActivePages(pgs))
           /\ ActivePages(pgs) \subseteq DOMAIN pgs
           /\ Cardinality(ActivePages(pgs)) \in Nat
    BY FileOfPages
  <2> QED BY <2>1
<1>2. /\ s \in Seq(A) /\ Len(s) = Cardinality(A) /\ Distinct(s)
      /\ \A p \in A : \E i \in 1 .. Len(s) : s[i] = p
  BY <1>1, AscendingLists
<1>3. new = [k \in DataPages(2 + n) |-> pgs[s[k - 1]]]
  BY CopiedIs
<1> HIDE DEF s, new
<1>4. n \in Nat /\ n = Cardinality(A)
  BY <1>1, <1>2
<1>5. n <= t - 2
  <2>1. IsFiniteSet(2 .. (t - 1)) /\ Cardinality(2 .. (t - 1)) = t - 2
    BY <1>1, FS_Interval
  <2>2. Cardinality(A) <= Cardinality(2 .. (t - 1))
    BY <1>1, <2>1, FS_Subset
  <2> QED BY <1>4, <2>1, <2>2
<1> HIDE DEF n
<1>6. DataPages(2 + n) = 2 .. (n + 1) /\ 2 + n \in FirstDataPage .. MaxPages
  <2>1. MaxPages \in Nat
    BY BoundsAssumption
  <2>2. DataPages(2 + n) = 2 .. (n + 1)
    BY <1>4 DEF DataPages, FirstDataPage
  <2>3. 2 <= 2 + n /\ 2 + n <= MaxPages
    BY <1>1, <1>4, <1>5, <2>1
  <2> QED BY <1>4, <2>1, <2>2, <2>3 DEF FirstDataPage
<1>7. \A k \in 2 .. (n + 1) : k \in Int /\ k - 1 \in 1 .. n /\ s[k - 1] \in A
  BY <1>2, <1>4 DEF n
<1>8. new = [k \in 2 .. (n + 1) |-> pgs[s[k - 1]]]
  BY <1>3, <1>6
<1>9. \A k \in 2 .. (n + 1) :
        new[k] = pgs[s[k - 1]] /\ new[k] \in Page /\ new[k].status = PS_ACTIVE
  BY <1>1, <1>7, <1>8 DEF ActivePages
<1>10. DOMAIN new = 2 .. (n + 1)
  BY <1>8
<1>11. new \in [DataPages(2 + n) -> Page]
  BY <1>6, <1>8, <1>9
<1>12. new \in PageFiles
  BY <1>6, <1>11 DEF PageFiles
<1>13. ActivePages(new) = 2 .. (n + 1) /\ EmptyPages(new) = {}
  BY <1>9, <1>10 DEF ActivePages, EmptyPages, PS_ACTIVE, PS_EMPTY
<1>14. Cardinality(ActivePages(new)) = Cardinality(A)
  <2>1. Cardinality(2 .. (n + 1)) = n
    BY <1>4, FS_Interval
  <2> QED BY <1>4, <1>13, <2>1
<1>15. Clean(new)
  <2>1. \A p \in A : pgs[p].id \in 1 .. MaxRecordId
    BY DEF Clean, ActivePages
  <2> QED BY <1>7, <1>9, <1>10, <2>1 DEF Clean, PS_ACTIVE, PS_CONTINUATION
<1>16. ASSUME NEW cl, Good(pgs, cl)
       PROVE  Good(new, cl)
  <2>1. Unique(new)
    <3> SUFFICES ASSUME NEW k \in 2 .. (n + 1), NEW l \in 2 .. (n + 1),
                        new[k].id = new[l].id
                 PROVE  k = l
      BY <1>13 DEF Unique
    <3>1. pgs[s[k - 1]].id = pgs[s[l - 1]].id
      BY <1>9
    <3>2. s[k - 1] = s[l - 1]
      BY <1>7, <1>16, <3>1 DEF Good, Unique
    <3>3. k - 1 = l - 1
      BY <1>2, <1>7, <3>2 DEF Distinct, n
    <3> QED BY <1>7, <3>3
  <2>2. Room(Cardinality(ActivePages(new)))
    BY <1>14, <1>16 DEF Good
  <2>3. ASSUME NEW id \in DOMAIN cl.promised
        PROVE  \E p \in ActivePages(new) :
                 new[p].id = id /\ new[p].data = cl.promised[id]
    <3>1. PICK p \in A : pgs[p].id = id /\ pgs[p].data = cl.promised[id]
      BY <1>16 DEF Good, Promises
    <3>2. PICK i \in 1 .. n : s[i] = p
      BY <1>2 DEF n
    <3>3. i + 1 \in 2 .. (n + 1) /\ (i + 1) - 1 = i
      BY <1>4
    <3>4. new[i + 1] = pgs[p]
      BY <1>9, <3>2, <3>3
    <3> QED BY <1>13, <3>1, <3>3, <3>4
  <2>4. ASSUME NEW id \in cl.gone, NEW k \in ActivePages(new)
        PROVE  new[k].id # id
    BY <1>7, <1>9, <1>13, <1>16 DEF Good, Promises
  <2>5. Promises(new, cl)
    BY <2>3, <2>4 DEF Promises
  <2> QED BY <2>1, <2>2, <2>5 DEF Good
<1> QED BY <1>12, <1>13, <1>14, <1>15, <1>16 DEF CopiesWell, new

-----------------------------------------------------------------------------
(* CompactDatabase: until the .DAT file is removed it serves, from then on *)
(* the copy holds every record, and once renamed it serves again.          *)
CompactWrites(d, h) ==
  LET pgs == CopiedPages(d.pages)
  IN  <<PutTmp(h, pgs), RemoveDat, RenameTmp, PutHeader(h)>>
        \o RebuildIndexWrites(pgs) \o <<PutFreeList(ScanFreeList(pgs))>>

CompactSettles(d, cl, ok, h) ==
  LET ws == CompactWrites(d, h)
      e  == ApplyAll(d, ws)
  IN  /\ ws # <<>>
      /\ Moves(d, ws, e, Stale(cl), ok)
      /\ Settled(e, Fresh(cl), ok)
      /\ e.header = h /\ e.free_list = ScanFreeList(CopiedPages(d.pages))

(* When CompactDatabase starts, outside a transaction.                     *)
CompactReady(d, cl, ok, h) ==
  /\ PagesNeeded = 1
  /\ cl \in Clients
  /\ Settled(d, cl, ok)
  /\ ~d.header.journal_pending
  /\ h \in Headers
  /\ ~h.journal_pending
  /\ ok => h = d.header

(* Writing the copy changes nothing that is read.                          *)
LEMMA CopyMoves ==
  ASSUME NEW d, NEW cl, NEW ok, NEW h, CompactReady(d, cl, ok, h)
  PROVE  LET w == PutTmp(h, CopiedPages(d.pages))
             e == Apply(d, w)
         IN  /\ Moves(d, <<w>>, e, Stale(cl), ok)
             /\ e \in Files /\ e.dat /\ e.header = d.header
             /\ Safe(e, Stale(cl), ok)
             /\ e.tmp.header = h /\ e.tmp.pages = CopiedPages(d.pages)
<1> DEFINE pgs == CopiedPages(d.pages)
           S == Stale(cl)
           e == Apply(d, PutTmp(h, pgs))
<1>1. /\ PagesNeeded = 1 /\ cl \in Clients /\ Settled(d, cl, ok)
      /\ ~d.header.journal_pending /\ h \in Headers
  BY DEF CompactReady
<1>2. Settled(d, S, ok)
  BY <1>1, SettledStale
<1>3. d \in Files /\ d.dat /\ Clean(d.pages) /\ d.pages \in PageFiles
  BY <1>1 DEF Settled, Files
<1>4. pgs \in PageFiles
  BY <1>1, <1>3, CopiedWell DEF CopiesWell
<1> HIDE DEF pgs, S
<1>5. /\ e \in Files /\ e.dat = d.dat /\ e.header = d.header
      /\ e.free_list = d.free_list /\ e.pages = d.pages
      /\ e.index = d.index /\ e.journal = d.journal
      /\ e.tmp.header = h /\ e.tmp.pages = pgs
      /\ TornBy(d, PutTmp(h, pgs)) = {}
  BY <1>1, <1>3, <1>4, CopyPut
<1> HIDE DEF e
<1>6. Serviceable(e, S.stale, ok)
  BY <1>2, <1>5, SameFilesServe DEF Settled
<1>7. Settled(e, S, ok)
  BY <1>1, <1>2, <1>3, <1>5, <1>6 DEF Settled
<1>8. Moves(d, <<PutTmp(h, pgs)>>, e, S, ok)
  BY <1>2, <1>5, <1>7, SettledMove DEF e
<1>9. Safe(e, S, ok)
  BY <1>7, SettledSafe
<1> QED BY <1>3, <1>5, <1>8, <1>9 DEF e, S, pgs

(* The two writes that put the copy in the place of the file.              *)
LEMMA SwapMoves ==
  ASSUME NEW d, NEW cl, NEW ok, NEW h, CompactReady(d, cl, ok, h),
         NEW a \in Files, a.dat, a.header = d.header,
         Safe(a, Stale(cl), ok), a.tmp.header = h,
         a.tmp.pages = CopiedPages(d.pages)
  PROVE  LET b == Apply(a, RemoveDat)
             c == Apply(b, RenameTmp)
         IN  /\ Moves(a, <<RemoveDat>>, b, Stale(cl), ok)
             /\ Moves(b, <<RenameTmp>>, c, Stale(cl), ok)
             /\ Settled(c, Stale(cl), ok)
             /\ c.header = h /\ c.pages = CopiedPages(d.pages)
<1> DEFINE pgs == CopiedPages(d.pages)
           S == Stale(cl)
           b == Apply(a, RemoveDat)
           c == Apply(b, RenameTmp)
<1>1. /\ PagesNeeded = 1 /\ cl \in Clients /\ Settled(d, cl, ok)
      /\ ~d.header.journal_pending /\ h \in Headers /\ ~h.journal_pending
  BY DEF CompactReady
<1>2. ok => h = d.header
  BY DEF CompactReady
<1>3. d \in Files /\ d.dat /\ Clean(d.pages) /\ d.pages \in PageFiles
  BY <1>1 DEF Settled, Files
<1>4. CopiesWell(d.pages, pgs)
  BY <1>1, <1>3, CopiedWell
<1>5. /\ pgs \in PageFiles /\ Clean(pgs) /\ EmptyPages(pgs) = {}
      /\ Cardinality(ActivePages(pgs)) = Cardinality(ActivePages(d.pages))
  BY <1>4 DEF CopiesWell
<1>6. S.stale = TRUE /\ (ok => Good(pgs, S))
  <2>1. ok => Good(d.pages, S)
    BY <1>1, StaleClient DEF Settled
  <2> QED BY <1>1, <1>4, <2>1, StaleClient DEF CopiesWell
<1> HIDE DEF pgs, S
<1>7. /\ b \in Files /\ b.dat = FALSE /\ b.header = a.header
      /\ b.tmp = a.tmp
      /\ TornBy(a, RemoveDat) = {}
  BY DatRemoved
<1> HIDE DEF b
<1>8. Safe(b, S, ok)
  <2>1. ~b.header.journal_pending /\ ~b.dat
    BY <1>1, <1>7
  <2>2. Clean(b.tmp.pages) /\ (ok => Good(b.tmp.pages, S))
    BY <1>5, <1>6, <1>7 DEF pgs
  <2>3. Safe(b, S, ok) <=> /\ Clean(b.tmp.pages)
                           /\ ok => Good(b.tmp.pages, S)
    BY <1>7, <2>1, SafeCopy
  <2> QED BY <2>2, <2>3, Zenon
<1>9. Moves(a, <<RemoveDat>>, b, S, ok)
  <2>1. TornSafe(a, RemoveDat, S, ok)
    BY <1>7 DEF TornSafe
  <2> QED BY <1>8, <2>1, MovesOne DEF b, S
<1>10. /\ c \in Files /\ c.dat = TRUE /\ c.header = h
       /\ c.free_list = NoFreePages /\ c.pages = pgs
       /\ TornBy(b, RenameTmp) = {}
  <2>1. b.tmp.header \in Headers /\ b.tmp.pages \in PageFiles
    BY <1>1, <1>5, <1>7 DEF pgs
  <2> QED BY <1>7, <2>1, TmpRenamed DEF pgs
<1> HIDE DEF c
<1>11. ListInFile(c) /\ FreeListExact(c)
  <2>1. c.free_list.list = <<>> /\ c.free_list.free_page_count = 0
    BY <1>10 DEF NoFreePages
  <2>2. DOMAIN c.free_list.list = {}
    BY <2>1
  <2>3. ToSet(c.free_list.list) = {} /\ Len(c.free_list.list) = 0
    BY <2>1, <2>2 DEF ToSet
  <2>4. Cardinality({}) = 0
    BY FS_EmptySet
  <2>5. EmptyPages(c.pages) = {}
    BY <1>5, <1>10
  <2> QED BY <2>1, <2>2, <2>3, <2>4, <2>5 DEF ListInFile, FreeListExact
<1>12. ok => c.header.record_count = Cardinality(ActivePages(c.pages))
  BY <1>1, <1>2, <1>5, <1>10 DEF Settled, Serviceable
<1>13. Serviceable(c, S.stale, ok)
  BY <1>6, <1>11, <1>12 DEF Serviceable
<1>14. Settled(c, S, ok)
  BY <1>1, <1>5, <1>6, <1>10, <1>13 DEF Settled
<1>15. Moves(b, <<RenameTmp>>, c, S, ok)
  <2>1. TornSafe(b, RenameTmp, S, ok)
    BY <1>10 DEF TornSafe
  <2>2. Safe(c, S, ok)
    BY <1>14, SettledSafe
  <2> QED BY <1>8, <2>1, <2>2, MovesOne DEF c
<1> QED BY <1>9, <1>10, <1>14, <1>15 DEF b, c, pgs, S

(* Four writes in a row, as one sequence.                                  *)
LEMMA FourWrites ==
  ASSUME NEW a, NEW b, NEW c, NEW d
  PROVE  ((<<a>> \o <<b>>) \o <<c>>) \o <<d>> = <<a, b, c, d>>
<1> DEFINE S == {a, b, c, d}
           s == Append(<<a, b, c>>, d)
           t == <<a, b, c, d>>
<1>1. <<a, b, c>> \in Seq(S) /\ <<a, b, c, d>> \in Seq(S) /\ d \in S
  OBVIOUS
<1> HIDE DEF S
<1>2. <<a, b, c>> \o <<d>> = Append(<<a, b, c>>, d)
  BY <1>1, AppendIsConcat
<1>3. s \in Seq(S) /\ Len(s) = 4 /\ s[1] = a /\ s[2] = b /\ s[3] = c /\ s[4] = d
  BY <1>1
<1>4. Len(t) = 4 /\ t[1] = a /\ t[2] = b /\ t[3] = c /\ t[4] = d /\ t \in Seq(S)
  BY <1>1
<1> HIDE DEF s, t
<1>5. \A i \in 1 .. Len(s) : s[i] = t[i]
  BY <1>3, <1>4
<1>6. s = t
  BY <1>3, <1>4, <1>5, SeqEqual
<1>7. (<<a>> \o <<b>>) \o <<c>> = <<a, b, c>>
  BY ThreeWrites
<1> QED BY <1>2, <1>6, <1>7 DEF s, t

(* Four safe writes are a safe way.                                        *)
LEMMA FourMoves ==
  ASSUME NEW d, NEW u, NEW e, NEW v, NEW f, NEW w, NEW g, NEW x, NEW i,
         NEW cl, NEW ok,
         Moves(d, <<u>>, e, cl, ok), Moves(e, <<v>>, f, cl, ok),
         Moves(f, <<w>>, g, cl, ok), Moves(g, <<x>>, i, cl, ok)
  PROVE  Moves(d, <<u, v, w, x>>, i, cl, ok)
<1>1. Moves(d, <<u>> \o <<v>>, f, cl, ok)
  BY MovesThen
<1>2. Moves(d, (<<u>> \o <<v>>) \o <<w>>, g, cl, ok)
  BY <1>1, MovesThen
<1>3. Moves(d, ((<<u>> \o <<v>>) \o <<w>>) \o <<x>>, i, cl, ok)
  BY <1>2, MovesThen
<1> QED BY <1>3, FourWrites

(* A sequence of writes that ends in a write is not empty.                 *)
LEMMA SomeLast ==
  ASSUME NEW u, IsSeq(u), NEW w
  PROVE  u \o <<w>> # <<>>
<1>1. IsSeq(<<w>>) /\ Len(<<w>>) = 1
  BY OneFacts
<1>2. IsSeq(u \o <<w>>) /\ Len(u \o <<w>>) = Len(u) + Len(<<w>>)
      /\ Len(u) \in Nat
  BY <1>1, ConcatFacts
<1>3. Len(u \o <<w>>) # 0
  BY <1>1, <1>2
<1> QED BY <1>2, <1>3, SeqFacts

(* The whole of CompactDatabase is safe: the swap, the header, the rebuild *)
(* of the index for the copied pages and the new free list.                *)
LEMMA CompactTurns ==
  ASSUME NEW d, NEW cl, NEW ok, NEW h, CompactReady(d, cl, ok, h)
  PROVE  CompactSettles(d, cl, ok, h)
<1> DEFINE pgs == CopiedPages(d.pages)
           fl == ScanFreeList(pgs)
           S == Stale(cl)
           a == Apply(d, PutTmp(h, pgs))
           b == Apply(a, RemoveDat)
           c == Apply(b, RenameTmp)
           c2 == Apply(c, PutHeader(h))
           r == RebuildIndexWrites(pgs)
           e == ApplyAll(c2, r)
           f == Apply(e, PutFreeList(fl))
<1>1. cl \in Clients /\ h \in Headers /\ ~h.journal_pending
  BY DEF CompactReady
<1>2. S \in Clients /\ S.stale = TRUE
  BY <1>1, StaleClient
<1>3. /\ Moves(d, <<PutTmp(h, pgs)>>, a, S, ok)
      /\ a \in Files /\ a.dat /\ a.header = d.header /\ Safe(a, S, ok)
      /\ a.tmp.header = h /\ a.tmp.pages = pgs
  BY CopyMoves
<1> HIDE DEF a
<1>4. /\ Moves(a, <<RemoveDat>>, b, S, ok)
      /\ Moves(b, <<RenameTmp>>, c, S, ok)
      /\ Settled(c, S, ok)
      /\ c.header = h /\ c.pages = pgs
  BY <1>3, SwapMoves
<1> HIDE DEF b, c
<1>5. /\ Moves(c, <<PutHeader(h)>>, c2, S, ok)
      /\ Settled(c2, S, ok)
      /\ c2.header = h /\ c2.pages = pgs
  <2>1. ok => h.record_count = c.header.record_count
    BY <1>4
  <2> QED BY <1>1, <1>4, <2>1, SettledHeader
<1> HIDE DEF c2, S
<1>6. RebuildSettles(c2, S, ok)
  BY <1>2, <1>5, RebuildTurns
<1>7. /\ Moves(c2, r, e, S, ok)
      /\ Settled(e, S, ok) /\ Settled(e, Fresh(S), ok)
      /\ e.header = h /\ e.pages = pgs
  BY <1>5, <1>6 DEF RebuildSettles
<1>8. Fresh(S) = Fresh(cl)
  BY <1>1 DEF Fresh, Stale, S, Clients
<1> HIDE DEF e
<1>9. /\ fl \in FreeLists /\ ListWithin(fl, e.pages) /\ FreeListOf(fl, e.pages)
  <2>1. pgs \in PageFiles
    BY <1>7 DEF Settled, Files
  <2> QED BY <1>7, <2>1, ScanLists
<1> HIDE DEF fl
<1>10. /\ Moves(e, <<PutFreeList(fl)>>, f, S, ok)
       /\ f.header = e.header /\ f.free_list = fl
  BY <1>7, <1>9, SettledList
<1>11. Settled(f, Fresh(cl), ok)
  BY <1>7, <1>8, <1>9, SettledList
<1> HIDE DEF f, r
<1> DEFINE u == <<PutTmp(h, pgs), RemoveDat, RenameTmp, PutHeader(h)>>
           ws == CompactWrites(d, h)
<1>12. Moves(d, u, c2, S, ok)
  BY <1>3, <1>4, <1>5, FourMoves
<1> HIDE DEF u
<1>13. Moves(d, u \o r, e, S, ok)
  BY <1>7, <1>12, MovesThen
<1>14. Moves(d, (u \o r) \o <<PutFreeList(fl)>>, f, S, ok)
  BY <1>10, <1>13, MovesThen
<1>15. ws = (u \o r) \o <<PutFreeList(fl)>>
  BY DEF CompactWrites, u, r, fl
<1>16. ws # <<>>
  <2>1. IsSeq(u \o r)
    BY <1>13, MovesIs
  <2> QED BY <1>15, <2>1, SomeLast
<1> HIDE DEF ws
<1>17. Moves(d, ws, f, S, ok) /\ f = ApplyAll(d, ws)
  BY <1>14, <1>15, MovesIs
<1>18. f.header = h /\ f.free_list = fl
  BY <1>7, <1>10
<1> QED BY <1>11, <1>16, <1>17, <1>18 DEF CompactSettles, ws, S, fl

-----------------------------------------------------------------------------
(* OpenDatabase, of a database that was left in a transaction: recovery ... *)
LEMMA RecoverySettles ==
  ASSUME NEW d, NEW cl, NEW ok, Safe(d, cl, ok), d.header.journal_pending
  PROVE  Turned(d, ReplayWrites(d), cl, ok, ReplayedHeader(d),
                ScanFreeList(ReplayedPages(d)))
<1> DEFINE ws == ReplayWrites(d)
           e == ApplyAll(d, ws)
<1>1. /\ Moves(d, ws, e, cl, ok)
      /\ ws # <<>>
      /\ e \in Files /\ e.dat /\ ~e.header.journal_pending
      /\ e.header = ReplayedHeader(d)
      /\ e.free_list = ScanFreeList(ReplayedPages(d))
      /\ \A s : Serviceable(e, s, ok)
  BY RecoveryPath
<1> HIDE DEF ws, e
<1>2. Safe(e, cl, ok)
  BY <1>1, MovesEnds
<1>3. Clean(e.pages) /\ (ok => Good(e.pages, cl))
  BY <1>1, <1>2, SafeOutside
<1>4. Settled(e, cl, ok)
  BY <1>1, <1>3 DEF Settled
<1> QED BY <1>1, <1>4 DEF Turned, e, ws

(* ... and of one that was not.                                            *)
LEMMA SafeSettled ==
  ASSUME NEW d, NEW cl, NEW ok, Safe(d, cl, ok), d.dat,
         ~d.header.journal_pending
  PROVE  Settled(d, cl, ok)
<1>1. d \in Files
  BY DEF Safe
<1>2. /\ Clean(d.pages) /\ (ok => Good(d.pages, cl))
      /\ Serviceable(d, cl.stale, ok)
  BY <1>1, SafeOutside
<1> QED BY <1>1, <1>2, Zenon DEF Settled

-----------------------------------------------------------------------------
(* The invariant in the steps of the specification.                        *)
LEMMA NothingToDo ==
  ASSUME NEW d
  PROVE  ApplyAll(d, <<>>) = d
<1>1. Len(<<>>) = 0 /\ Len(<<>>) \in Nat
  OBVIOUS
<1> QED BY <1>1, StateSteps

(* The writes still to be made are safe.                                   *)
LEMMA IInvMoves ==
  ASSUME IInv
  PROVE  Moves(disk, todo, ApplyAll(disk, todo), client, Undisturbed)
BY DEF IInv, Moves, IsSeq

(* Between two calls.                                                      *)
LEMMA Idle ==
  ASSUME IInv, todo = <<>>
  PROVE  /\ ram \in Handles /\ client \in Clients
         /\ refused \in BOOLEAN /\ reissued \in BOOLEAN
         /\ crashes \in 0 .. MaxCrashes
         /\ Safe(disk, client, Undisturbed)
         /\ Rested(ram, disk, client, Undisturbed)
<1>1. ApplyAll(disk, todo) = disk
  BY NothingToDo
<1>2. Rested(ram, ApplyAll(disk, todo), outcome, Undisturbed)
      /\ outcome = client
  BY DEF IInv
<1>3. Rested(ram, disk, client, Undisturbed)
  BY <1>1, <1>2
<1>4. Safe(disk, client, Undisturbed)
  BY <1>3 DEF Rested
<1> QED BY <1>3, <1>4 DEF IInv

(* ... and with an open handle, which agrees with the files.               *)
LEMMA IdleOpen ==
  ASSUME IInv, todo = <<>>, ram.open
  PROVE  /\ Settled(disk, client, Undisturbed)
         /\ ram = Handle(ram.header, ram.free_list)
         /\ ram.header \in Headers /\ ram.free_list \in FreeLists
         /\ ram.free_list = disk.free_list
         /\ ram.header.journal_pending = disk.header.journal_pending
         /\ Undisturbed => ram.header = disk.header
BY Idle, RestedSettled

(* A handle is made of a header and a free list.                           *)
LEMMA HandleTyped ==
  ASSUME NEW h \in Headers, NEW fl \in FreeLists
  PROVE  Handle(h, fl) \in Handles
BY DEF Handle, Handles

(* A call has begun.                                                       *)
LEMMA BegunIInv ==
  ASSUME ram' \in Handles, client' \in Clients, outcome' \in Clients,
         refused' \in BOOLEAN, reissued' \in BOOLEAN,
         crashes' \in 0 .. MaxCrashes, todo' # <<>>,
         Moves(disk', todo', ApplyAll(disk', todo'), client', Undisturbed'),
         Rested(ram', ApplyAll(disk', todo'), outcome', Undisturbed')
  PROVE  IInv'
<1>1. todo' \in Seq(ToSet(todo')) /\ SafePath(disk', todo', client', Undisturbed')
  BY DEF Moves, IsSeq
<1> QED BY <1>1 DEF IInv

(* There is nothing to do.                                                 *)
LEMMA QuietIInv ==
  ASSUME ram' \in Handles, client' \in Clients, outcome' = client',
         refused' \in BOOLEAN, reissued' \in BOOLEAN,
         crashes' \in 0 .. MaxCrashes, todo' = <<>>,
         Rested(ram', disk', client', Undisturbed')
  PROVE  IInv'
<1>1. ApplyAll(disk', todo') = disk'
  BY NothingToDo
<1>2. Safe(disk', client', Undisturbed')
  BY DEF Rested
<1>3. Moves(disk', <<>>, disk', client', Undisturbed')
  BY <1>2, MovesNone
<1>4. todo' \in Seq(ToSet(todo')) /\ SafePath(disk', todo', client', Undisturbed')
  BY <1>3 DEF Moves, IsSeq
<1> QED BY <1>1, <1>4 DEF IInv

(* The calls that are not about a record and keep the index.               *)
LEMMA QuietlyTurns ==
  ASSUME IInv, todo = <<>>, NEW handle \in Handles, NEW ws, NEW h, NEW fl,
         Turned(disk, ws, client, Undisturbed, h, fl),
         Quietly(handle, ws),
         handle.open =>
           /\ handle = Handle(handle.header, fl)
           /\ handle.header.journal_pending = h.journal_pending
           /\ Undisturbed => handle.header = h
  PROVE  IInv'
<1>1. /\ client \in Clients /\ refused \in BOOLEAN /\ reissued \in BOOLEAN
      /\ crashes \in 0 .. MaxCrashes
  BY Idle
<1>2. /\ ram' = handle /\ todo' = ws /\ outcome' = client
      /\ client' = (IF ws = <<>> THEN client ELSE Open({}))
      /\ disk' = disk /\ crashes' = crashes
      /\ refused' = refused /\ reissued' = reissued
  BY DEF Quietly, Start
<1>3. Open({}) = client
  BY <1>1, OpenNone DEF Open, OpenOf
<1>4. client' = client
  BY <1>2, <1>3
<1> DEFINE e == ApplyAll(disk, ws)
<1>5. /\ ws # <<>> /\ Moves(disk, ws, e, client, Undisturbed)
      /\ Settled(e, client, Undisturbed) /\ e.header = h /\ e.free_list = fl
  BY DEF Turned
<1> HIDE DEF e
<1>6. Undisturbed' <=> Undisturbed
  BY <1>2 DEF Undisturbed
<1>7. Rested(handle, e, client, Undisturbed)
  <2>1. CASE handle.open
    <3>1. Undisturbed => handle.header = e.header
      BY <1>5, <2>1
    <3>2. handle.header.journal_pending = e.header.journal_pending
      BY <1>5, <2>1
    <3>3. Rested(Handle(handle.header, fl), e, client, Undisturbed)
      BY <1>5, <3>1, <3>2, SettledRested
    <3> QED BY <2>1, <3>3
  <2>2. CASE ~handle.open
    <3>1. Safe(e, client, Undisturbed)
      BY <1>5, SettledSafe
    <3> QED BY <2>2, <3>1 DEF Rested
  <2> QED BY <2>1, <2>2
<1>8. Undisturbed' = Undisturbed
  BY <1>2 DEF Undisturbed
<1> QED BY <1>1, <1>2, <1>4, <1>5, <1>7, <1>8, BegunIInv DEF e

(* BeginTransaction keeps the invariant.                                   *)
LEMMA BeginIInv ==
  ASSUME IInv, BeginTransaction
  PROVE  IInv'
<1> DEFINE h == [ram.header EXCEPT !.journal_pending = TRUE]
           ws == <<TruncateJournal, PutHeader(h)>>
<1>1. /\ ram.open /\ todo = <<>> /\ Quietly(Handle(h, ram.free_list), ws)
  BY DEF BeginTransaction, Ready
<1>2. /\ Settled(disk, client, Undisturbed)
      /\ ram.header \in Headers /\ ram.free_list \in FreeLists
      /\ ram.free_list = disk.free_list
      /\ Undisturbed => ram.header = disk.header
  BY <1>1, IdleOpen
<1>3. h \in Headers /\ h.record_count = ram.header.record_count
  BY <1>2 DEF Headers
<1> HIDE DEF h
<1>4. Undisturbed => h.record_count = disk.header.record_count
  BY <1>2, <1>3
<1>5. Turned(disk, ws, client, Undisturbed, h, ram.free_list)
  BY <1>2, <1>3, <1>4, BeginTurns
<1> HIDE DEF ws
<1>6. Handle(h, ram.free_list) \in Handles
  BY <1>2, <1>3, HandleTyped
<1>7. Handle(h, ram.free_list).header = h
  BY DEF Handle
<1> QED BY <1>1, <1>5, <1>6, <1>7, QuietlyTurns

(* So do CommitTransaction and RollbackTransaction,                        *)
LEMMA EndIInv ==
  ASSUME IInv, EndTransaction
  PROVE  IInv'
<1> DEFINE h == [ram.header EXCEPT !.journal_pending = FALSE]
           ws == <<PutHeader(h), TruncateJournal>>
<1>1. /\ ram.open /\ todo = <<>> /\ Quietly(Handle(h, ram.free_list), ws)
  BY DEF EndTransaction, Ready
<1>2. /\ Settled(disk, client, Undisturbed)
      /\ ram.header \in Headers /\ ram.free_list \in FreeLists
      /\ ram.free_list = disk.free_list
      /\ Undisturbed => ram.header = disk.header
  BY <1>1, IdleOpen
<1>3. h \in Headers /\ h.record_count = ram.header.record_count
      /\ ~h.journal_pending
  BY <1>2 DEF Headers
<1> HIDE DEF h
<1>4. Undisturbed => h.record_count = disk.header.record_count
  BY <1>2, <1>3
<1>5. Turned(disk, ws, client, Undisturbed, h, ram.free_list)
  BY <1>2, <1>3, <1>4, EndTurns
<1> HIDE DEF ws
<1>6. Handle(h, ram.free_list) \in Handles
  BY <1>2, <1>3, HandleTyped
<1>7. Handle(h, ram.free_list).header = h
  BY DEF Handle
<1> QED BY <1>1, <1>5, <1>6, <1>7, QuietlyTurns

(* ... UpdateFreePages,                                                    *)
LEMMA UpdateFreePagesIInv ==
  ASSUME IInv, UpdateFreePages
  PROVE  IInv'
<1> DEFINE fl == ScanFreeList(disk.pages)
           ws == <<PutFreeList(fl)>>
<1>1. /\ ram.open /\ todo = <<>> /\ Quietly(Handle(ram.header, fl), ws)
  BY DEF UpdateFreePages, Ready
<1>2. /\ Settled(disk, client, Undisturbed)
      /\ ram.header \in Headers
      /\ ram.header.journal_pending = disk.header.journal_pending
      /\ Undisturbed => ram.header = disk.header
  BY <1>1, IdleOpen
<1>3. fl \in FreeLists /\ ListWithin(fl, disk.pages) /\ FreeListOf(fl, disk.pages)
  <2>1. disk.pages \in PageFiles
    BY <1>2 DEF Settled, Files
  <2> QED BY <2>1, ScanLists
<1> HIDE DEF fl
<1>4. Turned(disk, ws, client, Undisturbed, disk.header, fl)
  BY <1>2, <1>3, ListTurns
<1> HIDE DEF ws
<1>5. Handle(ram.header, fl) \in Handles
  BY <1>2, <1>3, HandleTyped
<1>6. Handle(ram.header, fl).header = ram.header
  BY DEF Handle
<1> QED BY <1>1, <1>2, <1>4, <1>5, <1>6, QuietlyTurns

(* ... CloseDatabase,                                                      *)
LEMMA CloseIInv ==
  ASSUME IInv, CloseDatabase
  PROVE  IInv'
<1> DEFINE ws == <<PutHeader(ram.header), PutFreeList(ram.free_list)>>
<1>1. /\ ram.open /\ todo = <<>> /\ Quietly(Closed, ws)
  BY DEF CloseDatabase, Ready
<1>2. /\ Settled(disk, client, Undisturbed)
      /\ ram.header \in Headers /\ ram.free_list = disk.free_list
      /\ ram.header.journal_pending = disk.header.journal_pending
      /\ Undisturbed => ram.header = disk.header
  BY <1>1, IdleOpen
<1>3. Turned(disk, ws, client, Undisturbed, ram.header, ram.free_list)
  BY <1>2, CloseTurns
<1> HIDE DEF ws
<1>4. Closed \in Handles /\ ~Closed.open
  BY DEF Handles, Closed
<1> QED BY <1>1, <1>3, <1>4, QuietlyTurns

(* ... and OpenDatabase, with or without a journal to replay.              *)
LEMMA OpenIInv ==
  ASSUME IInv, OpenDatabase
  PROVE  IInv'
<1>1. todo = <<>> /\ disk.dat
  BY DEF OpenDatabase, Openable
<1>2. /\ client \in Clients /\ refused \in BOOLEAN /\ reissued \in BOOLEAN
      /\ crashes \in 0 .. MaxCrashes /\ Safe(disk, client, Undisturbed)
  BY <1>1, Idle
<1>3. disk \in Files /\ disk.header \in Headers /\ disk.free_list \in FreeLists
      /\ disk.pages \in PageFiles
  BY <1>2 DEF Safe, Files
<1>4. CASE disk.header.journal_pending
  <2> DEFINE h == ReplayedHeader(disk)
             fl == ScanFreeList(ReplayedPages(disk))
             ws == ReplayWrites(disk)
  <2>1. Quietly(Handle(h, fl), ws)
    BY <1>4 DEF OpenDatabase, Opened
  <2>2. Turned(disk, ws, client, Undisturbed, h, fl)
    BY <1>2, <1>4, RecoverySettles
  <2>3. h \in Headers /\ fl \in FreeLists
    BY <2>2 DEF Turned, Settled, Files
  <2> HIDE DEF h, fl, ws
  <2>4. Handle(h, fl) \in Handles
    BY <2>3, HandleTyped
  <2>5. Handle(h, fl).header = h
    BY DEF Handle
  <2> QED BY <1>1, <2>1, <2>2, <2>4, <2>5, QuietlyTurns
<1>5. CASE ~disk.header.journal_pending
  <2> DEFINE handle == Handle(disk.header, disk.free_list)
  <2>1. /\ ram' = handle /\ todo' = <<>> /\ outcome' = client
        /\ client' = client /\ disk' = disk /\ crashes' = crashes
        /\ refused' = refused /\ reissued' = reissued
    BY <1>5 DEF OpenDatabase, Opened, Quietly, Start
  <2>2. Settled(disk, client, Undisturbed)
    BY <1>1, <1>2, <1>5, SafeSettled
  <2>3. Rested(handle, disk, client, Undisturbed)
    BY <2>2, SettledRested
  <2>4. handle \in Handles
    BY <1>3, HandleTyped
  <2> HIDE DEF handle
  <2>5. Undisturbed' = Undisturbed
    BY <2>1 DEF Undisturbed
  <2> QED BY <1>2, <2>1, <2>3, <2>4, <2>5, QuietIInv
<1> QED BY <1>4, <1>5

-----------------------------------------------------------------------------
(* The calls that rewrite the index.                                       *)
LEMMA DoubtedIs ==
  ASSUME NEW cl \in Clients, NEW b \in BOOLEAN
  PROVE  [cl EXCEPT !.stale = @ \/ ~b] = IF b THEN cl ELSE Stale(cl)
<1>1. cl.stale \in BOOLEAN /\ \A s \in BOOLEAN : cl.stale = s => cl = [cl EXCEPT !.stale = s]
  BY StaleClient
<1>2. CASE b
  <2>1. (cl.stale \/ ~b) = cl.stale
    BY <1>1, <1>2
  <2>2. [cl EXCEPT !.stale = cl.stale \/ ~b] = [cl EXCEPT !.stale = cl.stale]
    BY <2>1
  <2> QED BY <1>1, <1>2, <2>2
<1>3. CASE ~b
  <2>1. (cl.stale \/ ~b) = TRUE
    BY <1>1, <1>3
  <2>2. [cl EXCEPT !.stale = cl.stale \/ ~b] = [cl EXCEPT !.stale = TRUE]
    BY <2>1
  <2> QED BY <1>3, <2>2 DEF Stale
<1> QED BY <1>2, <1>3

(* A call that rewrites the index on the way from settled files to such    *)
(* files keeps the invariant:                                              *)
LEMMA ReindexTurns ==
  ASSUME IInv, todo = <<>>, NEW h \in Headers, NEW fl \in FreeLists,
         NEW ws, ws # <<>>,
         Moves(disk, ws, ApplyAll(disk, ws),
               IF ram.header.journal_pending THEN client ELSE Stale(client),
               Undisturbed),
         Settled(ApplyAll(disk, ws), Fresh(client), Undisturbed),
         ApplyAll(disk, ws).header.journal_pending = h.journal_pending,
         Undisturbed => ApplyAll(disk, ws).header = h,
         ApplyAll(disk, ws).free_list = fl,
         ram.header.journal_pending \in BOOLEAN,
         Reindex(Handle(h, fl), ws)
  PROVE  IInv'
<1> DEFINE e == ApplyAll(disk, ws)
           c == IF ram.header.journal_pending THEN client ELSE Stale(client)
<1>1. /\ client \in Clients /\ refused \in BOOLEAN /\ reissued \in BOOLEAN
      /\ crashes \in 0 .. MaxCrashes
  BY Idle
<1>2. /\ ram' = Handle(h, fl) /\ todo' = ws
      /\ outcome' = Fresh(client)
      /\ client' = [client EXCEPT !.stale = @ \/ ~ram.header.journal_pending]
      /\ disk' = disk /\ crashes' = crashes
      /\ refused' = refused /\ reissued' = reissued
  BY DEF Reindex, Fresh
<1>3. client' = c
  BY <1>1, <1>2, DoubtedIs
<1>4. c \in Clients /\ Fresh(client) \in Clients
  BY <1>1, StaleClient
<1>5. /\ Moves(disk, ws, e, c, Undisturbed)
      /\ Settled(e, Fresh(client), Undisturbed)
      /\ e.header.journal_pending = h.journal_pending
      /\ e.free_list = fl
  OBVIOUS
<1>6. Undisturbed => h = e.header
  OBVIOUS
<1> HIDE DEF c, e
<1>7. Rested(Handle(h, fl), e, Fresh(client), Undisturbed)
  BY <1>5, <1>6, SettledRested
<1>8. Handle(h, fl) \in Handles
  BY HandleTyped
<1>9. Undisturbed' = Undisturbed
  BY <1>2 DEF Undisturbed
<1> QED BY <1>1, <1>2, <1>3, <1>4, <1>5, <1>7, <1>8, <1>9, BegunIInv DEF e

(* ... RebuildIndex,                                                       *)
LEMMA RebuildIInv ==
  ASSUME IInv, RebuildIndex
  PROVE  IInv'
<1> DEFINE ws == RebuildIndexWrites(disk.pages)
           c == IF ram.header.journal_pending THEN client ELSE Stale(client)
           e == ApplyAll(disk, ws)
<1>1. ram.open /\ todo = <<>> /\ Reindex(ram, ws)
  BY DEF RebuildIndex, Ready
<1>2. /\ Settled(disk, client, Undisturbed)
      /\ ram = Handle(ram.header, ram.free_list)
      /\ ram.header \in Headers /\ ram.free_list \in FreeLists
      /\ ram.free_list = disk.free_list
      /\ ram.header.journal_pending = disk.header.journal_pending
  BY <1>1, IdleOpen
<1>3. Undisturbed => ram.header = disk.header
  BY <1>1, IdleOpen
<1>4. client \in Clients
  BY <1>1, Idle
<1>5. ram.header.journal_pending \in BOOLEAN
  BY <1>2 DEF Headers
<1>6. Settled(disk, c, Undisturbed) /\ c \in Clients
  BY <1>2, <1>4, SettledStale, StaleClient
<1>7. disk.header.journal_pending \/ c.stale
  BY <1>2, <1>4, StaleClient
<1>8. Fresh(c) = Fresh(client)
  BY <1>4 DEF Fresh, Stale, Clients
<1> HIDE DEF c
<1>9. RebuildSettles(disk, c, Undisturbed)
  BY <1>6, <1>7, RebuildTurns
<1>10. /\ ws # <<>>
       /\ Moves(disk, ws, e, c, Undisturbed)
       /\ Settled(e, Fresh(client), Undisturbed)
       /\ e.header = disk.header /\ e.free_list = disk.free_list
  BY <1>8, <1>9 DEF RebuildSettles
<1>11. Reindex(Handle(ram.header, ram.free_list), ws)
  BY <1>1, <1>2
<1> HIDE DEF ws
<1> QED BY <1>1, <1>2, <1>3, <1>5, <1>10, <1>11, ReindexTurns DEF c

(* ... and CompactDatabase.                                                *)
LEMMA CompactIInv ==
  ASSUME IInv, PagesNeeded = 1, CompactDatabase
  PROVE  IInv'
<1> DEFINE pgs == CopiedPages(disk.pages)
           fl == ScanFreeList(pgs)
           ws == CompactWrites(disk, ram.header)
           c == IF ram.header.journal_pending THEN client ELSE Stale(client)
           e == ApplyAll(disk, ws)
<1>1. /\ ram.open /\ todo = <<>> /\ ~ram.header.journal_pending
      /\ Reindex(Handle(ram.header, fl), ws)
  BY DEF CompactDatabase, Ready, InTxn, CompactWrites
<1>2. /\ Settled(disk, client, Undisturbed)
      /\ ram.header \in Headers
      /\ ram.header.journal_pending = disk.header.journal_pending
  BY <1>1, IdleOpen
<1>3. Undisturbed => ram.header = disk.header
  BY <1>1, IdleOpen
<1>4. client \in Clients
  BY <1>1, Idle
<1>5. CompactReady(disk, client, Undisturbed, ram.header)
  BY <1>1, <1>2, <1>3, <1>4 DEF CompactReady
<1>6. CompactSettles(disk, client, Undisturbed, ram.header)
  BY <1>5, CompactTurns
<1>7. /\ ws # <<>>
      /\ Moves(disk, ws, e, Stale(client), Undisturbed)
      /\ Settled(e, Fresh(client), Undisturbed)
      /\ e.header = ram.header /\ e.free_list = fl
  BY <1>6 DEF CompactSettles
<1>8. Moves(disk, ws, e, c, Undisturbed)
  BY <1>1, <1>7
<1>9. fl \in FreeLists
  BY <1>7 DEF Settled, Files
<1>10. ram.header.journal_pending \in BOOLEAN
  BY <1>2 DEF Headers
<1> HIDE DEF ws, fl
<1> QED BY <1>1, <1>2, <1>7, <1>8, <1>9, <1>10, ReindexTurns

-----------------------------------------------------------------------------
(* A write of the call in progress is made.                                *)
LEMMA FlushIInv ==
  ASSUME IInv, Flush
  PROVE  IInv'
<1> DEFINE w == Head(todo)
           rest == Tail(todo)
<1>1. /\ todo # <<>> /\ disk' = Apply(disk, w) /\ todo' = rest
      /\ client' = (IF rest = <<>> THEN outcome ELSE client)
      /\ ram' = ram /\ outcome' = outcome /\ refused' = refused
      /\ reissued' = reissued /\ crashes' = crashes
  BY DEF Flush
<1>2. /\ ram \in Handles /\ client \in Clients /\ outcome \in Clients
      /\ refused \in BOOLEAN /\ reissued \in BOOLEAN
      /\ crashes \in 0 .. MaxCrashes /\ IsSeq(todo)
      /\ SafePath(disk, todo, client, Undisturbed)
      /\ Rested(ram, ApplyAll(disk, todo), outcome, Undisturbed)
  BY DEF IInv, IsSeq
<1>3. IsSeq(rest) /\ ApplyAll(Apply(disk, w), rest) = ApplyAll(disk, todo)
  BY <1>1, <1>2, StatesTail
<1>4. SafePath(Apply(disk, w), rest, client, Undisturbed)
  BY <1>1, <1>2, FirstMove
<1>5. Undisturbed' = Undisturbed
  BY <1>1 DEF Undisturbed
<1>6. Rested(ram, ApplyAll(disk', rest), outcome, Undisturbed)
  BY <1>1, <1>2, <1>3
<1>7. CASE rest = <<>>
  <2>1. ApplyAll(disk', rest) = disk'
    BY <1>7, NothingToDo
  <2>2. Rested(ram', disk', client', Undisturbed')
    BY <1>1, <1>5, <1>6, <1>7, <2>1
  <2> QED BY <1>1, <1>2, <1>7, <2>2, QuietIInv
<1>8. CASE rest # <<>>
  <2>1. Moves(disk', todo', ApplyAll(disk', todo'), client', Undisturbed')
    BY <1>1, <1>3, <1>4, <1>5, <1>8 DEF Moves
  <2> QED BY <1>1, <1>2, <1>5, <1>6, <1>8, <2>1, BegunIInv
<1> QED BY <1>7, <1>8

(* The process dies.                                                       *)
LEMMA CrashIInv ==
  ASSUME IInv, Crash
  PROVE  IInv'
<1>1. /\ crashes' = crashes + 1 /\ crashes < MaxCrashes /\ ram' = Closed
      /\ todo' = <<>> /\ outcome' = client /\ client' = client
      /\ refused' = refused /\ reissued' = reissued
      /\ \/ disk' = disk
         \/ todo # <<>> /\ disk' \in TornBy(disk, Head(todo))
  BY DEF Crash
<1>2. /\ client \in Clients /\ refused \in BOOLEAN /\ reissued \in BOOLEAN
      /\ crashes \in 0 .. MaxCrashes /\ IsSeq(todo)
      /\ SafePath(disk, todo, client, Undisturbed)
  BY DEF IInv, IsSeq
<1>3. Safe(disk', client, Undisturbed)
  <2>1. CASE disk' = disk
    BY <2>1, IInvMoves, MovesEnds
  <2>2. CASE todo # <<>> /\ disk' \in TornBy(disk, Head(todo))
    <3>1. TornSafe(disk, Head(todo), client, Undisturbed)
      BY <1>2, <2>2, FirstMove
    <3> QED BY <2>2, <3>1 DEF TornSafe
  <2> QED BY <1>1, <2>1, <2>2
<1>4. Closed \in Handles /\ ~Closed.open
  BY DEF Handles, Closed
<1>5. Undisturbed' = Undisturbed
  BY <1>1 DEF Undisturbed
<1>6. Rested(ram', disk', client', Undisturbed')
  BY <1>1, <1>3, <1>4, <1>5 DEF Rested
<1>7. crashes' \in 0 .. MaxCrashes
  BY <1>1, <1>2, BoundsAssumption
<1> QED BY <1>1, <1>2, <1>4, <1>6, <1>7, QuietIInv

-----------------------------------------------------------------------------
(* The calls about a record, in a transaction.                             *)
LEMMA StartedIInv ==
  ASSUME IInv, todo = <<>>, NEW handle \in Handles, NEW ws, ws # <<>>,
         NEW ids, NEW promise \in Clients,
         Start(handle, ws, ids, promise),
         refused' \in BOOLEAN, reissued' \in BOOLEAN,
         Moves(disk, ws, ApplyAll(disk, ws), OpenOf(client, ids), Undisturbed'),
         Rested(handle, ApplyAll(disk, ws), promise, Undisturbed')
  PROVE  IInv'
<1>1. client \in Clients /\ crashes \in 0 .. MaxCrashes
  BY Idle
<1>2. /\ ram' = handle /\ todo' = ws /\ outcome' = promise
      /\ client' = Open(ids) /\ disk' = disk /\ crashes' = crashes
  BY DEF Start
<1>3. Open(ids) = OpenOf(client, ids)
  BY DEF Open, OpenOf
<1>4. OpenOf(client, ids) \in Clients
  BY <1>1, Opens
<1> QED BY <1>1, <1>2, <1>3, <1>4, BegunIInv

(* When a record may be changed: the handle and the files agree, and the   *)
(* journal is pending.                                                     *)
ChangeableNow ==
  /\ PagesNeeded = 1
  /\ client \in Clients
  /\ client.stale = FALSE
  /\ Safe(disk, client, Undisturbed)
  /\ disk.header.journal_pending
  /\ ReplayedPages(disk) = disk.pages
  /\ Serviceable(disk, FALSE, Undisturbed)
  /\ ram = Handle(ram.header, ram.free_list)
  /\ ram.header \in Headers /\ ram.free_list \in FreeLists
  /\ ram.free_list = disk.free_list
  /\ ram.header.journal_pending
  /\ Undisturbed => ram.header = disk.header

(* That is so whenever MayChange lets a call start.                        *)
LEMMA ChangeableIs ==
  ASSUME IInv, PagesNeeded = 1, ChangeOnlyInTxn, ram.open, todo = <<>>,
         MayChange
  PROVE  ChangeableNow
<1>1. ram.header.journal_pending /\ ~client.stale
  BY DEF MayChange, InTxn
<1>2. /\ Settled(disk, client, Undisturbed)
      /\ ram = Handle(ram.header, ram.free_list)
      /\ ram.header \in Headers /\ ram.free_list \in FreeLists
      /\ ram.free_list = disk.free_list
      /\ ram.header.journal_pending = disk.header.journal_pending
  BY IdleOpen
<1>3. Undisturbed => ram.header = disk.header
  BY IdleOpen
<1>4. client \in Clients /\ Safe(disk, client, Undisturbed)
  BY Idle
<1>5. client.stale = FALSE
  BY <1>1, <1>4, StaleClient
<1>6. disk.header.journal_pending
  BY <1>1, <1>2
<1>7. ReplayedPages(disk) = disk.pages /\ Serviceable(disk, FALSE, Undisturbed)
  BY <1>2, <1>5, <1>6 DEF Settled
<1> QED BY <1>1, <1>2, <1>3, <1>4, <1>5, <1>6, <1>7 DEF ChangeableNow

(* Sequences of writes that are not empty.                                 *)
LEMMA SomeFirst ==
  ASSUME NEW u, IsSeq(u), u # <<>>, NEW v, IsSeq(v)
  PROVE  u \o v # <<>>
<1>1. Len(u) # 0 /\ Len(u) \in Nat
  BY SeqFacts
<1>2. IsSeq(u \o v) /\ Len(u \o v) = Len(u) + Len(v) /\ Len(v) \in Nat
  BY ConcatFacts
<1>3. Len(u \o v) # 0
  BY <1>1, <1>2
<1> QED BY <1>2, <1>3, SeqFacts

(* ... because of its first or of its second part.                         *)
LEMMA SomeAfter ==
  ASSUME NEW u, IsSeq(u), NEW v, IsSeq(v), v # <<>>
  PROVE  u \o v # <<>>
<1>1. Len(v) # 0 /\ Len(v) \in Nat
  BY SeqFacts
<1>2. IsSeq(u \o v) /\ Len(u \o v) = Len(u) + Len(v) /\ Len(u) \in Nat
  BY ConcatFacts
<1>3. Len(u \o v) # 0
  BY <1>1, <1>2
<1> QED BY <1>2, <1>3, SeqFacts

(* Three writes are a sequence.                                            *)
LEMMA ListIsSeq ==
  ASSUME NEW a, NEW b, NEW c
  PROVE  IsSeq(<<a, b, c>>)
<1>1. <<a, b, c>> \in Seq({a, b, c})
  OBVIOUS
<1> QED BY <1>1, SeqIsSeq

(* A record's page takes two writes.                                       *)
LEMMA RecordSome ==
  ASSUME PagesNeeded = 1, NEW p \in Int, NEW image
  PROVE  RecordWrites(image, p) # <<>> /\ IsSeq(RecordWrites(image, p))
<1> DEFINE a == AppendJournal([page |-> p, image |-> image[p], valid |-> TRUE])
           b == PutPage(p, image[p])
<1>1. JournalImage(image, p) = <<a>> /\ PutImage(image, p) = <<b>>
  BY OnePageWrites
<1> HIDE DEF a, b
<1>2. RecordWrites(image, p) = <<a>> \o <<b>>
  BY <1>1 DEF RecordWrites
<1>3. IsSeq(<<a>>) /\ IsSeq(<<b>>)
  BY OneFacts
<1>4. IsSeq(<<a>> \o <<b>>)
  BY <1>3, ConcatFacts
<1> QED BY <1>2, <1>3, <1>4, SomeLast

(* UpdateRecord keeps the invariant,                                       *)
LEMMA UpdateIInv ==
  ASSUME IInv, PagesNeeded = 1, ChangeOnlyInTxn, NEW id, NEW v \in Data,
         UpdateRecord(id, v)
  PROVE  IInv'
<1> DEFINE p == IndexPage(disk, id)
           ws == UpdateWrites(disk, id, v)
<1>1. ram.open /\ todo = <<>> /\ MayChange /\ IndexHas(disk, id)
      /\ refused' = refused /\ reissued' = reissued
  BY DEF UpdateRecord, Ready
<1>2. ChangeableNow
  BY <1>1, ChangeableIs
<1>3. /\ client \in Clients /\ ram.header.journal_pending
      /\ ram = Handle(ram.header, ram.free_list)
      /\ ram.free_list = disk.free_list
      /\ FoundReady(disk, client, Undisturbed, id)
  BY <1>1, <1>2 DEF ChangeableNow, FoundReady
<1>4. Undisturbed => ram.header = disk.header
  BY <1>2 DEF ChangeableNow
<1>5. p \in Int
  BY <1>3, FoundPage
<1>6. Start(ram, ws, {id}, KeptOf(client, id, v))
  <2>1. Kept(id, v) = KeptOf(client, id, v)
    BY DEF Kept, KeptOf, Open, OpenOf
  <2>2. PutRecord(RecordImage(id, p, v), p) = ws
    BY <1>3 DEF PutRecord, UpdateWrites, RecordWrites
  <2>3. Start(ram, PutRecord(RecordImage(id, p, v), p), {id}, Kept(id, v))
    BY DEF UpdateRecord
  <2> QED BY <2>1, <2>2, <2>3
<1>7. Updated(disk, client, Undisturbed, id, v, ram.header)
  BY <1>3, <1>4, UpdateDone
<1>8. ws # <<>>
  BY <1>5, RecordSome DEF UpdateWrites
<1> HIDE DEF ws
<1>9. /\ Moves(disk, ws, ApplyAll(disk, ws), OpenOf(client, {id}), Undisturbed)
      /\ Rested(Handle(ram.header, disk.free_list), ApplyAll(disk, ws),
                KeptOf(client, id, v), Undisturbed)
      /\ KeptOf(client, id, v) \in Clients
  BY <1>7 DEF Updated, ws
<1>10. Rested(ram, ApplyAll(disk, ws), KeptOf(client, id, v), Undisturbed)
  BY <1>3, <1>9
<1>11. Undisturbed' = Undisturbed
  BY <1>1 DEF Undisturbed
<1>12. ram \in Handles /\ refused' \in BOOLEAN /\ reissued' \in BOOLEAN
  BY <1>1, Idle
<1> QED BY <1>1, <1>6, <1>8, <1>9, <1>10, <1>11, <1>12, StartedIInv

(* ... DeleteRecord,                                                       *)
LEMMA DeleteIInv ==
  ASSUME IInv, PagesNeeded = 1, ChangeOnlyInTxn, NEW id, DeleteRecord(id)
  PROVE  IInv'
<1> DEFINE p == IndexPage(disk, id)
           h == [ram.header EXCEPT !.record_count = @ - 1]
           ws == DeleteWrites(disk, id, h)
           freed == ReleasePages(disk.free_list, p)
<1>1. ram.open /\ todo = <<>> /\ MayChange /\ IndexHas(disk, id)
      /\ refused' = refused /\ reissued' = reissued
  BY DEF DeleteRecord, Ready
<1>2. ChangeableNow
  BY <1>1, ChangeableIs
<1>3. /\ client \in Clients /\ ram.header.journal_pending
      /\ ram.free_list = disk.free_list /\ ram.header \in Headers
      /\ FoundReady(disk, client, Undisturbed, id)
  BY <1>1, <1>2 DEF ChangeableNow, FoundReady
<1>4. Undisturbed => ram.header = disk.header
  BY <1>2 DEF ChangeableNow
<1>5. p \in Int
  BY <1>3, FoundPage
<1>6. h \in Headers /\ h.journal_pending
      /\ h.record_count = ram.header.record_count - 1
  BY <1>3 DEF Headers
<1>7. Undisturbed => h.record_count = disk.header.record_count - 1
  BY <1>4, <1>6
<1>8. Start(Handle(h, freed), ws, {id}, RemovedOf(client, id))
  <2>1. Removed(id) = RemovedOf(client, id)
    BY DEF Removed, RemovedOf, Open, OpenOf
  <2>2. PutRecord(EmptyImage(p), p) = RecordWrites(EmptyImage(p), p)
    BY <1>3 DEF PutRecord, RecordWrites
  <2>3. ReleasePages(ram.free_list, p) = freed
    BY <1>3
  <2>4. Start(Handle(h, ReleasePages(ram.free_list, p)),
              PutRecord(EmptyImage(p), p)
                \o <<PutIndex(2, WithoutKey(disk.index.leaf, id)),
                     PutFreeList(ReleasePages(ram.free_list, p)), PutHeader(h)>>,
              {id}, Removed(id))
    BY DEF DeleteRecord
  <2> HIDE DEF h
  <2> QED BY <2>1, <2>2, <2>3, <2>4 DEF DeleteWrites
<1> HIDE DEF h
<1>9. Deleted(disk, client, Undisturbed, id, h)
  BY <1>3, <1>6, <1>7, DeleteDone
<1>10. /\ Moves(disk, ws, ApplyAll(disk, ws), OpenOf(client, {id}), Undisturbed)
       /\ Rested(Handle(h, freed), ApplyAll(disk, ws),
                 RemovedOf(client, id), Undisturbed)
       /\ RemovedOf(client, id) \in Clients
       /\ freed \in FreeLists
  BY <1>9 DEF Deleted
<1>11. ws # <<>>
  <2> DEFINE t == <<PutIndex(2, WithoutKey(disk.index.leaf, id)),
                    PutFreeList(freed), PutHeader(h)>>
  <2>1. IsSeq(t)
    BY ListIsSeq
  <2>2. ws = RecordWrites(EmptyImage(p), p) \o t
    BY DEF DeleteWrites
  <2> HIDE DEF t, ws
  <2> QED BY <1>5, <2>1, <2>2, RecordSome, SomeFirst
<1> HIDE DEF ws, freed
<1>12. Handle(h, freed) \in Handles
  BY <1>6, <1>10, HandleTyped
<1>13. Undisturbed' = Undisturbed
  BY <1>1 DEF Undisturbed
<1>14. refused' \in BOOLEAN /\ reissued' \in BOOLEAN
  BY <1>1, Idle
<1> QED BY <1>1, <1>8, <1>10, <1>11, <1>12, <1>13, <1>14, StartedIInv

(* Two writes are a sequence.                                              *)
LEMMA PairIsSeq ==
  ASSUME NEW a, NEW b
  PROVE  IsSeq(<<a, b>>)
<1>1. <<a, b>> \in Seq({a, b})
  OBVIOUS
<1> QED BY <1>1, SeqIsSeq

(* AddRecord makes some write in any case.                                 *)
LEMMA StoreSome ==
  ASSUME NEW d, NEW cl, NEW ok, NEW id, NEW v, AddReady(d, cl, ok, id, v)
  PROVE  StoreWrites(d, id, v) # <<>> /\ IsSeq(StoreWrites(d, id, v))
<1> DEFINE a == AllocatePages(d.free_list, d.pages)
           im == RecordImage(id, a.first, v)
           r == RecordWrites(im, a.first)
<1>1. /\ PagesNeeded = 1 /\ Safe(d, cl, ok) /\ d.header.journal_pending
      /\ ReplayedPages(d) = d.pages /\ ListInFile(d) /\ a.first + 1 <= MaxPages
  BY DEF AddReady, Serviceable
<1>2. Moves(d, a.writes, ApplyAll(d, a.writes), cl, ok)
      /\ a.first \in DOMAIN ApplyAll(d, a.writes).pages
      /\ ApplyAll(d, a.writes) \in Files
  BY <1>1, TxnAllocate
<1>3. a.first \in Int
  <2>1. ApplyAll(d, a.writes).pages \in PageFiles
    BY <1>2 DEF Files
  <2> QED BY <1>2, <2>1, FileOfPages
<1>4. IsSeq(a.writes)
  BY <1>2, MovesIs
<1> HIDE DEF a
<1>5. r # <<>> /\ IsSeq(r)
  BY <1>1, <1>3, RecordSome
<1> HIDE DEF r, im
<1>6. a.writes \o r # <<>> /\ IsSeq(a.writes \o r)
  BY <1>4, <1>5, SomeAfter, ConcatFacts
<1> QED BY <1>6 DEF StoreWrites, RecordWrites, a, r, im

(* AddRecord.                                                              *)
LEMMA AddNow ==
  ASSUME ChangeableNow, NEW ok, ok => Undisturbed, NEW v \in Data,
         ram.header.next_record_id <= MaxRecordId,
         AllocatePages(disk.free_list, disk.pages).first + 1 <= MaxPages,
         ok => NewId(ram.header.next_record_id, ActivePages(disk.pages),
                     disk.pages)
  PROVE  /\ Safe(disk, client, ok)
         /\ Serviceable(disk, FALSE, ok)
         /\ ram.header.next_record_id \in 1 .. MaxRecordId
<1>1. Safe(disk, client, Undisturbed) /\ Serviceable(disk, FALSE, Undisturbed)
      /\ ram.header \in Headers
  BY DEF ChangeableNow
<1>2. Safe(disk, client, ok)
  BY <1>1, SafeDisturbed
<1>3. Serviceable(disk, FALSE, ok)
  BY <1>1 DEF Serviceable
<1>4. ram.header.next_record_id \in 1 .. MaxRecordId
  BY <1>1, BoundsAssumption DEF Headers
<1> QED BY <1>2, <1>3, <1>4

(* AddRecord keeps the invariant, whether the index takes the id or        *)
(* refuses it, and whether or not the id is on disk already.               *)
LEMMA AddIInv ==
  ASSUME IInv, PagesNeeded = 1, ChangeOnlyInTxn, NEW v \in Data, AddRecord(v)
  PROVE  IInv'
<1> DEFINE h == ram.header
           id == h.next_record_id
           a == AllocatePages(disk.free_list, disk.pages)
           used == [h EXCEPT !.next_record_id = @ + 1]
           added == [used EXCEPT !.record_count = @ + 1]
           store == StoreWrites(disk, id, v)
           entry == LeafInsert(disk.index.leaf, id, a.first)
           taken == disk.index.size = 2 /\ entry.ok
           more == store \o <<PutIndex(2, entry.leaf), PutHeader(added)>>
           ok == Undisturbed'
<1>1. ram.open /\ todo = <<>> /\ MayChange
  BY DEF AddRecord, Ready
<1>2. ChangeableNow
  BY <1>1, ChangeableIs
<1>3. /\ client \in Clients /\ client.stale = FALSE
      /\ disk.header.journal_pending
      /\ ReplayedPages(disk) = disk.pages
      /\ h \in Headers /\ h.journal_pending
      /\ ram.free_list = disk.free_list /\ ram.free_list \in FreeLists
  BY <1>2 DEF ChangeableNow
<1>4. PutRecord(RecordImage(id, a.first, v), a.first)
        = JournalImage(RecordImage(id, a.first, v), a.first)
            \o PutImage(RecordImage(id, a.first, v), a.first)
  BY <1>3 DEF PutRecord
<1>5. a.writes \o PutRecord(RecordImage(id, a.first, v), a.first) = store
  BY <1>4 DEF StoreWrites
<1>6. AllocatePages(ram.free_list, disk.pages) = a
  BY <1>3
<1>7. /\ id <= MaxRecordId
      /\ a.first + 1 <= MaxPages
      /\ IF taken
         THEN Start(Handle(added, a.free_list), more, {id}, Kept(id, v))
         ELSE Start(Handle(used, a.free_list), store, {id}, Open({id}))
      /\ refused' = (refused \/ ~taken)
      /\ reissued' = (reissued \/ \E p \in ActivePages(disk.pages) :
                                    disk.pages[p].id = id)
  <2> HIDE DEF a, store
  <2> QED BY <1>5, <1>6 DEF AddRecord
<1>8. used \in Headers /\ used.journal_pending
      /\ used.record_count = h.record_count
  BY <1>3 DEF Headers
<1> HIDE DEF used
<1>9. added \in Headers /\ added.journal_pending
      /\ added.record_count = h.record_count + 1
  BY <1>3, <1>8 DEF Headers
<1> HIDE DEF added
<1>10. /\ refused \in BOOLEAN /\ reissued \in BOOLEAN
       /\ refused' \in BOOLEAN /\ reissued' \in BOOLEAN
  <2>1. refused \in BOOLEAN /\ reissued \in BOOLEAN
    BY <1>1, Idle
  <2> HIDE DEF taken
  <2> QED BY <1>7, <2>1
<1>11. ok => Undisturbed
  <2> HIDE DEF taken
  <2> QED BY <1>7, <1>10 DEF Undisturbed
<1>12. ok => NewId(id, ActivePages(disk.pages), disk.pages)
  <2> HIDE DEF taken
  <2> QED BY <1>7, <1>10 DEF Undisturbed, NewId
<1>13. ~taken => ok = FALSE
  <2> HIDE DEF taken
  <2> QED BY <1>7, <1>10 DEF Undisturbed
<1> HIDE DEF ok
<1>14. /\ Safe(disk, client, ok)
       /\ Serviceable(disk, FALSE, ok)
       /\ id \in 1 .. MaxRecordId
  BY <1>2, <1>7, <1>11, <1>12, AddNow
<1>15. /\ OpenOf(client, {id}) \in Clients /\ KeptOf(client, id, v) \in Clients
  BY <1>3, <1>14, ClientOpen
<1>15a. store # <<>> /\ IsSeq(store) /\ a.free_list \in FreeLists
  <2>1. AddReady(disk, client, FALSE, id, v)
    <3>1. Safe(disk, client, FALSE)
      BY <1>14, SafeDisturbed
    <3>2. Serviceable(disk, FALSE, FALSE)
      BY <1>14 DEF Serviceable
    <3> HIDE DEF id, a
    <3> QED BY <1>3, <1>7, <1>14, <3>1, <3>2 DEF AddReady, a
  <2>2. Stored(disk, client, FALSE, id, v)
    BY <2>1, AddStored
  <2>3. a.free_list \in FreeLists
    BY <2>2 DEF Stored, Files
  <2> QED BY <2>1, <2>3, StoreSome
<1>16. CASE taken
  <2>1. Start(Handle(added, a.free_list), more, {id}, KeptOf(client, id, v))
    <3>1. Kept(id, v) = KeptOf(client, id, v)
      BY DEF Kept, KeptOf, Open, OpenOf
    <3> QED BY <1>7, <1>16, <3>1
  <2>2. ok => added.record_count = disk.header.record_count + 1
    BY <1>2, <1>9, <1>11 DEF ChangeableNow
  <2>3. disk.index.size = 2 /\ entry.ok
    BY <1>16
  <2>4. /\ Moves(disk, more, ApplyAll(disk, more), OpenOf(client, {id}), ok)
        /\ Rested(Handle(added, a.free_list), ApplyAll(disk, more),
                  KeptOf(client, id, v), ok)
    BY <1>3, <1>7, <1>9, <1>12, <1>14, <2>2, <2>3, AddDone
  <2>5. more # <<>>
    <3>1. IsSeq(<<PutIndex(2, entry.leaf), PutHeader(added)>>)
      BY PairIsSeq
    <3> HIDE DEF store, entry
    <3> QED BY <1>15a, <3>1, SomeFirst
  <2>6. Handle(added, a.free_list) \in Handles
    BY <1>9, <1>15a, HandleTyped
  <2> HIDE DEF more, a
  <2> QED BY <1>1, <1>10, <1>15, <2>1, <2>4, <2>5, <2>6, StartedIInv DEF ok
<1>17. CASE ~taken
  <2>1. Start(Handle(used, a.free_list), store, {id}, OpenOf(client, {id}))
    <3>1. Open({id}) = OpenOf(client, {id})
      BY DEF Open, OpenOf
    <3> QED BY <1>7, <1>17, <3>1
  <2>2. ok = FALSE
    BY <1>13, <1>17
  <2>3. /\ Moves(disk, store, ApplyAll(disk, store), OpenOf(client, {id}), FALSE)
        /\ Rested(Handle(used, a.free_list), ApplyAll(disk, store),
                  OpenOf(client, {id}), FALSE)
    BY <1>3, <1>7, <1>8, <1>14, <2>2, AddRefused
  <2>4. Handle(used, a.free_list) \in Handles
    BY <1>8, <1>15a, HandleTyped
  <2> HIDE DEF store, a
  <2> QED BY <1>1, <1>10, <1>15, <1>15a, <2>1, <2>2, <2>3, <2>4,
            StartedIInv DEF ok
<1> QED BY <1>16, <1>17

-----------------------------------------------------------------------------
(* The invariant is inductive.                                             *)
LEMMA NoPages ==
  LET pgs == [p \in {} |-> EmptyPage]
  IN  /\ pgs \in PageFiles /\ DOMAIN pgs = {}
      /\ ActivePages(pgs) = {} /\ EmptyPages(pgs) = {}
<1> DEFINE pgs == [p \in {} |-> EmptyPage]
<1>1. DataPages(2) = {}
  BY DEF DataPages, FirstDataPage
<1>2. 2 \in FirstDataPage .. MaxPages
  BY BoundsAssumption DEF FirstDataPage
<1>3. pgs \in [DataPages(2) -> Page]
  BY <1>1
<1>4. pgs \in PageFiles
  BY <1>2, <1>3 DEF PageFiles
<1> QED BY <1>4 DEF ActivePages, EmptyPages

(* It holds of a database that has just been created ...                   *)
LEMMA InitIInv ==
  ASSUME Init
  PROVE  IInv
<1> DEFINE pgs == [p \in {} |-> EmptyPage]
<1>1. /\ pgs \in PageFiles /\ DOMAIN pgs = {}
      /\ ActivePages(pgs) = {} /\ EmptyPages(pgs) = {}
  BY NoPages
<1> HIDE DEF pgs
<1>2. /\ disk = [dat       |-> TRUE,
                 header    |-> [record_count |-> 0, next_record_id |-> 1,
                                journal_pending |-> FALSE],
                 free_list |-> NoFreePages,
                 pages     |-> pgs,
                 index     |-> [size |-> 2, leaf |-> EmptyLeaf],
                 journal   |-> <<>>,
                 tmp       |-> NoCopy]
      /\ ram = Handle(disk.header, disk.free_list)
      /\ todo = <<>> /\ outcome = client
      /\ client = [promised |-> [id \in {} |-> NoData], gone |-> {},
                   stale |-> FALSE]
      /\ refused = FALSE /\ reissued = FALSE /\ crashes = 0
  BY DEF Init, pgs
<1>3. disk.header \in Headers /\ ~disk.header.journal_pending
      /\ disk.header.record_count = 0
  BY <1>2 DEF Headers
<1>4. disk.free_list \in FreeLists /\ disk.free_list = NoFreePages
  BY <1>2 DEF FreeLists, NoFreePages
<1>5. disk.index \in Indexes /\ disk.index.size = 2 /\ DOMAIN disk.index.leaf = {}
  BY <1>2, EmptyLeafTyped DEF Indexes
<1>6. NoCopy \in Copies
  BY <1>1 DEF NoCopy, Copies, pgs
<1>7. disk \in Files /\ disk.dat /\ disk.pages = pgs
  BY <1>1, <1>2, <1>3, <1>4, <1>5, <1>6 DEF Files
<1>8. Cardinality({}) = 0
  BY FS_EmptySet
<1>9. client \in Clients
  <2>1. [id \in {} |-> NoData] \in [{} -> Data] /\ {} \in SUBSET (1 .. MaxRecordId)
    OBVIOUS
  <2> QED BY <1>2, <2>1 DEF Clients
<1>10. ListInFile(disk) /\ FreeListExact(disk)
  <2>1. disk.free_list.list = <<>> /\ disk.free_list.free_page_count = 0
    BY <1>4 DEF NoFreePages
  <2>2. DOMAIN disk.free_list.list = {}
    BY <2>1
  <2>3. ToSet(disk.free_list.list) = {} /\ Len(disk.free_list.list) = 0
    BY <2>1, <2>2 DEF ToSet
  <2>4. EmptyPages(disk.pages) = {}
    BY <1>1, <1>7
  <2> QED BY <1>8, <2>1, <2>2, <2>3, <2>4 DEF ListInFile, FreeListExact
<1>11. ActivePages(disk.pages) = {}
  BY <1>1, <1>7
<1>12. IndexInFile(disk) /\ IndexExact(disk)
  BY <1>5, <1>11 DEF IndexInFile, IndexExact
<1>13. Serviceable(disk, client.stale, Undisturbed)
  BY <1>3, <1>8, <1>10, <1>11, <1>12 DEF Serviceable
<1>14. Clean(disk.pages)
  BY <1>1, <1>7 DEF Clean
<1>15. Good(disk.pages, client)
  <2>1. DOMAIN client.promised = {} /\ client.gone = {}
    BY <1>2
  <2> QED BY <1>8, <1>11, <2>1 DEF Good, Unique, Room, Promises
<1>16. Settled(disk, client, Undisturbed)
  BY <1>3, <1>7, <1>13, <1>14, <1>15 DEF Settled
<1>17. Rested(Handle(disk.header, disk.free_list), disk, client, Undisturbed)
  BY <1>16, SettledRested
<1>18. Handle(disk.header, disk.free_list) \in Handles
  BY <1>3, <1>4, HandleTyped
<1>19. Safe(disk, client, Undisturbed)
  BY <1>16, SettledSafe
<1>20. Moves(disk, <<>>, disk, client, Undisturbed)
  BY <1>19, MovesNone
<1>21. todo \in Seq(ToSet(todo)) /\ SafePath(disk, todo, client, Undisturbed)
  BY <1>2, <1>20 DEF Moves, IsSeq
<1>22. ApplyAll(disk, todo) = disk
  BY <1>2, NothingToDo
<1>23. crashes \in 0 .. MaxCrashes
  BY <1>2, BoundsAssumption
<1>24. Rested(ram, ApplyAll(disk, todo), outcome, Undisturbed) /\ ram \in Handles
  BY <1>2, <1>17, <1>18, <1>22
<1> QED BY <1>2, <1>9, <1>21, <1>23, <1>24 DEF IInv

(* ... and every step keeps it.                                            *)
LEMMA NextIInv ==
  ASSUME PagesNeeded = 1, ChangeOnlyInTxn, IInv, [Next]_vars
  PROVE  IInv'
<1>1. ASSUME NEW v \in Data, AddRecord(v) PROVE IInv'
  BY <1>1, AddIInv
<1>2. ASSUME NEW id \in DOMAIN disk.index.leaf, DeleteRecord(id) PROVE IInv'
  BY <1>2, DeleteIInv
<1>3. ASSUME NEW id \in DOMAIN disk.index.leaf, NEW v \in Data,
             UpdateRecord(id, v)
      PROVE  IInv'
  BY <1>3, UpdateIInv
<1>4. CASE BeginTransaction
  BY <1>4, BeginIInv
<1>5. CASE EndTransaction
  BY <1>5, EndIInv
<1>6. CASE UpdateFreePages
  BY <1>6, UpdateFreePagesIInv
<1>7. CASE RebuildIndex
  BY <1>7, RebuildIInv
<1>8. CASE CompactDatabase
  BY <1>8, CompactIInv
<1>9. CASE CloseDatabase
  BY <1>9, CloseIInv
<1>10. CASE OpenDatabase
  BY <1>10, OpenIInv
<1>11. CASE Flush
  BY <1>11, FlushIInv
<1>12. CASE Crash
  BY <1>12, CrashIInv
<1>13. CASE UNCHANGED vars
  BY <1>13 DEF vars, IInv, Undisturbed
<1> QED BY <1>1, <1>2, <1>3, <1>4, <1>5, <1>6, <1>7, <1>8, <1>9, <1>10, <1>11,
           <1>12, <1>13 DEF Next

(* What the invariant says of the files at any moment.                     *)
LEMMA IInvSafe ==
  ASSUME IInv
  PROVE  Safe(disk, client, Undisturbed)
BY IInvMoves, MovesEnds

(* The files have their shape.                                             *)
LEMMA IInvTypes ==
  ASSUME IInv
  PROVE  TypeOK
<1>1. disk \in Files
  BY IInvSafe DEF Safe
<1>2. disk.dat \in BOOLEAN /\ disk.header \in Headers
      /\ disk.free_list \in FreeLists /\ disk.pages \in PageFiles
      /\ disk.index \in Indexes /\ disk.journal \in Seq(Entries)
      /\ disk.tmp \in Copies
  BY <1>1 DEF Files
<1>3. disk.free_list.free_page_count \in Int
      /\ ToSet(disk.free_list.list) \subseteq DataPages(MaxPages)
  <2>1. disk.free_list.free_page_count \in Int
        /\ disk.free_list.list \in Seq(DataPages(MaxPages))
    BY <1>2 DEF FreeLists
  <2> QED BY <2>1 DEF ToSet
<1>4. disk.pages \in [DataPages(TotalPages(disk.pages)) -> Page]
  BY <1>2, FileOfPages
<1>5. disk.tmp.pages \in [DataPages(TotalPages(disk.tmp.pages)) -> Page]
  <2>1. disk.tmp.pages \in PageFiles
    BY <1>2 DEF Copies
  <2> QED BY <2>1, FileOfPages
<1>6. disk.index.size \in 0 .. 2 /\ DOMAIN disk.index.leaf \subseteq 1 .. MaxRecordId
  BY <1>2, LeafParts DEF Indexes
<1>7. ToSet(disk.journal) \subseteq
        [page : DataPages(MaxPages), image : Page, valid : BOOLEAN]
  <2>1. ToSet(disk.journal) \subseteq Entries
    BY <1>2 DEF ToSet
  <2> QED BY <2>1 DEF Entries
<1>8. ram.open \in BOOLEAN
  <2>1. ram \in Handles
    BY DEF IInv
  <2>2. CASE ram = Closed
    BY <2>2 DEF Closed
  <2>3. CASE ram # Closed
    BY <2>1, <2>3 DEF Handles
  <2> QED BY <2>2, <2>3
<1>9. DOMAIN client.promised \cap client.gone = {} /\ client.stale \in BOOLEAN
  BY DEF IInv, Clients
<1>10. crashes \in 0 .. MaxCrashes
  BY DEF IInv
<1> QED BY <1>2, <1>3, <1>4, <1>5, <1>6, <1>7, <1>8, <1>9, <1>10
        DEF TypeOK, Headers

-----------------------------------------------------------------------------
(* What it says of the database that is opened next.                       *)
RecoveredWell ==
  LET r == Recovered(disk)
  IN  /\ r \in Files
      /\ r.pages \in PageFiles
      /\ Clean(r.pages)
      /\ Good(r.pages, client)
      /\ Serviceable(r, FALSE, TRUE)

(* If no AddRecord was disturbed and no rebuild interrupted, it keeps      *)
(* every promise, and its index, free list and count are exact.            *)
LEMMA IInvRecovers ==
  ASSUME IInv, Dependable, Openable(disk)
  PROVE  RecoveredWell
<1> DEFINE r == Recovered(disk)
<1>1. Safe(disk, client, Undisturbed) /\ disk.dat
  BY IInvSafe DEF Openable
<1>2. Undisturbed /\ ~client.stale
  BY DEF Dependable
<1>3. Undisturbed = TRUE
  BY <1>2 DEF Undisturbed
<1>4. Safe(disk, client, TRUE)
  BY <1>1, <1>3
<1>5. CASE disk.header.journal_pending
  <2>1. Turned(disk, ReplayWrites(disk), client, TRUE, ReplayedHeader(disk),
               ScanFreeList(ReplayedPages(disk)))
    BY <1>4, <1>5, RecoverySettles
  <2>2. r = ApplyAll(disk, ReplayWrites(disk))
    BY <1>5 DEF Recovered
  <2> HIDE DEF r
  <2>3. Settled(r, client, TRUE)
    BY <2>1, <2>2 DEF Turned
  <2>4. \A s : Serviceable(ApplyAll(disk, ReplayWrites(disk)), s, TRUE)
    BY <1>4, <1>5, RecoveryPath
  <2>5. Serviceable(r, FALSE, TRUE)
    BY <2>2, <2>4
  <2> QED BY <2>3, <2>5 DEF RecoveredWell, Settled, Files, r
<1>6. CASE ~disk.header.journal_pending
  <2>1. Settled(disk, client, TRUE)
    BY <1>1, <1>4, <1>6, SafeSettled
  <2>2. r = disk
    BY <1>6 DEF Recovered
  <2> HIDE DEF r
  <2>3. Serviceable(r, FALSE, TRUE)
    BY <1>2, <2>1, <2>2 DEF Settled, Serviceable
  <2> QED BY <2>1, <2>2, <2>3 DEF RecoveredWell, Settled, Files, r
<1> QED BY <1>5, <1>6

(* It is consistent.                                                       *)
LEMMA IInvConsistent ==
  ASSUME PagesNeeded = 1, IInv
  PROVE  RecoveryConsistent
<1> SUFFICES ASSUME Dependable, Openable(disk)
             PROVE  Consistent(Recovered(disk))
  BY DEF RecoveryConsistent
<1> DEFINE r == Recovered(disk)
<1>1. /\ r.pages \in PageFiles /\ Clean(r.pages)
      /\ Serviceable(r, FALSE, TRUE)
  BY IInvRecovers DEF RecoveredWell
<1> HIDE DEF r
<1>2. Tiled(r.pages)
  BY <1>1, CleanTiled
<1> QED BY <1>1, <1>2 DEF Consistent, Serviceable, r

(* A page of the file with the contents promised for a record.             *)
LEMMA PromisedPage ==
  ASSUME PagesNeeded = 1, NEW pgs \in PageFiles, NEW p \in ActivePages(pgs),
         NEW id, NEW v, pgs[p].id = id, pgs[p].data = v
  PROVE  /\ p \in DOMAIN pgs /\ p \in Int /\ Run(p) = {p}
         /\ pgs[p] = RecordImage(id, p, v)[p]
<1>1. p \in DOMAIN pgs /\ p \in Int
  <2>1. p \in DOMAIN pgs
    BY DEF ActivePages
  <2>2. DOMAIN pgs \subseteq Nat
    BY FileOfPages
  <2> QED BY <2>1, <2>2
<1>2. Run(p) = {p}
      /\ RecordImage(id, p, v)[p] = [id |-> id, status |-> PS_ACTIVE, data |-> v]
  BY <1>1, OnePageRun
<1>3. pgs[p] \in Page
  BY <1>1 DEF PageFiles
<1>4. pgs[p] = [id |-> pgs[p].id, status |-> pgs[p].status, data |-> pgs[p].data]
  BY <1>3 DEF Page
<1>5. pgs[p].status = PS_ACTIVE
  BY DEF ActivePages
<1> QED BY <1>1, <1>2, <1>4, <1>5

(* The index finds every record promised, with its content, and none that  *)
(* is gone.                                                                *)
LEMMA IInvDurable ==
  ASSUME PagesNeeded = 1, IInv
  PROVE  Durable
<1> DEFINE r == Recovered(disk)
<1> SUFFICES ASSUME Dependable, Openable(disk)
             PROVE  /\ \A id \in DOMAIN client.promised :
                         /\ Found(r, id)
                         /\ FindRecordByID(r, id) = Whole(client.promised[id])
                    /\ \A id \in client.gone : ~Found(r, id)
  BY DEF Durable
<1>1. /\ r \in Files /\ r.pages \in PageFiles
      /\ Good(r.pages, client) /\ Serviceable(r, FALSE, TRUE)
  BY IInvRecovers DEF RecoveredWell
<1> HIDE DEF r
<1>2. IndexExact(r)
  BY <1>1 DEF Serviceable
<1>3. ASSUME NEW id \in DOMAIN client.promised
      PROVE  /\ Found(r, id)
             /\ FindRecordByID(r, id) = Whole(client.promised[id])
  <2>1. PICK p \in ActivePages(r.pages) :
          r.pages[p].id = id /\ r.pages[p].data = client.promised[id]
    BY <1>1 DEF Good, Promises
  <2>2. p \in DOMAIN r.pages /\ p \in Int /\ Run(p) = {p}
    BY <1>1, <2>1, PromisedPage
  <2>3. IndexHas(r, id) /\ IndexPage(r, id) = p
    BY <1>2, <2>1 DEF IndexExact
  <2>4. r.pages[p].status = PS_ACTIVE
    BY DEF ActivePages
  <2>5. Found(r, id)
    BY <2>1, <2>2, <2>3, <2>4 DEF Found
  <2>6. \A j \in 1 .. PagesNeeded : p + j - 1 = p
    BY <2>2
  <2>7. FindRecordByID(r, id) = [j \in 1 .. PagesNeeded |-> r.pages[p].data]
    BY <2>3, <2>6 DEF FindRecordByID
  <2> QED BY <2>1, <2>5, <2>7 DEF Whole
<1>4. ASSUME NEW id \in client.gone, Found(r, id)
      PROVE  FALSE
  <2> DEFINE p == IndexPage(r, id)
  <2>1. IndexHas(r, id)
    BY <1>4 DEF Found
  <2>2. p \in ActivePages(r.pages) /\ r.pages[p].id = id
    <3>1. LeafOK(r.index.leaf)
      <4>1. r.index.leaf \in Leaves
        BY <1>1 DEF Files, Indexes
      <4> QED BY <4>1, LeafParts
    <3>2. OneEach(r.index.leaf, ActivePages(r.pages), r.pages)
      BY <1>1, <1>2, <3>1, ExactOneEach DEF Good
    <3>3. PICK q \in ActivePages(r.pages) : r.pages[q].id = id
      BY <2>1, <3>2 DEF OneEach, IndexHas
    <3> QED BY <1>2, <3>3 DEF IndexExact
  <2> HIDE DEF p
  <2> QED BY <1>1, <2>2 DEF Good, Promises
<1> QED BY <1>3, <1>4

(* At any moment some file has the page of every record promised.          *)
LEMMA IInvNothingLost ==
  ASSUME PagesNeeded = 1, IInv
  PROVE  NothingLost
<1> DEFINE pgs == SurvivingPages(disk)
<1> SUFFICES ASSUME Undisturbed, NEW id \in DOMAIN client.promised
             PROVE  \E p \in ActivePages(pgs) :
                      \A q \in Run(p) :
                        q \in DOMAIN pgs
                        /\ pgs[q] = RecordImage(id, p, client.promised[id])[q]
  BY DEF NothingLost
<1>1. Safe(disk, client, Undisturbed)
  BY IInvSafe
<1>2. Good(pgs, client)
  BY <1>1 DEF Safe
<1>3. pgs \in PageFiles
  <2>1. disk \in Files
    BY <1>1 DEF Safe
  <2>2. disk.pages \in PageFiles /\ disk.tmp.pages \in PageFiles
    BY <2>1 DEF Files, Copies
  <2>3. disk.header.journal_pending => ReplayedPages(disk) \in PageFiles
    BY <1>1, <2>1, ReplayedIs DEF Safe
  <2> QED BY <2>2, <2>3 DEF SurvivingPages
<1> HIDE DEF pgs
<1>4. PICK p \in ActivePages(pgs) :
        pgs[p].id = id /\ pgs[p].data = client.promised[id]
  BY <1>2 DEF Good, Promises
<1>5. /\ p \in DOMAIN pgs /\ Run(p) = {p}
      /\ pgs[p] = RecordImage(id, p, client.promised[id])[p]
  BY <1>3, <1>4, PromisedPage
<1> QED BY <1>5

-----------------------------------------------------------------------------
(* Records of one page that are changed only in transactions: whatever     *)
(* calls are made, and wherever the process dies, in a call, in a write or *)
(* in recovery itself, and however often.                                  *)

(* The invariant that the four theorems below come from: every write still *)
(* to be made leaves files that can be recovered, and so does a crash in   *)
(* it; when the last one has been made, the handle and the files agree.    *)
THEOREM CrashInvariant ==
  ASSUME PagesNeeded = 1, ChangeOnlyInTxn
  PROVE  Spec => []IInv
<1>1. Init => IInv
  BY InitIInv
<1>2. IInv /\ [Next]_vars => IInv'
  BY NextIInv
<1> QED BY <1>1, <1>2, PTL DEF Spec

(* The files have the shape the code gives them, torn pages included.      *)
THEOREM FilesTypeOK ==
  ASSUME PagesNeeded = 1, ChangeOnlyInTxn
  PROVE  Spec => []TypeOK
<1>1. IInv => TypeOK
  BY IInvTypes
<1> QED BY <1>1, CrashInvariant, PTL

(* The next OpenDatabase produces a consistent database: a set journal     *)
(* flag means the journal repairs the files, a cleared one that they need  *)
(* no repair.                                                              *)
THEOREM RecoveryAlwaysConsistent ==
  ASSUME PagesNeeded = 1, ChangeOnlyInTxn
  PROVE  Spec => []RecoveryConsistent
<1>1. IInv => RecoveryConsistent
  BY IInvConsistent
<1> QED BY <1>1, CrashInvariant, PTL

(* ... in which every record is as the last call about it that returned    *)
(* left it.                                                                *)
THEOREM ReturnedCallsDurable ==
  ASSUME PagesNeeded = 1, ChangeOnlyInTxn
  PROVE  Spec => []Durable
<1>1. IInv => Durable
  BY IInvDurable
<1> QED BY <1>1, CrashInvariant, PTL

(* And at no moment is the only copy of such a record gone, not even while *)
(* CompactDatabase has removed the .DAT file.                              *)
THEOREM NoRecordEverLost ==
  ASSUME PagesNeeded = 1, ChangeOnlyInTxn
  PROVE  Spec => []NothingLost
<1>1. IInv => NothingLost
  BY IInvNothingLost
<1> QED BY <1>1, CrashInvariant, PTL

=============================================================================
