--------------------------- MODULE DbPagesProofs ---------------------------
(***************************************************************************)
(* Facts about the data pages of a file, for files of any size: what it    *)
(* takes for a write to keep the pages tiled by whole records, and that    *)
(* compaction moves runs without loss.                                     *)
(***************************************************************************)
EXTENDS DbPages, FiniteSetTheorems, TLAPS

(* The constants of the code that a proof has to know.                     *)
USE DEF PS_EMPTY, PS_ACTIVE, PS_CONTINUATION, FirstDataPage

(* The two halves of Tiled, in the form the proofs use them.               *)
LEMMA TiledRuns ==
  ASSUME NEW pgs, Tiled(pgs), NEW p \in ActivePages(pgs),
         NEW q \in Run(p), q # p
  PROVE  /\ q \in DOMAIN pgs
         /\ pgs[q] = [id |-> pgs[p].id, status |-> PS_CONTINUATION,
                      data |-> pgs[p].data]
         /\ pgs[q].status = PS_CONTINUATION
<1>1. /\ q \in DOMAIN pgs
      /\ pgs[q] = [id |-> pgs[p].id, status |-> PS_CONTINUATION,
                   data |-> pgs[p].data]
  BY DEF Tiled
<1> QED BY <1>1

(* Every continuation page belongs to the record of some active page.      *)
LEMMA TiledContinuations ==
  ASSUME NEW pgs, Tiled(pgs), NEW q \in DOMAIN pgs,
         pgs[q].status = PS_CONTINUATION
  PROVE  \E p \in ActivePages(pgs) : q \in Run(p)
BY DEF Tiled

(* A run of a record starts at its first page and has no other record in   *)
(* it, so the runs of two active pages have no page in common.             *)
LEMMA RunsDisjoint ==
  ASSUME NEW pgs, Tiled(pgs), DOMAIN pgs \subseteq Int,
         NEW p \in ActivePages(pgs), NEW q \in ActivePages(pgs), p # q
  PROVE  Run(p) \cap Run(q) = {}
<1>1. ASSUME NEW a \in ActivePages(pgs), NEW b \in ActivePages(pgs), a < b,
             NEW r \in Run(a) \cap Run(b)
      PROVE  FALSE
  <2>1. a \in Int /\ b \in Int /\ r \in Int
    BY <1>1 DEF ActivePages, Run
  <2>2. b \in Run(a) \ {a}
    BY <1>1, <2>1, PagesNeededAssumption DEF Run
  <2>3. pgs[b].status = PS_CONTINUATION
    BY <2>2, <1>1, TiledRuns
  <2> QED BY <2>3, <1>1 DEF ActivePages
<1>2. p \in Int /\ q \in Int
  BY DEF ActivePages
<1> QED BY <1>1, <1>2

(* A page is in its own run.                                               *)
LEMMA FirstInRun == \A p \in Int : p \in Run(p)
BY PagesNeededAssumption DEF Run

(* Writing a whole record where no other record's run is touched keeps the *)
(* pages tiled, and leaves the first page as the only new active page.     *)
LEMMA WriteRecordTiles ==
  ASSUME NEW pgs, Tiled(pgs), DOMAIN pgs \subseteq Int,
         NEW first \in Int, NEW id, NEW v,
         \A p \in ActivePages(pgs) : p # first => Run(p) \cap Run(first) = {}
  PROVE  LET new == Overlay(pgs, RecordImage(id, first, v))
         IN  /\ Tiled(new)
             /\ ActivePages(new) = ActivePages(pgs) \cup {first}
             /\ \A p \in ActivePages(pgs) : p # first => new[p] = pgs[p]
             /\ new[first] = [id |-> id, status |-> PS_ACTIVE, data |-> v]
             /\ EmptyPages(new) = EmptyPages(pgs) \ Run(first)
<1> DEFINE image == RecordImage(id, first, v)
           new == Overlay(pgs, image)
<1>1. /\ DOMAIN new = DOMAIN pgs \cup Run(first)
      /\ \A p \in Run(first) : new[p] = image[p]
      /\ \A p \in DOMAIN pgs \ Run(first) : new[p] = pgs[p]
  BY DEF Overlay, RecordImage
<1>2. \A p \in Run(first) :
        image[p] = [id     |-> id,
                    status |-> IF p = first THEN PS_ACTIVE ELSE PS_CONTINUATION,
                    data   |-> v]
  BY DEF RecordImage
<1> HIDE DEF new, image
<1>3. first \in Run(first)
  BY FirstInRun
<1>4. /\ new[first] = [id |-> id, status |-> PS_ACTIVE, data |-> v]
      /\ new[first].status = PS_ACTIVE
      /\ \A p \in Run(first) : p # first =>
           /\ new[p] = [id |-> id, status |-> PS_CONTINUATION, data |-> v]
           /\ new[p].status = PS_CONTINUATION
  <2>1. new[first] = [id |-> id, status |-> PS_ACTIVE, data |-> v]
    BY <1>1, <1>2, <1>3
  <2>2. ASSUME NEW p \in Run(first), p # first
        PROVE  new[p] = [id |-> id, status |-> PS_CONTINUATION, data |-> v]
    BY <1>1, <1>2, <2>2
  <2> QED BY <2>1, <2>2
<1>5. \A p \in ActivePages(pgs) : p # first =>
        /\ p \in DOMAIN pgs \ Run(first)
        /\ new[p] = pgs[p]
  BY <1>1, FirstInRun DEF ActivePages
<1>6. ActivePages(new) = ActivePages(pgs) \cup {first}
  <2>1. ASSUME NEW p \in ActivePages(new) PROVE p \in ActivePages(pgs) \cup {first}
    <3>1. p \in DOMAIN new /\ new[p].status = PS_ACTIVE
      BY <2>1 DEF ActivePages
    <3>2. CASE p \in Run(first)
      BY <3>1, <3>2, <1>4
    <3>3. CASE p \notin Run(first)
      BY <3>1, <3>3, <1>1 DEF ActivePages
    <3> QED BY <3>2, <3>3
  <2>2. ASSUME NEW p \in ActivePages(pgs), p # first PROVE p \in ActivePages(new)
    <3>1. p \in DOMAIN pgs /\ pgs[p].status = PS_ACTIVE
      BY DEF ActivePages
    <3>2. p \in DOMAIN new /\ new[p].status = PS_ACTIVE
      BY <3>1, <2>2, <1>1, <1>5
    <3> QED BY <3>2 DEF ActivePages
  <2>3. first \in ActivePages(new)
    BY <1>1, <1>3, <1>4 DEF ActivePages
  <2> QED BY <2>1, <2>2, <2>3
<1>7. ASSUME NEW p \in ActivePages(new), NEW q \in Run(p) \ {p}
      PROVE  /\ q \in DOMAIN new
             /\ new[q] = [id |-> new[p].id, status |-> PS_CONTINUATION,
                          data |-> new[p].data]
  <2>1. CASE p = first
    BY <2>1, <1>1, <1>3, <1>4
  <2>2. CASE p # first
    <3>1. p \in ActivePages(pgs) /\ q \in Run(p) /\ q # p
      BY <2>2, <1>6, <1>7
    <3>2. q \notin Run(first)
      BY <3>1, <2>2
    <3>3. /\ q \in DOMAIN pgs
          /\ pgs[q] = [id |-> pgs[p].id, status |-> PS_CONTINUATION,
                       data |-> pgs[p].data]
      BY <3>1, TiledRuns
    <3> QED BY <3>1, <3>2, <3>3, <2>2, <1>1, <1>5
  <2> QED BY <2>1, <2>2
<1>8. ASSUME NEW q \in DOMAIN new, new[q].status = PS_CONTINUATION
      PROVE  \E p \in ActivePages(new) : q \in Run(p)
  <2>1. CASE q \in Run(first)
    BY <2>1, <1>6
  <2>2. CASE q \notin Run(first)
    BY <2>2, <1>1, <1>6, <1>8, TiledContinuations
  <2> QED BY <2>1, <2>2
<1>9. Tiled(new)
  BY <1>7, <1>8 DEF Tiled
<1>10. EmptyPages(new) = EmptyPages(pgs) \ Run(first)
  BY <1>1, <1>4 DEF EmptyPages
<1> QED BY <1>4, <1>5, <1>6, <1>9, <1>10 DEF new, image

(* Emptying the run of an active page keeps the pages tiled and removes    *)
(* that page, and nothing else, from the active ones.                      *)
LEMMA EraseRecordTiles ==
  ASSUME NEW pgs, Tiled(pgs), DOMAIN pgs \subseteq Int,
         NEW first \in ActivePages(pgs)
  PROVE  LET new == Overlay(pgs, EmptyImage(first))
         IN  /\ Tiled(new)
             /\ DOMAIN new = DOMAIN pgs
             /\ ActivePages(new) = ActivePages(pgs) \ {first}
             /\ \A p \in ActivePages(new) : new[p] = pgs[p]
             /\ EmptyPages(new) = EmptyPages(pgs) \cup Run(first)
<1> DEFINE new == Overlay(pgs, EmptyImage(first))
<1>1. Run(first) \subseteq DOMAIN pgs
  BY TiledRuns DEF ActivePages
<1>2. /\ DOMAIN new = DOMAIN pgs
      /\ \A p \in Run(first) : new[p] = EmptyPage
      /\ \A p \in DOMAIN pgs \ Run(first) : new[p] = pgs[p]
  BY <1>1 DEF Overlay, EmptyImage
<1> HIDE DEF new
<1>3. EmptyPage.status = PS_EMPTY
  BY DEF EmptyPage
<1>4. first \in Run(first) /\ first \in Int
  BY FirstInRun DEF ActivePages
<1>5. \A p \in ActivePages(pgs) : p # first =>
        Run(p) \cap Run(first) = {} /\ p \notin Run(first)
  BY RunsDisjoint, FirstInRun DEF ActivePages
<1>6. ActivePages(new) = ActivePages(pgs) \ {first}
  BY <1>2, <1>3, <1>4, <1>5 DEF ActivePages
<1>7. \A p \in ActivePages(new) : new[p] = pgs[p]
  BY <1>2, <1>5, <1>6 DEF ActivePages
<1>8. EmptyPages(new) = EmptyPages(pgs) \cup Run(first)
  BY <1>1, <1>2, <1>3 DEF EmptyPages
<1>9. ASSUME NEW p \in ActivePages(new), NEW q \in Run(p) \ {p}
      PROVE  /\ q \in DOMAIN new
             /\ new[q] = [id |-> new[p].id, status |-> PS_CONTINUATION,
                          data |-> new[p].data]
  <2>1. p \in ActivePages(pgs) /\ q \notin Run(first)
    BY <1>5, <1>6, <1>9
  <2>2. /\ q \in DOMAIN pgs
        /\ pgs[q] = [id |-> pgs[p].id, status |-> PS_CONTINUATION,
                     data |-> pgs[p].data]
    BY <2>1, <1>9, TiledRuns
  <2> QED BY <2>1, <2>2, <1>2, <1>7
<1>10. ASSUME NEW q \in DOMAIN new, new[q].status = PS_CONTINUATION
       PROVE  \E p \in ActivePages(new) : q \in Run(p)
  <2>1. q \notin Run(first)
    BY <1>2, <1>3, <1>10
  <2> QED BY <2>1, <1>2, <1>6, <1>10, TiledContinuations
<1>11. Tiled(new)
  BY <1>9, <1>10 DEF Tiled
<1> QED BY <1>2, <1>6, <1>7, <1>8, <1>11 DEF new

-----------------------------------------------------------------------------
(* The ranks of the elements of a finite set of integers are the numbers   *)
(* from 0 on, in the order of the elements.                                *)
LEMMA RankOrder ==
  ASSUME NEW A, IsFiniteSet(A), A \subseteq Int,
         NEW p \in A, NEW q \in A, p < q
  PROVE  Rank(p, A) < Rank(q, A)
<1> DEFINE P == {r \in A : r < p}
           Q == {r \in A : r < q}
<1>1. IsFiniteSet(P) /\ IsFiniteSet(Q)
      /\ Cardinality(P) \in Nat /\ Cardinality(Q) \in Nat
  BY FS_Subset, FS_CardinalityType
<1>2. P \subseteq Q /\ p \in Q /\ p \notin P
  <2>1. p \in Int /\ q \in Int /\ \A r \in A : r \in Int
    OBVIOUS
  <2>2. ASSUME NEW r \in P PROVE r \in Q
    BY <2>1
  <2>3. p \in Q /\ p \notin P
    BY <2>1
  <2> QED BY <2>2, <2>3
<1>3. Cardinality(P) <= Cardinality(Q) /\ Cardinality(P) # Cardinality(Q)
  BY <1>1, <1>2, FS_Subset
<1> QED BY <1>1, <1>3 DEF Rank

(* The rank of an element is a number below the size of the set.           *)
LEMMA RankRange ==
  ASSUME NEW A, IsFiniteSet(A), A \subseteq Int, NEW p \in A
  PROVE  Rank(p, A) \in 0 .. (Cardinality(A) - 1)
<1> DEFINE P == {r \in A : r < p}
<1>1. IsFiniteSet(P) /\ Cardinality(P) \in Nat /\ Cardinality(A) \in Nat
  BY FS_Subset, FS_CardinalityType
<1>2. P \subseteq A /\ p \notin P /\ P # A
  <2>1. p \in Int
    OBVIOUS
  <2> QED BY <2>1
<1>3. Cardinality(P) <= Cardinality(A) /\ Cardinality(P) # Cardinality(A)
  BY <1>2, FS_Subset
<1> QED BY <1>1, <1>3 DEF Rank

(* Every number below the size of the set is the rank of some element.     *)
LEMMA RankOnto ==
  ASSUME NEW A, IsFiniteSet(A), A \subseteq Int,
         NEW i \in 0 .. (Cardinality(A) - 1)
  PROVE  \E p \in A : Rank(p, A) = i
<1> DEFINE ranks == 0 .. (Cardinality(A) - 1)
           f == [p \in A |-> Rank(p, A)]
<1>1. Cardinality(A) \in Nat
  BY FS_CardinalityType
<1>2. IsFiniteSet(ranks) /\ Cardinality(ranks) = Cardinality(A)
  BY <1>1, FS_Interval
<1>3. f \in [A -> ranks]
  BY RankRange
<1>4. \A p, q \in A : f[p] = f[q] => p = q
  <2>1. SUFFICES ASSUME NEW p \in A, NEW q \in A, p # q PROVE f[p] # f[q]
    OBVIOUS
  <2>2. p \in Int /\ q \in Int
    OBVIOUS
  <2>3. Rank(p, A) \in Int /\ Rank(q, A) \in Int
    <3>1. Rank(p, A) \in ranks /\ Rank(q, A) \in ranks
      BY RankRange
    <3> QED BY <3>1, <1>1
  <2>4. CASE p < q
    <3>1. Rank(p, A) < Rank(q, A)
      BY <2>4, RankOrder
    <3> QED BY <3>1, <2>3
  <2>5. CASE q < p
    <3>1. Rank(q, A) < Rank(p, A)
      BY <2>5, RankOrder
    <3> QED BY <3>1, <2>3
  <2> QED BY <2>1, <2>2, <2>4, <2>5
<1>5. f \in Injection(A, ranks)
  BY <1>3, <1>4 DEF Injection, IsInjective
<1>6. f \in Surjection(A, ranks)
  BY <1>2, <1>5, FS_Injection
<1>7. \E p \in A : f[p] = i
  BY <1>6 DEF Surjection
<1> QED BY <1>7

(* Multiples of the run length are at least that length apart.             *)
LEMMA NextMultiple ==
  ASSUME NEW n \in Nat, NEW r \in Nat, NEW s \in Nat, r < s
  PROVE  n * r + n <= n * s
<1> DEFINE d == s - (r + 1)
<1>1. d \in Nat /\ s = r + 1 + d
  OBVIOUS
<1>2. n * d \in Nat
  BY <1>1
<1>3. n * (r + 1 + d) = n * r + n + n * d
  BY <1>1
<1> QED BY <1>1, <1>2, <1>3

(* A number below a multiple of n lies in one of the blocks of length n.   *)
LEMMA Quotient ==
  ASSUME NEW n \in Nat \ {0}, NEW m \in Nat, NEW c \in Nat, m < n * c
  PROVE  \E i \in 0 .. (c - 1) : n * i <= m /\ m < n * i + n
<1>1. PICK i \in Nat : n * i <= m /\ m < n * i + n
  <2>1. m \div n \in Nat /\ n * (m \div n) <= m /\ m < n * (m \div n) + n
    OBVIOUS
  <2> QED BY <2>1
<1>2. n * c \in Nat /\ n * i \in Nat
  OBVIOUS
<1>3. c # i
  BY <1>1
<1>4. ~(c < i)
  <2>1. ASSUME c < i PROVE n * c + n <= n * i
    BY <2>1, NextMultiple
  <2> QED BY <2>1, <1>1, <1>2
<1> QED BY <1>1, <1>3, <1>4

-----------------------------------------------------------------------------
(* Compaction.  The runs of the active pages, moved to their places, cover *)
(* the data pages of the compacted file, each page once.  First: they lie  *)
(* inside that file.                                                       *)
LEMMA PlaceType ==
  ASSUME NEW A, IsFiniteSet(A), A \subseteq Int, NEW p \in A
  PROVE  /\ Rank(p, A) \in Nat
         /\ Place(p, A) \in Nat
         /\ Place(p, A) = 2 + PagesNeeded * Rank(p, A)
         /\ Run(Place(p, A)) \subseteq
              DataPages(FirstDataPage + PagesNeeded * Cardinality(A))
<1>1. Cardinality(A) \in Nat /\ PagesNeeded \in Nat
  BY FS_CardinalityType, PagesNeededAssumption
<1>2. PICK r \in Nat : r = Rank(p, A) /\ r < Cardinality(A)
  <2>1. Rank(p, A) \in 0 .. (Cardinality(A) - 1)
    BY RankRange
  <2>2. Rank(p, A) \in Nat /\ Rank(p, A) < Cardinality(A)
    BY <1>1, <2>1
  <2> QED BY <2>2
<1>3. PagesNeeded * r + PagesNeeded <= PagesNeeded * Cardinality(A)
  BY <1>1, <1>2, NextMultiple
<1>4. PagesNeeded * r \in Nat /\ PagesNeeded * Cardinality(A) \in Nat
  BY <1>1
<1>5. Place(p, A) = 2 + PagesNeeded * r
  BY <1>2 DEF Place
<1>6. Run(Place(p, A)) \subseteq DataPages(2 + PagesNeeded * Cardinality(A))
  BY <1>1, <1>3, <1>4, <1>5 DEF Run, DataPages
<1> QED BY <1>2, <1>4, <1>5, <1>6

(* No page of the compacted file is written for two records.               *)
LEMMA PlacesDisjoint ==
  ASSUME NEW A, IsFiniteSet(A), A \subseteq Int,
         NEW p \in A, NEW q \in A,
         NEW k \in Run(Place(p, A)), k \in Run(Place(q, A))
  PROVE  p = q
<1>1. ASSUME NEW a \in A, NEW b \in A, a < b,
             NEW j \in Run(Place(a, A)), j \in Run(Place(b, A))
      PROVE  FALSE
  <2>1. PICK r \in Nat, s \in Nat :
          /\ r = Rank(a, A) /\ s = Rank(b, A)
          /\ Place(a, A) = 2 + PagesNeeded * r
          /\ Place(b, A) = 2 + PagesNeeded * s
    BY PlaceType
  <2>2. r < s
    BY <1>1, <2>1, RankOrder
  <2>3. PagesNeeded * r + PagesNeeded <= PagesNeeded * s
    BY <2>2, NextMultiple, PagesNeededAssumption
  <2>4. /\ PagesNeeded \in Nat /\ PagesNeeded * r \in Nat
        /\ PagesNeeded * s \in Nat
    BY PagesNeededAssumption
  <2>5. j \in Int /\ j <= 1 + PagesNeeded * r + PagesNeeded
        /\ j >= 2 + PagesNeeded * s
    BY <1>1, <2>1, <2>4 DEF Run
  <2> QED BY <2>3, <2>4, <2>5
<1>2. p \in Int /\ q \in Int
  OBVIOUS
<1> QED BY <1>1, <1>2

(* Every page of the compacted file is written for some record.            *)
LEMMA PlacesCover ==
  ASSUME NEW A, IsFiniteSet(A), A \subseteq Int,
         NEW k \in DataPages(FirstDataPage + PagesNeeded * Cardinality(A))
  PROVE  \E p \in A : k \in Run(Place(p, A))
<1>1. Cardinality(A) \in Nat /\ PagesNeeded \in Nat \ {0}
  BY FS_CardinalityType, PagesNeededAssumption
<1>2. PagesNeeded * Cardinality(A) \in Nat
  BY <1>1
<1>3. k - 2 \in Nat /\ k - 2 < PagesNeeded * Cardinality(A) /\ k \in Int
  BY <1>2 DEF DataPages
<1>4. PICK i \in 0 .. (Cardinality(A) - 1) :
        PagesNeeded * i <= k - 2 /\ k - 2 < PagesNeeded * i + PagesNeeded
  BY <1>1, <1>3, Quotient
<1>5. PICK p \in A : Rank(p, A) = i
  BY RankOnto
<1>6. i \in Nat /\ PagesNeeded * i \in Nat
  BY <1>1
<1>7. Place(p, A) = 2 + PagesNeeded * i
  BY <1>5 DEF Place
<1>8. k \in Run(Place(p, A))
  BY <1>1, <1>3, <1>4, <1>6, <1>7 DEF Run
<1> QED BY <1>8

(* A file has finitely many active and finitely many empty pages.          *)
LEMMA ActiveFinite ==
  ASSUME NEW t \in Int, NEW pgs, DOMAIN pgs = DataPages(t)
  PROVE  /\ IsFiniteSet(ActivePages(pgs)) /\ ActivePages(pgs) \subseteq Int
         /\ IsFiniteSet(EmptyPages(pgs))
         /\ Cardinality(ActivePages(pgs)) \in Nat
         /\ Cardinality(EmptyPages(pgs)) \in Nat
<1>1. IsFiniteSet(DataPages(t)) /\ DataPages(t) \subseteq Int
  BY FS_Interval DEF DataPages
<1>2. ActivePages(pgs) \subseteq DataPages(t)
      /\ EmptyPages(pgs) \subseteq DataPages(t)
  BY DEF ActivePages, EmptyPages
<1> QED BY <1>1, <1>2, FS_Subset, FS_CardinalityType

(* What CompactDatabase writes: the page at distance j from Place(p) is    *)
(* the page at distance j from p, whatever page p is.                      *)
LEMMA CompactedPage ==
  ASSUME NEW t \in Int, NEW pgs, DOMAIN pgs = DataPages(t), Tiled(pgs),
         NEW p \in ActivePages(pgs),
         NEW k \in Run(Place(p, ActivePages(pgs)))
  PROVE  /\ k \in Int /\ Place(p, ActivePages(pgs)) \in Int
         /\ k \in DOMAIN CompactedPages(pgs)
         /\ p + (k - Place(p, ActivePages(pgs))) \in Run(p)
         /\ CompactedPages(pgs)[k] =
              pgs[p + (k - Place(p, ActivePages(pgs)))]
<1> DEFINE A == ActivePages(pgs)
           Mover == CHOOSE q \in A : k \in Run(Place(q, A))
<1>1. IsFiniteSet(A) /\ A \subseteq Int
  BY ActiveFinite
<1>2. /\ Place(p, A) \in Nat
      /\ k \in DataPages(CompactedTotal(pgs))
  BY <1>1, PlaceType DEF CompactedTotal
<1>3. k \in Int
  BY <1>2, PagesNeededAssumption DEF Run
<1>4. Mover \in A /\ k \in Run(Place(Mover, A))
  OBVIOUS
<1>5. Mover = p
  BY <1>1, <1>4, PlacesDisjoint
<1>6. CompactedPages(pgs)[k] = pgs[Mover + (k - Place(Mover, A))]
      /\ k \in DOMAIN CompactedPages(pgs)
  BY <1>2 DEF CompactedPages
<1>7. p + (k - Place(p, A)) \in Run(p)
  <2>1. p \in Int
    BY <1>1
  <2> QED BY <2>1, <1>2, <1>3, PagesNeededAssumption DEF Run
<1> HIDE DEF Mover
<1>8. CompactedPages(pgs)[k] = pgs[p + (k - Place(p, A))]
  BY <1>5, <1>6
<1> QED BY <1>2, <1>3, <1>6, <1>7, <1>8

(* A compacted file holds the same records at their new places, and no     *)
(* empty page.                                                             *)
THEOREM CompactionTiles ==
  ASSUME NEW t \in Int, NEW pgs \in [DataPages(t) -> Page], Tiled(pgs)
  PROVE  LET new == CompactedPages(pgs)
             A   == ActivePages(pgs)
         IN  /\ CompactedTotal(pgs) \in Nat
             /\ CompactedTotal(pgs) >= FirstDataPage
             /\ new \in [DataPages(CompactedTotal(pgs)) -> Page]
             /\ Tiled(new)
             /\ \A p \in A : /\ Place(p, A) \in ActivePages(new)
                             /\ new[Place(p, A)] = pgs[p]
             /\ \A k \in ActivePages(new) : \E p \in A : k = Place(p, A)
             /\ \A p, q \in A : Place(p, A) = Place(q, A) => p = q
<1> DEFINE new == CompactedPages(pgs)
           A   == ActivePages(pgs)
<1>1. /\ DOMAIN pgs = DataPages(t)
      /\ IsFiniteSet(A) /\ A \subseteq Int /\ Cardinality(A) \in Nat
  BY ActiveFinite
<1>2. /\ CompactedTotal(pgs) \in Nat
      /\ CompactedTotal(pgs) >= FirstDataPage
  <2>1. PagesNeeded * Cardinality(A) \in Nat
    BY <1>1, PagesNeededAssumption
  <2> QED BY <2>1 DEF CompactedTotal
<1>3. DOMAIN new = DataPages(CompactedTotal(pgs))
      /\ new = [k \in DOMAIN new |-> new[k]]
  BY DEF CompactedPages
<1>4. \A p \in A : /\ Place(p, A) \in Int
                   /\ Place(p, A) \in Run(Place(p, A))
  BY <1>1, PlaceType, FirstInRun
<1>5. \A k \in DOMAIN new : \E p \in A : k \in Run(Place(p, A))
  BY <1>1, <1>3, PlacesCover DEF CompactedTotal
<1>6. ASSUME NEW p \in A, NEW k \in Run(Place(p, A))
      PROVE  /\ k \in Int
             /\ k \in DOMAIN new
             /\ p + (k - Place(p, A)) \in Run(p)
             /\ new[k] = pgs[p + (k - Place(p, A))]
  BY <1>1, CompactedPage
<1> HIDE DEF new, A
<1>7. ASSUME NEW p \in A, NEW k \in Run(Place(p, A))
      PROVE  /\ new[k] \in Page
             /\ k = Place(p, A) => new[k] = pgs[p]
             /\ k # Place(p, A) =>
                  /\ new[k] = [id |-> pgs[p].id, status |-> PS_CONTINUATION,
                               data |-> pgs[p].data]
                  /\ new[k].status = PS_CONTINUATION
  <2>1. /\ p \in Int /\ k \in Int /\ Place(p, A) \in Int
        /\ p \in DOMAIN pgs
    BY <1>1, <1>4, <1>6 DEF A, ActivePages
  <2>2. CASE k = Place(p, A)
    <3>1. new[k] = pgs[p]
      BY <2>1, <2>2, <1>6
    <3> QED BY <3>1, <2>1, <2>2
  <2>3. CASE k # Place(p, A)
    <3> DEFINE q == p + (k - Place(p, A))
    <3>1. q \in Run(p) /\ q # p /\ new[k] = pgs[q]
      BY <2>1, <2>3, <1>6
    <3> HIDE DEF q
    <3>2. /\ q \in DOMAIN pgs
          /\ pgs[q] = [id |-> pgs[p].id, status |-> PS_CONTINUATION,
                       data |-> pgs[p].data]
          /\ pgs[q].status = PS_CONTINUATION
      BY <3>1, TiledRuns DEF A
    <3> QED BY <2>3, <3>1, <3>2
  <2> QED BY <2>2, <2>3
<1>8. new \in [DataPages(CompactedTotal(pgs)) -> Page]
  <2>1. \A k \in DOMAIN new : new[k] \in Page
    BY <1>5, <1>7
  <2> QED BY <2>1, <1>3
<1>9. \A p \in A : Place(p, A) \in ActivePages(new) /\ new[Place(p, A)] = pgs[p]
  <2>1. SUFFICES ASSUME NEW p \in A
                 PROVE  /\ Place(p, A) \in ActivePages(new)
                        /\ new[Place(p, A)] = pgs[p]
    OBVIOUS
  <2>2. Place(p, A) \in DOMAIN new /\ new[Place(p, A)] = pgs[p]
    BY <1>4, <1>6, <1>7
  <2>3. pgs[p].status = PS_ACTIVE
    BY DEF A, ActivePages
  <2> QED BY <2>2, <2>3 DEF ActivePages
<1>10. \A k \in ActivePages(new) : \E p \in A : k = Place(p, A)
  <2>1. SUFFICES ASSUME NEW k \in ActivePages(new)
                 PROVE  \E p \in A : k = Place(p, A)
    OBVIOUS
  <2>2. k \in DOMAIN new /\ new[k].status = PS_ACTIVE
    BY DEF ActivePages
  <2>3. PICK p \in A : k \in Run(Place(p, A))
    BY <2>2, <1>5
  <2>4. ASSUME k # Place(p, A) PROVE new[k].status = PS_CONTINUATION
    BY <2>3, <2>4, <1>7
  <2>5. k = Place(p, A)
    BY <2>2, <2>4
  <2> QED BY <2>5
<1>11. \A p, q \in A : Place(p, A) = Place(q, A) => p = q
  BY <1>1, <1>4, PlacesDisjoint
<1>12. Tiled(new)
  <2>1. ASSUME NEW k \in ActivePages(new), NEW j \in Run(k) \ {k}
        PROVE  /\ j \in DOMAIN new
               /\ new[j] = [id |-> new[k].id, status |-> PS_CONTINUATION,
                            data |-> new[k].data]
    <3>1. PICK p \in A : k = Place(p, A)
      BY <1>10
    <3>2. j \in Run(Place(p, A)) /\ j # Place(p, A)
      BY <3>1, <2>1
    <3> QED BY <3>1, <3>2, <1>6, <1>7, <1>9
  <2>2. ASSUME NEW j \in DOMAIN new, new[j].status = PS_CONTINUATION
        PROVE  \E k \in ActivePages(new) : j \in Run(k)
    BY <1>5, <1>9
  <2> QED BY <2>1, <2>2 DEF Tiled
<1> QED BY <1>2, <1>8, <1>9, <1>10, <1>11, <1>12 DEF new, A

-----------------------------------------------------------------------------
(* What the scans return: RebuildIndex indexes active pages under their id. *)
LEMMA ScanIndexSound ==
  ASSUME NEW pgs, NEW id \in DOMAIN ScanIndex(pgs)
  PROVE  /\ ScanIndex(pgs)[id] \in ActivePages(pgs)
         /\ pgs[ScanIndex(pgs)[id]].id = id
<1> DEFINE kept == FirstOf(LeafKeys, ActivePages(pgs))
<1>1. kept \subseteq ActivePages(pgs)
  BY DEF FirstOf
<1>2. \E p \in kept : pgs[p].id = id
  BY DEF ScanIndex
<1>3. ScanIndex(pgs)[id] = CHOOSE p \in kept : pgs[p].id = id
  BY DEF ScanIndex
<1> HIDE DEF kept
<1>4. ScanIndex(pgs)[id] \in kept /\ pgs[ScanIndex(pgs)[id]].id = id
  BY <1>2, <1>3
<1> QED BY <1>1, <1>4

(* UpdateFreePages counts the empty pages and lists only such pages.       *)
LEMMA ScanFreePagesSound ==
  ASSUME NEW t \in Int, NEW pgs, DOMAIN pgs = DataPages(t)
  PROVE  /\ ScanFreePages(pgs) =
              [free_page_count |-> ScanFreePages(pgs).free_page_count,
               listed          |-> ScanFreePages(pgs).listed]
         /\ ScanFreePages(pgs).free_page_count = Cardinality(EmptyPages(pgs))
         /\ ScanFreePages(pgs).free_page_count \in Nat
         /\ ScanFreePages(pgs).listed \subseteq EmptyPages(pgs)
         /\ ScanFreePages(pgs).listed \subseteq DataPages(t)
<1>1. Cardinality(EmptyPages(pgs)) \in Nat
  BY ActiveFinite
<1>2. FirstOf(MaxFreePages, EmptyPages(pgs)) \subseteq EmptyPages(pgs)
  BY DEF FirstOf
<1>3. EmptyPages(pgs) \subseteq DataPages(t)
  BY DEF EmptyPages
<1> QED BY <1>1, <1>2, <1>3 DEF ScanFreePages

(* The images that AddRecord and DeleteRecord write consist of pages.      *)
LEMMA ImagesTyped ==
  ASSUME NEW first \in Int, NEW id \in Nat, NEW v \in Data
  PROVE  /\ RecordImage(id, first, v) \in [Run(first) -> Page]
         /\ EmptyImage(first) \in [Run(first) -> Page]
<1>1. \A s \in {PS_ACTIVE, PS_CONTINUATION} :
        [id |-> id, status |-> s, data |-> v] \in Page
  BY DEF Page
<1>2. EmptyPage \in Page
  BY DEF EmptyPage, Page
<1> QED BY <1>1, <1>2 DEF RecordImage, EmptyImage

(* Pages written over pages are pages.                                     *)
LEMMA OverlayTyped ==
  ASSUME NEW S, NEW T, NEW pgs \in [S -> Page], NEW image \in [T -> Page]
  PROVE  Overlay(pgs, image) \in [S \cup T -> Page]
BY DEF Overlay
=============================================================================
