------------------------- MODULE VdbDiskPathProofs -------------------------
(***************************************************************************)
(* Safe ways from one state of the files to another, write by write: the   *)
(* process may die before, after and in each write, and what is left can   *)
(* be recovered.  First what each single write does to the files, then     *)
(* what replaying the journal makes of them, then the parts the calls are  *)
(* made of: taking a page from the free list, writing a record through the *)
(* journal, rebuilding the index, recovery.                                *)
(*                                                                         *)
(* `ok` stands for: no AddRecord has found the index full, or issued the   *)
(* id of a record on disk.  The shape of the files does not depend on it;  *)
(* what they hold does.                                                    *)
(***************************************************************************)
EXTENDS VdbDisk, LeafProofs, DbPagesProofs

(* The sets of values the files hold.                                      *)
Headers == [record_count : Int, next_record_id : Nat \ {0},
            journal_pending : BOOLEAN]

FreeLists == [free_page_count : Int, list : Seq(DataPages(MaxPages))]

PageFiles == UNION {[DataPages(t) -> Page] : t \in FirstDataPage .. MaxPages}

Leaves ==
  {leaf \in UNION {[S -> Seq(DataPages(MaxPages))] : S \in SUBSET (1 .. MaxRecordId)} :
     LeafOK(leaf)}

Indexes == [size : 0 .. 2, leaf : Leaves]

Entries == [page : DataPages(MaxPages), image : Page, valid : BOOLEAN]

Copies == [pages : PageFiles] \cup [header : Headers, pages : PageFiles]

Files == [dat : BOOLEAN, header : Headers, free_list : FreeLists,
          pages : PageFiles, index : Indexes, journal : Seq(Entries),
          tmp : Copies]

Handles == {Closed} \cup [open : {TRUE}, header : Headers, free_list : FreeLists]

Clients ==
  {cl \in [promised : UNION {[S -> Data] : S \in SUBSET (1 .. MaxRecordId)},
           gone : SUBSET (1 .. MaxRecordId), stale : BOOLEAN] :
     DOMAIN cl.promised \cap cl.gone = {}}

(* Pages that hold records of one page and no half-written ones, and what  *)
(* makes them good: no two active pages with one id, no more of them than  *)
(* the root leaf has room for, and every promise to the client kept.       *)
Clean(pgs) ==
  \A p \in DOMAIN pgs :
    /\ pgs[p].status # PS_CONTINUATION
    /\ pgs[p].status = PS_ACTIVE => pgs[p].id \in 1 .. MaxRecordId

Unique(pgs) ==
  \A p, q \in ActivePages(pgs) : pgs[p].id = pgs[q].id => p = q

Room(n) == n = 0 \/ (n <= BT_MAX_KEYS /\ 7 + 14 * n <= BT_PAGE_SIZE)

Promises(pgs, cl) ==
  /\ \A id \in DOMAIN cl.promised :
       \E p \in ActivePages(pgs) :
         pgs[p].id = id /\ pgs[p].data = cl.promised[id]
  /\ \A id \in cl.gone : \A p \in ActivePages(pgs) : pgs[p].id # id

Good(pgs, cl) ==
  /\ Unique(pgs)
  /\ Room(Cardinality(ActivePages(pgs)))
  /\ Promises(pgs, cl)

(* What a handle reads from the files names pages of the file. While no    *)
(* AddRecord was disturbed, it is also exact.                              *)
ListInFile(d) ==
  \A i \in DOMAIN d.free_list.list : d.free_list.list[i] \in DOMAIN d.pages

IndexInFile(d) ==
  d.index.size = 2 =>
    \A k \in DOMAIN d.index.leaf : \A i \in DOMAIN d.index.leaf[k] :
      d.index.leaf[k][i] \in DOMAIN d.pages

JournalInFile(d) ==
  \A i \in DOMAIN d.journal : d.journal[i].page \in DOMAIN d.pages

Serviceable(d, stale, ok) ==
  /\ ListInFile(d)
  /\ ~stale => IndexInFile(d)
  /\ ok => /\ FreeListExact(d)
           /\ d.header.record_count = Cardinality(ActivePages(d.pages))
           /\ ~stale => IndexExact(d)

(* Files the process may die with: in a transaction the pages are what the *)
(* journal makes of them, while compaction has no .DAT file they are those *)
(* of the copy, and otherwise the files serve as they are.                 *)
Safe(d, cl, ok) ==
  /\ d \in Files
  /\ d.header.journal_pending => d.dat /\ JournalInFile(d)
  /\ Clean(SurvivingPages(d))
  /\ ok => Good(SurvivingPages(d), cl)
  /\ d.dat /\ ~d.header.journal_pending => Serviceable(d, cl.stale, ok)

States(d, writes) ==
  LET after[n \in 0 .. Len(writes)] ==
        IF n = 0 THEN d ELSE Apply(after[n - 1], writes[n])
  IN  after

(* The process may die between any two of the writes and in each of them.  *)
SafePath(d, writes, cl, ok) ==
  /\ \A n \in 0 .. Len(writes) : Safe(States(d, writes)[n], cl, ok)
  /\ \A n \in 0 .. (Len(writes) - 1) :
       \A t \in TornBy(States(d, writes)[n], writes[n + 1]) : Safe(t, cl, ok)

-----------------------------------------------------------------------------
(* The files after each of the writes.                                     *)

(* The recursive definition has a solution.                                *)
LEMMA StatesAre ==
  ASSUME NEW d, NEW ws, Len(ws) \in Nat
  PROVE  States(d, ws) =
           [n \in 0 .. Len(ws) |->
              IF n = 0 THEN d ELSE Apply(States(d, ws)[n - 1], ws[n])]
<1> DEFINE N == Len(ws)
           Is(g, m) == g = [n \in 0 .. m |->
                              IF n = 0 THEN d ELSE Apply(g[n - 1], ws[n])]
           T == {m \in 0 .. N : ~ \E g : Is(g, m)}
<1>1. CASE T # {}
  <2>1. PICK m \in T : \A i \in T : m <= i
    <3>1. T \subseteq Nat
      OBVIOUS
    <3> QED BY <1>1, <3>1, LeastNatural
  <2>2. CASE m = 0
    <3> DEFINE g == [n \in 0 .. 0 |-> d]
    <3>1. g = [n \in 0 .. 0 |-> IF n = 0 THEN d ELSE Apply(g[n - 1], ws[n])]
      OBVIOUS
    <3>2. Is(g, m)
      BY <2>2, <3>1
    <3> QED BY <2>1, <3>2
  <2>3. CASE m # 0
    <3>1. m - 1 \in 0 .. N /\ m - 1 \notin T
      BY <2>1, <2>3, SMTT(30)
    <3>2. PICK g : Is(g, m - 1)
      BY <3>1
    <3> DEFINE h == [n \in 0 .. m |->
                       IF n = m THEN Apply(g[m - 1], ws[m]) ELSE g[n]]
    <3>3. ASSUME NEW n \in 0 .. m
          PROVE  h[n] = IF n = 0 THEN d ELSE Apply(h[n - 1], ws[n])
      <4>1. CASE n = m
        BY <2>3, <4>1
      <4>2. CASE n # m
        <5>1. n \in 0 .. (m - 1)
          BY <2>1, <4>2
        <5>2. g[n] = IF n = 0 THEN d ELSE Apply(g[n - 1], ws[n])
          BY <3>2, <5>1
        <5>3. h[n] = g[n] /\ (n # 0 => h[n - 1] = g[n - 1])
          BY <4>2, <5>1
        <5> QED BY <5>2, <5>3
      <4> QED BY <4>1, <4>2
    <3>4. Is(h, m)
      BY <3>3
    <3> QED BY <2>1, <3>4
  <2> QED BY <2>2, <2>3
<1>2. CASE T = {}
  <2>1. \E g : Is(g, N)
    BY <1>2
  <2>2. States(d, ws) = CHOOSE g : Is(g, N)
    BY DEF States
  <2> HIDE DEF Is
  <2>3. Is(States(d, ws), N)
    BY <2>1, <2>2
  <2> QED BY <2>3 DEF Is
<1> QED BY <1>1, <1>2

(* State by state; the last is what ApplyAll computes.                     *)
LEMMA StateSteps ==
  ASSUME NEW d, NEW ws, Len(ws) \in Nat
  PROVE  /\ States(d, ws)[0] = d
         /\ \A n \in 1 .. Len(ws) :
              States(d, ws)[n] = Apply(States(d, ws)[n - 1], ws[n])
         /\ ApplyAll(d, ws) = States(d, ws)[Len(ws)]
<1>1. ApplyAll(d, ws) = States(d, ws)[Len(ws)]
  BY DEF ApplyAll, States
<1>2. States(d, ws)[0] = d
  BY StatesAre
<1>3. ASSUME NEW n \in 1 .. Len(ws)
      PROVE  States(d, ws)[n] = Apply(States(d, ws)[n - 1], ws[n])
  BY StatesAre
<1> QED BY <1>1, <1>2, <1>3

-----------------------------------------------------------------------------
(* Sequences of writes: they are made one after the other.                 *)
IsSeq(s) == s \in Seq(ToSet(s))

(* A sequence over any set is one over the set of its elements.            *)
LEMMA SeqIsSeq ==
  ASSUME NEW S, NEW s \in Seq(S)
  PROVE  IsSeq(s)
<1>1. \A i \in 1 .. Len(s) : s[i] \in ToSet(s)
  BY DEF ToSet
<1>2. s = [i \in 1 .. Len(s) |-> s[i]] /\ Len(s) \in Nat
  OBVIOUS
<1> HIDE DEF IsSeq
<1>3. s \in [1 .. Len(s) -> ToSet(s)]
  BY <1>1, <1>2
<1> QED BY <1>2, <1>3 DEF IsSeq

(* The length of a sequence of writes, and when it is empty.               *)
LEMMA SeqFacts ==
  ASSUME NEW s, IsSeq(s)
  PROVE  /\ Len(s) \in Nat /\ DOMAIN s = 1 .. Len(s)
         /\ s = <<>> <=> Len(s) = 0
BY DEF IsSeq

(* The elements of u come first in u \o v, then those of v.                *)
LEMMA ConcatFacts ==
  ASSUME NEW u, IsSeq(u), NEW v, IsSeq(v)
  PROVE  /\ IsSeq(u \o v) /\ Len(u \o v) = Len(u) + Len(v)
         /\ Len(u) \in Nat /\ Len(v) \in Nat
         /\ \A i \in 1 .. Len(u) : (u \o v)[i] = u[i]
         /\ \A i \in 1 .. Len(v) : (u \o v)[Len(u) + i] = v[i]
<1> DEFINE S == ToSet(u) \cup ToSet(v)
<1>1. u \in Seq(S)
  <2>1. u \in [1 .. Len(u) -> ToSet(u)] /\ Len(u) \in Nat
    BY DEF IsSeq
  <2>2. u \in [1 .. Len(u) -> S]
    BY <2>1
  <2> QED BY <2>1, <2>2
<1>2. v \in Seq(S)
  <2>1. v \in [1 .. Len(v) -> ToSet(v)] /\ Len(v) \in Nat
    BY DEF IsSeq
  <2>2. v \in [1 .. Len(v) -> S]
    BY <2>1
  <2> QED BY <2>1, <2>2
<1> HIDE DEF S
<1>3. u \o v \in Seq(S)
  BY <1>1, <1>2
<1>4. IsSeq(u \o v)
  BY <1>3, SeqIsSeq
<1> QED BY <1>1, <1>2, <1>4

Joined(u, v, w) ==
  /\ IsSeq(w) /\ Len(w) = Len(u) + Len(v)
  /\ Len(u) \in Nat /\ Len(v) \in Nat
  /\ \A i \in 1 .. Len(u) : w[i] = u[i]
  /\ \A i \in 1 .. Len(v) : w[Len(u) + i] = v[i]

(* The same, under a name.                                                 *)
LEMMA ConcatJoins ==
  ASSUME NEW u, IsSeq(u), NEW v, IsSeq(v)
  PROVE  Joined(u, v, u \o v)
<1> DEFINE w == u \o v
<1>1. IsSeq(w) /\ Len(w) = Len(u) + Len(v)
  BY ConcatFacts
<1>2. Len(u) \in Nat /\ Len(v) \in Nat
  BY ConcatFacts
<1>3. \A i \in 1 .. Len(u) : w[i] = u[i]
  BY ConcatFacts
<1>4. \A i \in 1 .. Len(v) : w[Len(u) + i] = v[i]
  BY ConcatFacts
<1> HIDE DEF w
<1>5. Joined(u, v, w)
  BY <1>1, <1>2, <1>3, <1>4 DEF Joined
<1> QED BY <1>5 DEF w

(* One write.                                                              *)
LEMMA OneFacts ==
  ASSUME NEW w
  PROVE  IsSeq(<<w>>) /\ Len(<<w>>) = 1 /\ <<w>>[1] = w
<1>1. <<w>> \in Seq({w})
  OBVIOUS
<1> QED BY <1>1, SeqIsSeq

(* No write.                                                               *)
LEMMA NoneFacts == IsSeq(<<>>) /\ Len(<<>>) = 0
<1>1. <<>> \in Seq({})
  OBVIOUS
<1> QED BY <1>1, SeqIsSeq

(* The writes of v follow those of u.                                      *)
LEMMA StatesConcat ==
  ASSUME NEW d, NEW u, IsSeq(u), NEW v, IsSeq(v)
  PROVE  /\ \A n \in 0 .. Len(u) : States(d, u \o v)[n] = States(d, u)[n]
         /\ \A n \in 0 .. Len(v) :
              States(d, u \o v)[Len(u) + n] = States(ApplyAll(d, u), v)[n]
<1> DEFINE w == u \o v
           e == ApplyAll(d, u)
<1>1. /\ IsSeq(w) /\ Len(w) = Len(u) + Len(v)
      /\ Len(u) \in Nat /\ Len(v) \in Nat /\ Len(w) \in Nat
      /\ \A i \in 1 .. Len(u) : w[i] = u[i]
      /\ \A i \in 1 .. Len(v) : w[Len(u) + i] = v[i]
  <2>1. Joined(u, v, w)
    BY ConcatJoins
  <2> HIDE DEF w
  <2>2. IsSeq(w)
    BY <2>1 DEF Joined
  <2>3. Len(w) \in Nat
    BY <2>2, SeqFacts
  <2> QED BY <2>1, <2>3 DEF Joined
<1> HIDE DEF w
<1>a. /\ States(d, w)[0] = d
      /\ \A n \in 1 .. Len(w) :
           States(d, w)[n] = Apply(States(d, w)[n - 1], w[n])
  <2>1. Len(w) \in Nat
    BY <1>1
  <2> QED BY <2>1, StateSteps
<1>2. \A n \in 0 .. Len(u) : States(d, w)[n] = States(d, u)[n]
  <2> DEFINE T == {n \in 0 .. Len(u) : States(d, w)[n] # States(d, u)[n]}
  <2>1. SUFFICES ASSUME T # {} PROVE FALSE
    OBVIOUS
  <2>2. PICK m \in T : \A i \in T : m <= i
    <3>1. T \subseteq Nat
      OBVIOUS
    <3> QED BY <2>1, <3>1, LeastNatural
  <2>3. m # 0
    BY <1>1, <2>2, StateSteps
  <2>4. m - 1 \in 0 .. Len(u) /\ m - 1 \notin T /\ m \in 1 .. Len(u)
    BY <1>1, <2>2, <2>3
  <2>5. States(d, w)[m - 1] = States(d, u)[m - 1]
    BY <2>4
  <2>6. m \in 1 .. Len(w) /\ w[m] = u[m]
    BY <1>1, <2>4
  <2>7. States(d, w)[m] = Apply(States(d, w)[m - 1], w[m])
    BY <1>a, <2>6, Zenon
  <2>8. States(d, u)[m] = Apply(States(d, u)[m - 1], u[m])
    BY <1>1, <2>4, StateSteps
  <2> QED BY <2>2, <2>5, <2>6, <2>7, <2>8
<1>3. \A n \in 0 .. Len(v) : States(d, w)[Len(u) + n] = States(e, v)[n]
  <2> HIDE DEF e
  <2> DEFINE T == {n \in 0 .. Len(v) :
                     States(d, w)[Len(u) + n] # States(e, v)[n]}
  <2>1. SUFFICES ASSUME T # {} PROVE FALSE
    OBVIOUS
  <2>2. PICK m \in T : \A i \in T : m <= i
    <3>1. T \subseteq Nat
      OBVIOUS
    <3> QED BY <2>1, <3>1, LeastNatural
  <2>3. m # 0
    <3>1. Len(u) \in 0 .. Len(u) /\ Len(u) + 0 = Len(u)
      BY <1>1
    <3>2. States(d, w)[Len(u) + 0] = e
      BY <1>1, <1>2, <3>1, StateSteps DEF e
    <3>3. States(e, v)[0] = e
      BY <1>1, StateSteps
    <3> QED BY <2>2, <3>2, <3>3
  <2>4. m - 1 \in 0 .. Len(v) /\ m - 1 \notin T /\ m \in 1 .. Len(v)
    BY <1>1, <2>2, <2>3
  <2>5. States(d, w)[Len(u) + (m - 1)] = States(e, v)[m - 1]
    BY <2>4
  <2>6. Len(u) + m \in 1 .. Len(w) /\ w[Len(u) + m] = v[m]
        /\ (Len(u) + m) - 1 = Len(u) + (m - 1)
    BY <1>1, <2>4
  <2>7. States(d, w)[Len(u) + m]
          = Apply(States(d, w)[Len(u) + (m - 1)], v[m])
    BY <1>a, <2>6, Zenon
  <2>8. States(e, v)[m] = Apply(States(e, v)[m - 1], v[m])
    BY <1>1, <2>4, StateSteps
  <2> QED BY <2>2, <2>5, <2>7, <2>8
<1> QED BY <1>2, <1>3 DEF w, e

(* Taking the first write off the queue and making it is one step on.      *)
LEMMA StatesTail ==
  ASSUME NEW d, NEW ws, IsSeq(ws), ws # <<>>
  PROVE  /\ IsSeq(Tail(ws)) /\ Len(Tail(ws)) = Len(ws) - 1
         /\ Len(ws) \in Nat \ {0} /\ Head(ws) = ws[1]
         /\ \A i \in 1 .. (Len(ws) - 1) : Tail(ws)[i] = ws[i + 1]
         /\ States(d, ws)[1] = Apply(d, Head(ws))
         /\ \A n \in 0 .. (Len(ws) - 1) :
              States(Apply(d, Head(ws)), Tail(ws))[n] = States(d, ws)[n + 1]
         /\ ApplyAll(Apply(d, Head(ws)), Tail(ws)) = ApplyAll(d, ws)
<1> DEFINE u == <<Head(ws)>>
           v == Tail(ws)
<1>1. /\ Tail(ws) \in Seq(ToSet(ws)) /\ Len(Tail(ws)) = Len(ws) - 1
      /\ Len(ws) \in Nat \ {0} /\ Head(ws) = ws[1]
      /\ \A i \in 1 .. (Len(ws) - 1) : Tail(ws)[i] = ws[i + 1]
  BY DEF IsSeq
<1>2. IsSeq(v) /\ IsSeq(u) /\ Len(u) = 1 /\ u[1] = Head(ws)
  BY <1>1, SeqIsSeq, OneFacts
<1>3. u \o v = ws
  BY <1>1 DEF IsSeq
<1>4. ApplyAll(d, u) = Apply(d, Head(ws)) /\ States(d, u)[1] = Apply(d, Head(ws))
  <2>1. Len(u) \in Nat /\ 1 \in 1 .. Len(u) /\ 1 - 1 = 0
    BY <1>2
  <2>2. /\ States(d, u)[0] = d
        /\ States(d, u)[1] = Apply(States(d, u)[1 - 1], u[1])
        /\ ApplyAll(d, u) = States(d, u)[Len(u)]
    <3>1. Len(u) \in Nat
      BY <2>1
    <3>2. /\ States(d, u)[0] = d
          /\ \A n \in 1 .. Len(u) :
               States(d, u)[n] = Apply(States(d, u)[n - 1], u[n])
          /\ ApplyAll(d, u) = States(d, u)[Len(u)]
      BY <3>1, StateSteps
    <3> QED BY <2>1, <3>2
  <2> QED BY <1>2, <2>1, <2>2
<1> HIDE DEF u, v
<1>5. /\ \A n \in 0 .. 1 : States(d, ws)[n] = States(d, u)[n]
      /\ \A n \in 0 .. Len(v) :
           States(d, ws)[1 + n] = States(Apply(d, Head(ws)), v)[n]
  <2>1. /\ \A n \in 0 .. Len(u) : States(d, u \o v)[n] = States(d, u)[n]
        /\ \A n \in 0 .. Len(v) :
             States(d, u \o v)[Len(u) + n] = States(ApplyAll(d, u), v)[n]
    <3>1. IsSeq(u) /\ IsSeq(v)
      BY <1>2
    <3> QED BY <3>1, StatesConcat
  <2> QED BY <1>2, <1>3, <1>4, <2>1
<1>6. States(d, ws)[1] = Apply(d, Head(ws))
  BY <1>4, <1>5
<1>7. Len(v) = Len(ws) - 1 /\ Len(v) \in Nat
  BY <1>1 DEF v
<1>8. \A n \in 0 .. (Len(ws) - 1) :
        States(Apply(d, Head(ws)), v)[n] = States(d, ws)[n + 1]
  <2>1. \A n \in Nat : 1 + n = n + 1
    OBVIOUS
  <2> QED BY <1>5, <1>7, <2>1
<1>9. ApplyAll(Apply(d, Head(ws)), v) = ApplyAll(d, ws)
  <2>1. ApplyAll(Apply(d, Head(ws)), v)
          = States(Apply(d, Head(ws)), v)[Len(v)]
    BY <1>7, StateSteps
  <2>2. ApplyAll(d, ws) = States(d, ws)[Len(ws)]
    BY <1>1, StateSteps
  <2>3. Len(v) \in 0 .. (Len(ws) - 1) /\ Len(v) + 1 = Len(ws)
    BY <1>1, <1>7
  <2> QED BY <1>8, <2>1, <2>2, <2>3
<1> QED BY <1>1, <1>2, <1>6, <1>8, <1>9 DEF v

-----------------------------------------------------------------------------
(* Safe ways from one state of the files to another.                       *)
Moves(d, ws, e, cl, ok) ==
  IsSeq(ws) /\ e = ApplyAll(d, ws) /\ SafePath(d, ws, cl, ok)

TornSafe(d, w, cl, ok) == \A t \in TornBy(d, w) : Safe(t, cl, ok)

(* Making no write is safe with safe files ...                             *)
LEMMA MovesNone ==
  ASSUME NEW d, NEW cl, NEW ok, Safe(d, cl, ok)
  PROVE  Moves(d, <<>>, d, cl, ok)
<1>1. IsSeq(<<>>) /\ Len(<<>>) = 0 /\ 0 \in Nat /\ 0 .. 0 = {0} /\ 0 .. (0 - 1) = {}
  BY NoneFacts
<1>2. States(d, <<>>)[0] = d /\ ApplyAll(d, <<>>) = States(d, <<>>)[0]
  <2>1. Len(<<>>) \in Nat
    BY <1>1
  <2>2. /\ States(d, <<>>)[0] = d
        /\ ApplyAll(d, <<>>) = States(d, <<>>)[Len(<<>>)]
    BY <2>1, StateSteps
  <2> QED BY <1>1, <2>2, Zenon
<1>3. SafePath(d, <<>>, cl, ok)
  <2>1. \A n \in 0 .. Len(<<>>) : Safe(States(d, <<>>)[n], cl, ok)
    BY <1>1, <1>2, Zenon
  <2>2. \A n \in 0 .. (Len(<<>>) - 1) :
          \A t \in TornBy(States(d, <<>>)[n], <<>>[n + 1]) : Safe(t, cl, ok)
    BY <1>1, Zenon
  <2> QED BY <2>1, <2>2, Zenon DEF SafePath
<1> QED BY <1>1, <1>2, <1>3, Zenon DEF Moves

(* ... a single one if the files are safe before it, after it and with it  *)
(* torn ...                                                                *)
LEMMA MovesOne ==
  ASSUME NEW d, NEW w, NEW cl, NEW ok, Safe(d, cl, ok),
         Safe(Apply(d, w), cl, ok), TornSafe(d, w, cl, ok)
  PROVE  Moves(d, <<w>>, Apply(d, w), cl, ok)
<1> DEFINE ws == <<w>>
<1>1. IsSeq(ws) /\ Len(ws) = 1 /\ ws[1] = w
  BY OneFacts
<1> HIDE DEF ws
<1>2. /\ States(d, ws)[0] = d
      /\ States(d, ws)[1] = Apply(d, w)
      /\ ApplyAll(d, ws) = Apply(d, w)
  <2>1. Len(ws) \in Nat
    BY <1>1
  <2>2. /\ States(d, ws)[0] = d
        /\ \A n \in 1 .. Len(ws) :
             States(d, ws)[n] = Apply(States(d, ws)[n - 1], ws[n])
        /\ ApplyAll(d, ws) = States(d, ws)[Len(ws)]
    BY <2>1, StateSteps
  <2>3. 1 \in 1 .. 1 /\ 1 - 1 = 0
    OBVIOUS
  <2> QED BY <1>1, <2>2, <2>3
<1>3. SafePath(d, ws, cl, ok)
  <2>1. ASSUME NEW n \in 0 .. 1 PROVE Safe(States(d, ws)[n], cl, ok)
    <3>1. n = 0 \/ n = 1
      OBVIOUS
    <3> QED BY <1>2, <3>1
  <2>2. ASSUME NEW n \in 0 .. 0,
               NEW t \in TornBy(States(d, ws)[n], ws[n + 1])
        PROVE  Safe(t, cl, ok)
    <3>1. n = 0 /\ n + 1 = 1
      OBVIOUS
    <3>2. t \in TornBy(d, w)
      BY <1>1, <1>2, <3>1
    <3> QED BY <3>2 DEF TornSafe
  <2>3. Len(ws) - 1 = 0
    BY <1>1
  <2> QED BY <1>1, <2>1, <2>2, <2>3 DEF SafePath
<1> QED BY <1>1, <1>2, <1>3 DEF Moves, ws

(* ... and two safe ways one after the other are a safe way.               *)
LEMMA MovesThen ==
  ASSUME NEW d, NEW u, NEW e, NEW v, NEW f, NEW cl, NEW ok,
         Moves(d, u, e, cl, ok), Moves(e, v, f, cl, ok)
  PROVE  Moves(d, u \o v, f, cl, ok)
<1> DEFINE w == u \o v
<1>1. IsSeq(u) /\ IsSeq(v) /\ e = ApplyAll(d, u) /\ f = ApplyAll(e, v)
  BY DEF Moves
<1>2. /\ IsSeq(w) /\ Len(w) = Len(u) + Len(v)
      /\ Len(u) \in Nat /\ Len(v) \in Nat
      /\ \A i \in 1 .. Len(u) : w[i] = u[i]
      /\ \A i \in 1 .. Len(v) : w[Len(u) + i] = v[i]
  BY <1>1, ConcatFacts
<1>3. /\ \A n \in 0 .. Len(u) : States(d, w)[n] = States(d, u)[n]
      /\ \A n \in 0 .. Len(v) : States(d, w)[Len(u) + n] = States(e, v)[n]
  BY <1>1, StatesConcat
<1> HIDE DEF w
<1>4. f = ApplyAll(d, w)
  <2>1. Len(w) \in Nat
    BY <1>2, SeqFacts
  <2>2. ApplyAll(d, w) = States(d, w)[Len(w)]
    BY <2>1, StateSteps
  <2>3. ApplyAll(e, v) = States(e, v)[Len(v)]
    BY <1>2, StateSteps
  <2>4. Len(v) \in 0 .. Len(v)
    BY <1>2
  <2> QED BY <1>1, <1>2, <1>3, <2>2, <2>3, <2>4, Zenon
<1>5. ASSUME NEW n \in 0 .. Len(w)
      PROVE  Safe(States(d, w)[n], cl, ok)
  <2>1. CASE n <= Len(u)
    <3>1. n \in 0 .. Len(u)
      BY <1>2, <2>1
    <3> QED BY <1>3, <3>1 DEF Moves, SafePath
  <2>2. CASE ~(n <= Len(u))
    <3>1. n - Len(u) \in 0 .. Len(v) /\ n = Len(u) + (n - Len(u))
      BY <1>2, <2>2
    <3>2. States(d, w)[Len(u) + (n - Len(u))] = States(e, v)[n - Len(u)]
      BY <1>3, <3>1
    <3>3. Safe(States(e, v)[n - Len(u)], cl, ok)
      BY <3>1 DEF Moves, SafePath
    <3> QED BY <3>1, <3>2, <3>3
  <2> QED BY <2>1, <2>2
<1>6. ASSUME NEW n \in 0 .. (Len(w) - 1),
             NEW t \in TornBy(States(d, w)[n], w[n + 1])
      PROVE  Safe(t, cl, ok)
  <2>1. CASE n < Len(u)
    <3>1. n \in 0 .. Len(u) /\ n \in 0 .. (Len(u) - 1) /\ n + 1 \in 1 .. Len(u)
      BY <1>2, <2>1
    <3>2. t \in TornBy(States(d, u)[n], u[n + 1])
      BY <1>2, <1>3, <3>1
    <3> QED BY <3>1, <3>2 DEF Moves, SafePath
  <2>2. CASE ~(n < Len(u))
    <3> DEFINE m == n - Len(u)
    <3>1. /\ m \in 0 .. Len(v) /\ m \in 0 .. (Len(v) - 1)
          /\ m + 1 \in 1 .. Len(v)
          /\ n = Len(u) + m /\ n + 1 = Len(u) + (m + 1)
      BY <1>2, <2>2
    <3> HIDE DEF m
    <3>2. States(d, w)[n] = States(e, v)[m]
      BY <1>3, <3>1
    <3>3. w[n + 1] = v[m + 1]
      BY <1>2, <3>1
    <3>4. t \in TornBy(States(e, v)[m], v[m + 1])
      BY <3>2, <3>3
    <3> QED BY <3>1, <3>4 DEF Moves, SafePath
  <2> QED BY <2>1, <2>2
<1>7. SafePath(d, w, cl, ok)
  BY <1>5, <1>6 DEF SafePath
<1> QED BY <1>2, <1>4, <1>7 DEF Moves, w

(* The files are safe at both ends of the way.                             *)
LEMMA MovesEnds ==
  ASSUME NEW d, NEW ws, NEW e, NEW cl, NEW ok, Moves(d, ws, e, cl, ok)
  PROVE  Safe(d, cl, ok) /\ Safe(e, cl, ok)
<1>1. Len(ws) \in Nat
  BY SeqFacts DEF Moves
<1>2. States(d, ws)[0] = d /\ e = States(d, ws)[Len(ws)]
  BY <1>1, StateSteps DEF Moves
<1>3. 0 \in 0 .. Len(ws) /\ Len(ws) \in 0 .. Len(ws)
  BY <1>1
<1> QED BY <1>2, <1>3 DEF Moves, SafePath

(* What is left to do after the first write is safe, and so is a crash in  *)
(* the first write.                                                        *)
LEMMA FirstMove ==
  ASSUME NEW d, NEW ws, IsSeq(ws), ws # <<>>, NEW cl, NEW ok,
         SafePath(d, ws, cl, ok)
  PROVE  /\ Safe(d, cl, ok)
         /\ SafePath(Apply(d, Head(ws)), Tail(ws), cl, ok)
         /\ TornSafe(d, Head(ws), cl, ok)
<1> DEFINE e == Apply(d, Head(ws))
           v == Tail(ws)
<1>1. /\ Len(v) = Len(ws) - 1 /\ Len(ws) \in Nat \ {0} /\ Head(ws) = ws[1]
      /\ \A i \in 1 .. (Len(ws) - 1) : v[i] = ws[i + 1]
      /\ \A n \in 0 .. (Len(ws) - 1) : States(e, v)[n] = States(d, ws)[n + 1]
  BY StatesTail
<1>2. States(d, ws)[0] = d
  <2>1. Len(ws) \in Nat
    BY <1>1
  <2> QED BY <2>1, StateSteps
<1> HIDE DEF e, v
<1>3. Safe(d, cl, ok)
  <2>1. 0 \in 0 .. Len(ws)
    BY <1>1
  <2> QED BY <1>2, <2>1 DEF SafePath
<1>4. TornSafe(d, Head(ws), cl, ok)
  <2>1. 0 \in 0 .. (Len(ws) - 1) /\ 0 + 1 = 1
    BY <1>1
  <2>2. \A t \in TornBy(States(d, ws)[0], ws[0 + 1]) : Safe(t, cl, ok)
    BY <2>1 DEF SafePath
  <2> QED BY <1>1, <1>2, <2>1, <2>2 DEF TornSafe
<1>5. SafePath(e, v, cl, ok)
  <2>1. ASSUME NEW n \in 0 .. Len(v)
        PROVE  Safe(States(e, v)[n], cl, ok)
    <3>1. n \in 0 .. (Len(ws) - 1) /\ n + 1 \in 0 .. Len(ws)
      BY <1>1
    <3> QED BY <1>1, <3>1 DEF SafePath
  <2>2. ASSUME NEW n \in 0 .. (Len(v) - 1),
               NEW t \in TornBy(States(e, v)[n], v[n + 1])
        PROVE  Safe(t, cl, ok)
    <3>1. /\ n \in 0 .. (Len(ws) - 1) /\ n + 1 \in 0 .. (Len(ws) - 1)
          /\ n + 1 \in 1 .. (Len(ws) - 1)
      BY <1>1
    <3>2. t \in TornBy(States(d, ws)[n + 1], ws[(n + 1) + 1])
      BY <1>1, <3>1
    <3> QED BY <3>1, <3>2 DEF SafePath
  <2> QED BY <2>1, <2>2 DEF SafePath
<1> QED BY <1>3, <1>4, <1>5 DEF e, v

-----------------------------------------------------------------------------
(* What each write changes: one of the files and nothing else.             *)
LEMMA HeaderPut ==
  ASSUME NEW d \in Files, NEW h \in Headers
  PROVE  LET e == Apply(d, PutHeader(h))
         IN  /\ e \in Files /\ e.dat = d.dat /\ e.header = h
             /\ e.free_list = d.free_list /\ e.pages = d.pages
             /\ e.index = d.index /\ e.journal = d.journal /\ e.tmp = d.tmp
             /\ TornBy(d, PutHeader(h)) = {}
BY DEF Apply, TornBy, PutHeader, Files

(* The free list.                                                          *)
LEMMA FreeListPut ==
  ASSUME NEW d \in Files, NEW fl \in FreeLists
  PROVE  LET e == Apply(d, PutFreeList(fl))
         IN  /\ e \in Files /\ e.dat = d.dat /\ e.header = d.header
             /\ e.free_list = fl /\ e.pages = d.pages /\ e.index = d.index
             /\ e.journal = d.journal /\ e.tmp = d.tmp
             /\ TornBy(d, PutFreeList(fl)) = {}
BY DEF Apply, TornBy, PutFreeList, Files

(* The index.  The model tears data pages and journal entries only.        *)
LEMMA IndexPut ==
  ASSUME NEW d \in Files, NEW x \in Indexes
  PROVE  LET e == Apply(d, PutIndex(x.size, x.leaf))
         IN  /\ e \in Files /\ e.dat = d.dat /\ e.header = d.header
             /\ e.free_list = d.free_list /\ e.pages = d.pages /\ e.index = x
             /\ e.journal = d.journal /\ e.tmp = d.tmp
             /\ TornBy(d, PutIndex(x.size, x.leaf)) = {}
BY DEF Apply, TornBy, PutIndex, Files, Indexes

(* The journal, by an entry ...                                            *)
LEMMA EntryAppended ==
  ASSUME NEW d \in Files, NEW j \in Entries
  PROVE  LET e == Apply(d, AppendJournal(j))
         IN  /\ e \in Files /\ e.dat = d.dat /\ e.header = d.header
             /\ e.free_list = d.free_list /\ e.pages = d.pages
             /\ e.index = d.index /\ e.journal = Append(d.journal, j)
             /\ e.tmp = d.tmp
BY SMTT(30) DEF Apply, TornBy, AppendJournal, Files

(* ... or by losing all of them.                                           *)
LEMMA JournalTruncated ==
  ASSUME NEW d \in Files
  PROVE  LET e == Apply(d, TruncateJournal)
         IN  /\ e \in Files /\ e.dat = d.dat /\ e.header = d.header
             /\ e.free_list = d.free_list /\ e.pages = d.pages
             /\ e.index = d.index /\ e.journal = <<>> /\ e.tmp = d.tmp
             /\ TornBy(d, TruncateJournal) = {}
<1>1. <<>> \in Seq(Entries)
  OBVIOUS
<1> QED BY <1>1 DEF Apply, TornBy, TruncateJournal, Files

(* The .DAT file.                                                          *)
LEMMA DatRemoved ==
  ASSUME NEW d \in Files
  PROVE  LET e == Apply(d, RemoveDat)
         IN  /\ e \in Files /\ e.dat = FALSE /\ e.header = d.header
             /\ e.free_list = d.free_list /\ e.pages = d.pages
             /\ e.index = d.index /\ e.journal = d.journal /\ e.tmp = d.tmp
             /\ TornBy(d, RemoveDat) = {}
BY DEF Apply, TornBy, RemoveDat, Files

(* An entry or insert that is skipped.                                     *)
LEMMA NothingWritten ==
  ASSUME NEW d \in Files
  PROVE  LET e == Apply(d, NoWrite)
         IN  /\ e \in Files /\ e.dat = d.dat /\ e.header = d.header
             /\ e.free_list = d.free_list /\ e.pages = d.pages
             /\ e.index = d.index /\ e.journal = d.journal /\ e.tmp = d.tmp
             /\ TornBy(d, NoWrite) = {}
BY DEF Apply, TornBy, NoWrite, Files

(* The data pages of a file are numbered without a gap.                    *)
LEMMA FileOfPages ==
  ASSUME NEW pgs \in PageFiles
  PROVE  \E t \in FirstDataPage .. MaxPages :
           /\ t = TotalPages(pgs) /\ pgs \in [DataPages(t) -> Page]
           /\ DOMAIN pgs = 2 .. (t - 1) /\ t \in Nat /\ t >= 2 /\ t <= MaxPages
           /\ DOMAIN pgs \subseteq Nat /\ DOMAIN pgs \subseteq DataPages(MaxPages)
           /\ IsFiniteSet(ActivePages(pgs)) /\ IsFiniteSet(EmptyPages(pgs))
           /\ ActivePages(pgs) \subseteq DOMAIN pgs
           /\ EmptyPages(pgs) \subseteq DOMAIN pgs
           /\ Cardinality(ActivePages(pgs)) \in Nat
           /\ Cardinality(EmptyPages(pgs)) \in Nat
<1>1. PICK t \in FirstDataPage .. MaxPages : pgs \in [DataPages(t) -> Page]
  BY DEF PageFiles
<1>2. /\ t \in Nat /\ t >= 2 /\ t <= MaxPages /\ DOMAIN pgs = 2 .. (t - 1)
      /\ MaxPages \in Nat
  BY <1>1, BoundsAssumption DEF FirstDataPage, DataPages
<1>3. TotalPages(pgs) = t
  <2>1. IsFiniteSet(2 .. (t - 1)) /\ Cardinality(2 .. (t - 1)) = t - 2
    <3>1. 2 \in Int /\ t - 1 \in Int
      BY <1>2
    <3>2. Cardinality(2 .. (t - 1)) = IF 2 > t - 1 THEN 0 ELSE (t - 1) - 2 + 1
      BY <3>1, FS_Interval
    <3>3. IsFiniteSet(2 .. (t - 1))
      BY <3>1, FS_Interval
    <3> QED BY <1>2, <3>2, <3>3
  <2> QED BY <1>2, <2>1 DEF TotalPages, FirstDataPage
<1>4. /\ IsFiniteSet(ActivePages(pgs)) /\ IsFiniteSet(EmptyPages(pgs))
      /\ Cardinality(ActivePages(pgs)) \in Nat
      /\ Cardinality(EmptyPages(pgs)) \in Nat
  <2>1. DOMAIN pgs = DataPages(t) /\ t \in Int
    BY <1>1, <1>2
  <2> QED BY <2>1, ActiveFinite
<1>5. /\ ActivePages(pgs) \subseteq DOMAIN pgs
      /\ EmptyPages(pgs) \subseteq DOMAIN pgs
  BY DEF ActivePages, EmptyPages
<1>6. DOMAIN pgs \subseteq Nat /\ DOMAIN pgs \subseteq DataPages(MaxPages)
  BY <1>2 DEF DataPages, FirstDataPage
<1> QED BY <1>1, <1>2, <1>3, <1>4, <1>5, <1>6

(* A page of the file is written ...                                       *)
LEMMA PageOverwritten ==
  ASSUME NEW pgs \in PageFiles, NEW p \in DOMAIN pgs, NEW page \in Page
  PROVE  /\ PageWritten(pgs, p, page) = [pgs EXCEPT ![p] = page]
         /\ [pgs EXCEPT ![p] = page] \in PageFiles
<1>1. PICK t \in FirstDataPage .. MaxPages :
        /\ pgs \in [DataPages(t) -> Page] /\ DOMAIN pgs = 2 .. (t - 1)
        /\ t \in Nat
  BY FileOfPages
<1>2. [pgs EXCEPT ![p] = page] \in [DataPages(t) -> Page]
  BY <1>1
<1>3. [pgs EXCEPT ![p] = page] \in PageFiles
  BY <1>2 DEF PageFiles
<1>4. DOMAIN pgs \cup FirstDataPage .. p = DOMAIN pgs
  BY <1>1 DEF FirstDataPage
<1>5. ASSUME NEW q \in DOMAIN pgs
      PROVE  PageWritten(pgs, p, page)[q] = IF q = p THEN page ELSE pgs[q]
  BY <1>4 DEF PageWritten
<1>6. PageWritten(pgs, p, page)
        = [q \in DOMAIN pgs |-> IF q = p THEN page ELSE pgs[q]]
  <2>1. DOMAIN PageWritten(pgs, p, page) = DOMAIN pgs
    BY <1>4 DEF PageWritten
  <2>2. PageWritten(pgs, p, page)
          = [q \in DOMAIN pgs |-> PageWritten(pgs, p, page)[q]]
    BY <1>4, <2>1 DEF PageWritten
  <2> QED BY <1>5, <2>2
<1>7. [pgs EXCEPT ![p] = page]
        = [q \in DOMAIN pgs |-> IF q = p THEN page ELSE pgs[q]]
  BY <1>1
<1> QED BY <1>3, <1>6, <1>7

(* ... or the one behind its end.                                          *)
LEMMA PageAdded ==
  ASSUME NEW pgs \in PageFiles, NEW page \in Page, TotalPages(pgs) < MaxPages
  PROVE  LET t   == TotalPages(pgs)
             new == PageWritten(pgs, t, page)
         IN  /\ new \in PageFiles /\ DOMAIN new = DOMAIN pgs \cup {t}
             /\ t \notin DOMAIN pgs /\ t \in DataPages(MaxPages) /\ t \in Nat
             /\ new[t] = page
             /\ \A q \in DOMAIN pgs : new[q] = pgs[q]
<1>1. PICK t \in FirstDataPage .. MaxPages :
        /\ t = TotalPages(pgs)
        /\ pgs \in [DataPages(t) -> Page] /\ DOMAIN pgs = 2 .. (t - 1)
        /\ t \in Nat /\ t >= 2 /\ t <= MaxPages
  BY FileOfPages
<1> DEFINE new == PageWritten(pgs, t, page)
<1>2. /\ DOMAIN new = DOMAIN pgs \cup {t} /\ DOMAIN new = DataPages(t + 1)
      /\ t \notin DOMAIN pgs
  BY <1>1 DEF PageWritten, DataPages, FirstDataPage
<1>3. new[t] = page /\ \A q \in DOMAIN pgs : new[q] = pgs[q]
  BY <1>1 DEF PageWritten, FirstDataPage
<1>4. new \in [DataPages(t + 1) -> Page]
  <2>1. \A q \in DataPages(t + 1) : new[q] \in Page
    BY <1>1, <1>2, <1>3
  <2>2. new = [q \in DataPages(t + 1) |-> new[q]]
    BY <1>2 DEF PageWritten
  <2> QED BY <2>1, <2>2
<1>5. t + 1 \in FirstDataPage .. MaxPages /\ MaxPages \in Nat
  BY <1>1, BoundsAssumption DEF FirstDataPage
<1>6. new \in PageFiles
  BY <1>4, <1>5 DEF PageFiles
<1>7. t \in DataPages(MaxPages)
  BY <1>1, <1>5 DEF DataPages, FirstDataPage
<1> QED BY <1>1, <1>2, <1>3, <1>6, <1>7

(* A data page, in the file or behind its end.                             *)
LEMMA PagePut ==
  ASSUME NEW d \in Files, NEW p, NEW page,
         PageWritten(d.pages, p, page) \in PageFiles
  PROVE  LET e == Apply(d, PutPage(p, page))
         IN  /\ e \in Files /\ e.dat = d.dat /\ e.header = d.header
             /\ e.free_list = d.free_list
             /\ e.pages = PageWritten(d.pages, p, page)
             /\ e.index = d.index /\ e.journal = d.journal /\ e.tmp = d.tmp
BY DEF Apply, PutPage, Files

(* The .TMP file.                                                          *)
LEMMA CopyPut ==
  ASSUME NEW d \in Files, NEW h \in Headers, NEW pgs \in PageFiles
  PROVE  LET e == Apply(d, PutTmp(h, pgs))
         IN  /\ e \in Files /\ e.dat = d.dat /\ e.header = d.header
             /\ e.free_list = d.free_list /\ e.pages = d.pages
             /\ e.index = d.index /\ e.journal = d.journal
             /\ e.tmp.header = h /\ e.tmp.pages = pgs
             /\ TornBy(d, PutTmp(h, pgs)) = {}
<1>1. [header |-> h, pages |-> pgs] \in Copies
  BY DEF Copies
<1> QED BY <1>1 DEF Apply, TornBy, PutTmp, Files

(* The .DAT file again: it is now the copy, whose free list is empty.      *)
LEMMA TmpRenamed ==
  ASSUME NEW d \in Files, d.tmp.header \in Headers, d.tmp.pages \in PageFiles
  PROVE  LET e == Apply(d, RenameTmp)
         IN  /\ e \in Files /\ e.dat = TRUE /\ e.header = d.tmp.header
             /\ e.free_list = NoFreePages /\ e.pages = d.tmp.pages
             /\ e.index = d.index /\ e.journal = d.journal
             /\ TornBy(d, RenameTmp) = {}
<1>1. NoFreePages \in FreeLists
  <2>1. <<>> \in Seq(DataPages(MaxPages))
    OBVIOUS
  <2> QED BY <2>1 DEF NoFreePages, FreeLists
<1>2. NoCopy \in Copies
  <2>1. [p \in {} |-> EmptyPage] \in [DataPages(2) -> Page]
    <3>1. DataPages(2) = {}
      BY DEF DataPages, FirstDataPage
    <3> QED BY <3>1
  <2>2. 2 \in FirstDataPage .. MaxPages
    BY BoundsAssumption DEF FirstDataPage
  <2>3. [p \in {} |-> EmptyPage] \in PageFiles
    BY <2>1, <2>2 DEF PageFiles
  <2> QED BY <2>3 DEF NoCopy, Copies
<1> QED BY <1>1, <1>2 DEF Apply, TornBy, RenameTmp, Files

-----------------------------------------------------------------------------
(* What replaying the journal makes of the pages: each page it names gets  *)
(* the image of the last valid entry that names it.                        *)
Named(jnl, n, q) == {i \in 1 .. n : jnl[i].valid /\ jnl[i].page = q}

Replayed(pgs, jnl, n) ==
  [q \in DOMAIN pgs |->
     IF Named(jnl, n, q) = {} THEN pgs[q]
                              ELSE jnl[Max(Named(jnl, n, q))].image]

(* An entry that is replayed is the last that names its page.              *)
LEMMA NamedStep ==
  ASSUME NEW jnl, NEW n \in Nat \ {0}, NEW q
  PROVE  /\ jnl[n].valid /\ jnl[n].page = q =>
              Named(jnl, n, q) # {} /\ Max(Named(jnl, n, q)) = n
         /\ ~(jnl[n].valid /\ jnl[n].page = q) =>
              Named(jnl, n, q) = Named(jnl, n - 1, q)
<1>1. CASE jnl[n].valid /\ jnl[n].page = q
  <2> DEFINE S == Named(jnl, n, q)
  <2>1. n \in S /\ \A i \in S : i \in Nat /\ n >= i
    BY <1>1 DEF Named
  <2> HIDE DEF S
  <2>2. \A x \in S : (\A i \in S : x >= i) => x = n
    BY <2>1
  <2>3. Max(S) = n
    BY <2>1, <2>2 DEF Max
  <2> QED BY <1>1, <2>1, <2>3 DEF S
<1>2. CASE ~(jnl[n].valid /\ jnl[n].page = q)
  BY <1>2 DEF Named
<1> QED BY <1>1, <1>2

(* Without entries nothing is replayed.                                    *)
LEMMA ReplayNone ==
  ASSUME NEW pgs \in PageFiles, NEW jnl
  PROVE  Replayed(pgs, jnl, 0) = pgs
<1>1. \A q : Named(jnl, 0, q) = {}
  BY DEF Named
<1>2. pgs = [q \in DOMAIN pgs |-> pgs[q]]
  BY DEF PageFiles
<1> QED BY <1>1, <1>2 DEF Replayed

(* With one entry more, its image goes to its page.                        *)
LEMMA ReplayStep ==
  ASSUME NEW pgs \in PageFiles, NEW jnl, NEW n \in Nat \ {0},
         jnl[n].page \in DOMAIN pgs
  PROVE  Replayed(pgs, jnl, n) =
           IF jnl[n].valid
           THEN [Replayed(pgs, jnl, n - 1) EXCEPT ![jnl[n].page] = jnl[n].image]
           ELSE Replayed(pgs, jnl, n - 1)
<1> DEFINE was == Replayed(pgs, jnl, n - 1)
           is  == Replayed(pgs, jnl, n)
<1>1. /\ is = [q \in DOMAIN pgs |-> is[q]]
      /\ was = [q \in DOMAIN pgs |-> was[q]]
  BY DEF Replayed
<1>2. ASSUME NEW q \in DOMAIN pgs
      PROVE  is[q] = IF jnl[n].valid /\ jnl[n].page = q THEN jnl[n].image
                     ELSE was[q]
  <2>1. CASE jnl[n].valid /\ jnl[n].page = q
    BY <2>1, NamedStep DEF Replayed
  <2>2. CASE ~(jnl[n].valid /\ jnl[n].page = q)
    BY <2>2, NamedStep DEF Replayed
  <2> QED BY <2>1, <2>2
<1> HIDE DEF is, was
<1>3. CASE jnl[n].valid
  <2>1. [was EXCEPT ![jnl[n].page] = jnl[n].image]
          = [q \in DOMAIN pgs |-> IF q = jnl[n].page THEN jnl[n].image
                                                     ELSE was[q]]
    BY <1>1
  <2>2. is = [q \in DOMAIN pgs |-> IF q = jnl[n].page THEN jnl[n].image
                                                      ELSE was[q]]
    BY <1>1, <1>2, <1>3
  <2> QED BY <1>3, <2>1, <2>2 DEF is, was
<1>4. CASE ~jnl[n].valid
  <2>1. \A q \in DOMAIN pgs : is[q] = was[q]
    BY <1>2, <1>4
  <2>2. is = was
    BY <1>1, <2>1
  <2> QED BY <1>4, <2>2 DEF is, was
<1> QED BY <1>3, <1>4

(* The pages between the entries of a replay.                              *)
LEMMA ReplayStates ==
  ASSUME NEW d \in Files, JournalInFile(d), NEW n \in 0 .. Len(d.journal)
  PROVE  LET e == States(d, PutEntries(d))[n]
         IN  /\ e \in Files /\ e.dat = d.dat /\ e.header = d.header
             /\ e.free_list = d.free_list /\ e.index = d.index
             /\ e.journal = d.journal /\ e.tmp = d.tmp
             /\ e.pages = Replayed(d.pages, d.journal, n)
             /\ DOMAIN e.pages = DOMAIN d.pages
<1> DEFINE J  == d.journal
           ws == PutEntries(d)
           St(m) == States(d, ws)[m]
           OK(m) == /\ St(m) \in Files /\ St(m).dat = d.dat
                    /\ St(m).header = d.header
                    /\ St(m).free_list = d.free_list /\ St(m).index = d.index
                    /\ St(m).journal = d.journal /\ St(m).tmp = d.tmp
                    /\ St(m).pages = Replayed(d.pages, J, m)
                    /\ DOMAIN St(m).pages = DOMAIN d.pages
           T == {m \in 0 .. Len(J) : ~OK(m)}
<1>1. /\ J \in Seq(Entries) /\ Len(J) \in Nat /\ DOMAIN J = 1 .. Len(J)
      /\ d.pages \in PageFiles
  BY DEF Files
<1>2. Len(ws) = Len(J) /\ \A i \in 1 .. Len(J) : ws[i] = Replay(J[i])
  BY <1>1 DEF PutEntries
<1>3. /\ States(d, ws)[0] = d
      /\ \A i \in 1 .. Len(J) :
           States(d, ws)[i] = Apply(States(d, ws)[i - 1], ws[i])
  <2>1. Len(ws) \in Nat
    BY <1>1, <1>2
  <2> HIDE DEF ws
  <2>2. /\ States(d, ws)[0] = d
        /\ \A i \in 1 .. Len(ws) :
             States(d, ws)[i] = Apply(States(d, ws)[i - 1], ws[i])
    BY <2>1, StateSteps
  <2> QED BY <1>2, <2>2
<1> HIDE DEF ws
<1>4. OK(0)
  BY <1>1, <1>3, ReplayNone
<1>5. ASSUME NEW m \in 1 .. Len(J), OK(m - 1)
      PROVE  OK(m)
  <2> DEFINE c == St(m - 1)
  <2>1. St(m) = Apply(c, Replay(J[m]))
    BY <1>2, <1>3
  <2>2. J[m] \in Entries /\ J[m].page \in DOMAIN d.pages /\ m \in Nat \ {0}
    BY <1>1 DEF JournalInFile
  <2>3. c \in Files /\ DOMAIN c.pages = DOMAIN d.pages
        /\ c.pages = Replayed(d.pages, J, m - 1)
    BY <1>5
  <2>4. Replayed(d.pages, J, m) =
          IF J[m].valid THEN [c.pages EXCEPT ![J[m].page] = J[m].image]
                        ELSE c.pages
    BY <1>1, <2>2, <2>3, ReplayStep
  <2> HIDE DEF St, c
  <2>5. CASE J[m].valid
    <3>1. J[m].image \in Page /\ c.pages \in PageFiles
      BY <2>2, <2>3 DEF Entries, Files
    <3>2. /\ PageWritten(c.pages, J[m].page, J[m].image)
               = [c.pages EXCEPT ![J[m].page] = J[m].image]
          /\ PageWritten(c.pages, J[m].page, J[m].image) \in PageFiles
      BY <2>2, <2>3, <3>1, PageOverwritten
    <3>3. St(m) = Apply(c, PutPage(J[m].page, J[m].image))
      BY <2>1, <2>5 DEF Replay
    <3>4. /\ St(m) \in Files /\ St(m).dat = c.dat /\ St(m).header = c.header
          /\ St(m).free_list = c.free_list
          /\ St(m).pages = PageWritten(c.pages, J[m].page, J[m].image)
          /\ St(m).index = c.index /\ St(m).journal = c.journal
          /\ St(m).tmp = c.tmp
      BY <2>3, <3>2, <3>3, PagePut
    <3>5. DOMAIN St(m).pages = DOMAIN d.pages
      BY <2>3, <3>2, <3>4
    <3> QED BY <1>5, <2>4, <2>5, <3>2, <3>4, <3>5 DEF c
  <2>6. CASE ~J[m].valid
    <3>1. St(m) = c
      BY <2>1, <2>3, <2>6, NothingWritten DEF Replay, Apply, NoWrite
    <3> QED BY <1>5, <2>3, <2>4, <2>6, <3>1 DEF c
  <2> QED BY <2>5, <2>6
<1> HIDE DEF OK
<1>6. CASE T # {}
  <2>1. PICK m \in T : \A i \in T : m <= i
    <3>1. T \subseteq Nat
      OBVIOUS
    <3> QED BY <1>6, <3>1, LeastNatural
  <2>2. m # 0
    BY <1>4, <2>1
  <2>3. m \in 1 .. Len(J) /\ m - 1 \in 0 .. Len(J) /\ m - 1 \notin T
    BY <1>1, <2>1, <2>2
  <2>4. OK(m - 1)
    BY <2>3
  <2> QED BY <1>5, <2>1, <2>3, <2>4
<1>7. CASE T = {}
  BY <1>7 DEF OK, ws
<1> QED BY <1>6, <1>7

(* What ReplayedPages computes, and that it keeps the size of the file.    *)
LEMMA ReplayedIs ==
  ASSUME NEW d \in Files, JournalInFile(d)
  PROVE  /\ ReplayedPages(d) = Replayed(d.pages, d.journal, Len(d.journal))
         /\ ReplayedPages(d) \in PageFiles
         /\ DOMAIN ReplayedPages(d) = DOMAIN d.pages
         /\ Len(d.journal) \in Nat /\ d.journal \in Seq(Entries)
         /\ d.pages \in PageFiles
<1> DEFINE ws == PutEntries(d)
<1>1. /\ d.journal \in Seq(Entries) /\ Len(d.journal) \in Nat
      /\ d.pages \in PageFiles
  BY DEF Files
<1>2. Len(ws) = Len(d.journal)
  BY <1>1 DEF PutEntries
<1>3. ApplyAll(d, ws) = States(d, ws)[Len(d.journal)]
  <2> HIDE DEF ws
  <2> QED BY <1>1, <1>2, StateSteps
<1>4. Len(d.journal) \in 0 .. Len(d.journal)
  BY <1>1
<1>5. LET e == States(d, ws)[Len(d.journal)]
      IN  /\ e \in Files
          /\ e.pages = Replayed(d.pages, d.journal, Len(d.journal))
          /\ DOMAIN e.pages = DOMAIN d.pages
  BY <1>4, ReplayStates
<1> HIDE DEF ws
<1>6. ApplyAll(d, ws) \in Files
  BY <1>3, <1>5
<1>7. ApplyAll(d, ws).pages \in PageFiles
  BY <1>6 DEF Files
<1> QED BY <1>1, <1>3, <1>5, <1>7 DEF ReplayedPages, ws

(* Pages the journal names may hold anything.                              *)
LEMMA ReplayAgrees ==
  ASSUME NEW a, NEW b, DOMAIN a = DOMAIN b, NEW jnl, NEW n,
         \A q \in DOMAIN a : Named(jnl, n, q) = {} => a[q] = b[q]
  PROVE  Replayed(a, jnl, n) = Replayed(b, jnl, n)
BY DEF Replayed

(* An entry appended to the journal changes what is replayed at its page   *)
(* and nowhere else.                                                       *)
LEMMA ReplayAppended ==
  ASSUME NEW pgs \in PageFiles, NEW jnl \in Seq(Entries), NEW e \in Entries,
         e.page \in DOMAIN pgs
  PROVE  LET more == Append(jnl, e)
             was  == Replayed(pgs, jnl, Len(jnl))
         IN  /\ more \in Seq(Entries)
             /\ Replayed(pgs, more, Len(more)) =
                  IF e.valid THEN [was EXCEPT ![e.page] = e.image] ELSE was
             /\ e.valid => Named(more, Len(more), e.page) # {}
<1> DEFINE more == Append(jnl, e)
           N == Len(jnl)
<1>1. /\ more \in Seq(Entries) /\ Len(more) = N + 1 /\ more[N + 1] = e
      /\ N \in Nat /\ \A i \in 1 .. N : more[i] = jnl[i]
  OBVIOUS
<1> HIDE DEF more, N
<1>2. \A q : Named(more, N, q) = Named(jnl, N, q)
  BY <1>1 DEF Named
<1>3. Replayed(pgs, more, N) = Replayed(pgs, jnl, N)
  <2>1. ASSUME NEW q \in DOMAIN pgs, Named(jnl, N, q) # {}
        PROVE  more[Max(Named(jnl, N, q))] = jnl[Max(Named(jnl, N, q))]
    <3>1. Named(jnl, N, q) \subseteq 1 .. N /\ IsFiniteSet(Named(jnl, N, q))
      <4>1. Named(jnl, N, q) \subseteq 1 .. N
        BY DEF Named
      <4>2. IsFiniteSet(1 .. N)
        BY <1>1, FS_Interval
      <4> QED BY <4>1, <4>2, FS_Subset
    <3>2. Max(Named(jnl, N, q)) \in Named(jnl, N, q)
      <4> DEFINE S == Named(jnl, N, q)
                 T == {N - i : i \in S}
      <4>1. T \subseteq Nat /\ T # {}
        BY <1>1, <2>1, <3>1
      <4>2. PICK x \in T : \A y \in T : x <= y
        BY <4>1, LeastNatural
      <4>3. PICK i \in S : x = N - i
        BY <4>2
      <4>4. \A j \in S : j \in Nat /\ i \in Nat /\ N - j \in T
        BY <3>1
      <4>5. \A j \in S : i >= j
        <5> SUFFICES ASSUME NEW j \in S PROVE i >= j
          OBVIOUS
        <5>1. x <= N - j
          BY <4>2, <4>4
        <5> QED BY <1>1, <4>3, <4>4, <5>1
      <4> HIDE DEF S
      <4> QED BY <4>5 DEF Max, S
    <3> QED BY <1>1, <3>1, <3>2
  <2> QED BY <1>2, <2>1 DEF Replayed
<1>4. N + 1 \in Nat \ {0} /\ (N + 1) - 1 = N
  BY <1>1
<1>5. Replayed(pgs, more, N + 1) =
        IF more[N + 1].valid
        THEN [Replayed(pgs, more, (N + 1) - 1)
                EXCEPT ![more[N + 1].page] = more[N + 1].image]
        ELSE Replayed(pgs, more, (N + 1) - 1)
  BY <1>1, <1>4, ReplayStep
<1>6. e.valid => Named(more, N + 1, e.page) # {}
  BY <1>1, <1>4, NamedStep
<1> QED BY <1>1, <1>3, <1>4, <1>5, <1>6 DEF more, N

(* The file is longer by a page that the journal does not name.            *)
LEMMA ReplayExtended ==
  ASSUME NEW pgs, NEW t, t \notin DOMAIN pgs, NEW new,
         DOMAIN new = DOMAIN pgs \cup {t},
         \A q \in DOMAIN pgs : new[q] = pgs[q],
         NEW jnl, NEW n \in Nat,
         \A i \in 1 .. n : jnl[i].page \in DOMAIN pgs
  PROVE  /\ DOMAIN Replayed(new, jnl, n) = DOMAIN pgs \cup {t}
         /\ Replayed(new, jnl, n)[t] = new[t]
         /\ \A q \in DOMAIN pgs :
              Replayed(new, jnl, n)[q] = Replayed(pgs, jnl, n)[q]
<1>1. Named(jnl, n, t) = {}
  BY DEF Named
<1> QED BY <1>1 DEF Replayed

-----------------------------------------------------------------------------
(* One page of the file changes.                                           *)
LEMMA PageChanged ==
  ASSUME NEW pgs \in PageFiles, NEW p \in DOMAIN pgs, NEW x \in Page
  PROVE  LET new == [pgs EXCEPT ![p] = x]
         IN  /\ new \in PageFiles /\ DOMAIN new = DOMAIN pgs /\ new[p] = x
             /\ \A q \in DOMAIN pgs : q # p => new[q] = pgs[q]
             /\ ActivePages(new) = (ActivePages(pgs) \ {p}) \cup
                  (IF x.status = PS_ACTIVE THEN {p} ELSE {})
             /\ EmptyPages(new) = (EmptyPages(pgs) \ {p}) \cup
                  (IF x.status = PS_EMPTY THEN {p} ELSE {})
<1> DEFINE new == [pgs EXCEPT ![p] = x]
<1>1. new \in PageFiles
  BY PageOverwritten
<1>2. DOMAIN new = DOMAIN pgs /\ new[p] = x
      /\ \A q \in DOMAIN pgs : q # p => new[q] = pgs[q]
  OBVIOUS
<1> HIDE DEF new
<1>3. ActivePages(new) = (ActivePages(pgs) \ {p}) \cup
        (IF x.status = PS_ACTIVE THEN {p} ELSE {})
  BY <1>2 DEF ActivePages
<1>4. EmptyPages(new) = (EmptyPages(pgs) \ {p}) \cup
        (IF x.status = PS_EMPTY THEN {p} ELSE {})
  BY <1>2 DEF EmptyPages
<1> QED BY <1>1, <1>2, <1>3, <1>4 DEF new

(* Pages stay clean when a clean page is written over one of them.         *)
LEMMA CleanChanged ==
  ASSUME NEW pgs \in PageFiles, NEW p \in DOMAIN pgs, NEW x \in Page,
         Clean(pgs), x.status # PS_CONTINUATION,
         x.status = PS_ACTIVE => x.id \in 1 .. MaxRecordId
  PROVE  Clean([pgs EXCEPT ![p] = x])
BY PageChanged DEF Clean

(* What the client may rely on while and after a call is about a record.   *)
OpenOf(cl, ids) ==
  [cl EXCEPT !.promised = [i \in DOMAIN @ \ ids |-> cl.promised[i]],
             !.gone     = @ \ ids]

KeptOf(cl, id, v) == [OpenOf(cl, {id}) EXCEPT !.promised = WithEntry(@, id, v)]
RemovedOf(cl, id) == [OpenOf(cl, {id}) EXCEPT !.gone = @ \cup {id}]

(* The promises about some records are suspended ...                       *)
LEMMA Opens ==
  ASSUME NEW cl \in Clients, NEW ids
  PROVE  LET o == OpenOf(cl, ids)
         IN  /\ o \in Clients /\ o.stale = cl.stale
             /\ DOMAIN o.promised = DOMAIN cl.promised \ ids
             /\ \A i \in DOMAIN o.promised : o.promised[i] = cl.promised[i]
             /\ o.gone = cl.gone \ ids
<1> DEFINE o == OpenOf(cl, ids)
           f == [i \in DOMAIN cl.promised \ ids |-> cl.promised[i]]
<1>1. PICK S \in SUBSET (1 .. MaxRecordId) : cl.promised \in [S -> Data]
  BY DEF Clients
<1>2. S \ ids \in SUBSET (1 .. MaxRecordId) /\ f \in [S \ ids -> Data]
  BY <1>1
<1>3. f \in UNION {[R -> Data] : R \in SUBSET (1 .. MaxRecordId)}
  BY <1>2
<1>4. /\ cl.gone \in SUBSET (1 .. MaxRecordId) /\ cl.stale \in BOOLEAN
      /\ DOMAIN cl.promised \cap cl.gone = {}
      /\ cl = [promised |-> cl.promised, gone |-> cl.gone, stale |-> cl.stale]
  BY DEF Clients
<1>6. DOMAIN f = DOMAIN cl.promised \ ids
      /\ \A i \in DOMAIN f : f[i] = cl.promised[i]
  OBVIOUS
<1>5. o = [promised |-> f, gone |-> cl.gone \ ids, stale |-> cl.stale]
  <2>1. o = [cl EXCEPT !.promised = f, !.gone = cl.gone \ ids]
    BY <1>4 DEF OpenOf
  <2> HIDE DEF f, o
  <2> QED BY <1>4, <2>1
<1> HIDE DEF o, f
<1>7. o \in Clients
  BY <1>3, <1>4, <1>5, <1>6 DEF Clients
<1> QED BY <1>5, <1>6, <1>7 DEF o

(* The parts of a client's knowledge.                                      *)
LEMMA ClientIs ==
  ASSUME NEW f \in UNION {[S -> Data] : S \in SUBSET (1 .. MaxRecordId)},
         NEW g \in SUBSET (1 .. MaxRecordId), NEW s \in BOOLEAN,
         DOMAIN f \cap g = {}
  PROVE  [promised |-> f, gone |-> g, stale |-> s] \in Clients
<1> DEFINE F == UNION {[S -> Data] : S \in SUBSET (1 .. MaxRecordId)}
           k == [promised |-> f, gone |-> g, stale |-> s]
<1>1. f \in F
  OBVIOUS
<1> HIDE DEF F
<1>2. k \in [promised : F, gone : SUBSET (1 .. MaxRecordId), stale : BOOLEAN]
  BY <1>1
<1>3. DOMAIN k.promised \cap k.gone = {}
  OBVIOUS
<1> HIDE DEF k
<1>4. k \in Clients
  BY <1>2, <1>3 DEF Clients, F
<1> QED BY <1>4 DEF k

(* ... or a record has been stored with a content ...                      *)
LEMMA Keeps ==
  ASSUME NEW cl \in Clients, NEW id \in 1 .. MaxRecordId, NEW v \in Data
  PROVE  LET k == KeptOf(cl, id, v)
         IN  /\ k \in Clients /\ k.stale = cl.stale
             /\ DOMAIN k.promised = DOMAIN cl.promised \cup {id}
             /\ k.promised[id] = v
             /\ \A i \in DOMAIN cl.promised :
                  i # id => k.promised[i] = cl.promised[i]
             /\ k.gone = cl.gone \ {id}
<1> DEFINE k == KeptOf(cl, id, v)
           o == OpenOf(cl, {id})
           f == WithEntry(o.promised, id, v)
<1>1. /\ o \in Clients /\ o.stale = cl.stale
      /\ DOMAIN o.promised = DOMAIN cl.promised \ {id}
      /\ \A i \in DOMAIN o.promised : o.promised[i] = cl.promised[i]
      /\ o.gone = cl.gone \ {id}
  BY Opens
<1> HIDE DEF o
<1>2. PICK S \in SUBSET (1 .. MaxRecordId) : o.promised \in [S -> Data]
  BY <1>1 DEF Clients
<1>3. /\ DOMAIN f = DOMAIN o.promised \cup {id} /\ f[id] = v
      /\ \A i \in DOMAIN o.promised : i # id => f[i] = o.promised[i]
      /\ f \in [S \cup {id} -> Data]
  BY <1>2 DEF WithEntry
<1>4. S \cup {id} \in SUBSET (1 .. MaxRecordId)
  BY <1>2
<1> HIDE DEF f
<1>5. f \in UNION {[R -> Data] : R \in SUBSET (1 .. MaxRecordId)}
  BY <1>3, <1>4
<1>6. /\ o.gone \in SUBSET (1 .. MaxRecordId) /\ o.stale \in BOOLEAN
      /\ o = [promised |-> o.promised, gone |-> o.gone, stale |-> o.stale]
      /\ DOMAIN o.promised \cap o.gone = {}
  BY <1>1 DEF Clients
<1>7. k = [promised |-> f, gone |-> o.gone, stale |-> o.stale]
  BY <1>6 DEF KeptOf, o, f
<1> HIDE DEF k
<1>8. k \in Clients
  <2>1. DOMAIN f \cap o.gone = {}
    BY <1>1, <1>3, <1>6
  <2>2. [promised |-> f, gone |-> o.gone, stale |-> o.stale] \in Clients
    BY <1>5, <1>6, <2>1, ClientIs
  <2> QED BY <1>7, <2>2
<1> QED BY <1>1, <1>3, <1>7, <1>8 DEF k

(* ... or has been removed.                                                *)
LEMMA Removes ==
  ASSUME NEW cl \in Clients, NEW id \in 1 .. MaxRecordId
  PROVE  LET r == RemovedOf(cl, id)
         IN  /\ r \in Clients /\ r.stale = cl.stale
             /\ DOMAIN r.promised = DOMAIN cl.promised \ {id}
             /\ \A i \in DOMAIN r.promised : r.promised[i] = cl.promised[i]
             /\ r.gone = cl.gone \cup {id}
<1> DEFINE r == RemovedOf(cl, id)
           o == OpenOf(cl, {id})
<1>1. /\ o \in Clients /\ o.stale = cl.stale
      /\ DOMAIN o.promised = DOMAIN cl.promised \ {id}
      /\ \A i \in DOMAIN o.promised : o.promised[i] = cl.promised[i]
      /\ o.gone = cl.gone \ {id}
  BY Opens
<1> HIDE DEF o
<1>2. /\ o.gone \in SUBSET (1 .. MaxRecordId) /\ o.stale \in BOOLEAN
      /\ o.promised \in UNION {[R -> Data] : R \in SUBSET (1 .. MaxRecordId)}
      /\ o = [promised |-> o.promised, gone |-> o.gone, stale |-> o.stale]
      /\ DOMAIN o.promised \cap o.gone = {}
  BY <1>1 DEF Clients
<1>3. r = [promised |-> o.promised, gone |-> o.gone \cup {id},
           stale |-> o.stale]
  <2>1. r = [o EXCEPT !.gone = o.gone \cup {id}]
    BY DEF RemovedOf, o
  <2> HIDE DEF r
  <2> QED BY <1>2, <2>1
<1> HIDE DEF r
<1>4. r \in Clients
  <2>1. /\ o.gone \cup {id} \in SUBSET (1 .. MaxRecordId)
        /\ DOMAIN o.promised \cap (o.gone \cup {id}) = {}
    BY <1>1, <1>2
  <2>2. [promised |-> o.promised, gone |-> o.gone \cup {id}, stale |-> o.stale]
          \in Clients
    BY <1>2, <2>1, ClientIs
  <2> QED BY <1>3, <2>2
<1> QED BY <1>1, <1>3, <1>4 DEF r

(* The promises that survive a record being added, ...                     *)
LEMMA GoodAdd ==
  ASSUME NEW cl \in Clients, NEW pgs \in PageFiles, Good(pgs, cl),
         NEW p \in EmptyPages(pgs), NEW x \in Page, x.status = PS_ACTIVE,
         x.id \in 1 .. MaxRecordId, x.data \in Data,
         \A q \in ActivePages(pgs) : pgs[q].id # x.id,
         Room(Cardinality(ActivePages(pgs)) + 1)
  PROVE  LET new == [pgs EXCEPT ![p] = x]
         IN  /\ Good(new, OpenOf(cl, {x.id}))
             /\ Good(new, KeptOf(cl, x.id, x.data))
             /\ ActivePages(new) = ActivePages(pgs) \cup {p}
             /\ EmptyPages(new) = EmptyPages(pgs) \ {p}
             /\ Cardinality(ActivePages(new)) = Cardinality(ActivePages(pgs)) + 1
<1> DEFINE new == [pgs EXCEPT ![p] = x]
           A == ActivePages(pgs)
<1>1. p \in DOMAIN pgs /\ p \notin A
  BY DEF EmptyPages, ActivePages, PS_EMPTY, PS_ACTIVE
<1>2. /\ new[p] = x
      /\ \A q \in DOMAIN pgs : q # p => new[q] = pgs[q]
      /\ ActivePages(new) = A \cup {p}
      /\ EmptyPages(new) = EmptyPages(pgs) \ {p}
  <2>1. /\ new[p] = x
        /\ \A q \in DOMAIN pgs : q # p => new[q] = pgs[q]
        /\ ActivePages(new) = (ActivePages(pgs) \ {p}) \cup
             (IF x.status = PS_ACTIVE THEN {p} ELSE {})
        /\ EmptyPages(new) = (EmptyPages(pgs) \ {p}) \cup
             (IF x.status = PS_EMPTY THEN {p} ELSE {})
    BY <1>1, PageChanged
  <2> HIDE DEF new
  <2> QED BY <1>1, <2>1 DEF PS_ACTIVE, PS_EMPTY
<1>3. A \subseteq DOMAIN pgs /\ IsFiniteSet(A)
  BY FileOfPages
<1> HIDE DEF new, A
<1>4. Cardinality(ActivePages(new)) = Cardinality(A) + 1
  BY <1>1, <1>2, <1>3, FS_AddElement
<1>5. \A q \in A : new[q] = pgs[q]
  BY <1>1, <1>2, <1>3
<1>6. Unique(new)
  BY <1>2, <1>5 DEF Unique, Good, A
<1>7. Promises(new, OpenOf(cl, {x.id}))
  BY <1>2, <1>5, Opens DEF Promises, Good, A
<1>8. Promises(new, KeptOf(cl, x.id, x.data))
  <2> DEFINE k == KeptOf(cl, x.id, x.data)
  <2>1. /\ DOMAIN k.promised = DOMAIN cl.promised \cup {x.id}
        /\ k.promised[x.id] = x.data
        /\ \A i \in DOMAIN cl.promised :
             i # x.id => k.promised[i] = cl.promised[i]
        /\ k.gone = cl.gone \ {x.id}
    BY Keeps
  <2> HIDE DEF k
  <2>2. Promises(new, k)
    BY <1>2, <1>5, <2>1 DEF Promises, Good, A
  <2> QED BY <2>2 DEF k
<1> QED BY <1>2, <1>4, <1>6, <1>7, <1>8 DEF Good, new, A

(* ... changed ...                                                         *)
LEMMA GoodUpdate ==
  ASSUME NEW cl \in Clients, NEW pgs \in PageFiles, Good(pgs, cl),
         NEW p \in ActivePages(pgs), NEW x \in Page, x.status = PS_ACTIVE,
         x.id = pgs[p].id, x.id \in 1 .. MaxRecordId, x.data \in Data
  PROVE  LET new == [pgs EXCEPT ![p] = x]
         IN  /\ Good(new, OpenOf(cl, {x.id}))
             /\ Good(new, KeptOf(cl, x.id, x.data))
             /\ ActivePages(new) = ActivePages(pgs)
             /\ EmptyPages(new) = EmptyPages(pgs)
             /\ \A q \in ActivePages(pgs) : new[q].id = pgs[q].id
<1> DEFINE new == [pgs EXCEPT ![p] = x]
           A == ActivePages(pgs)
<1>1. p \in DOMAIN pgs /\ p \notin EmptyPages(pgs)
  BY DEF EmptyPages, ActivePages, PS_EMPTY, PS_ACTIVE
<1>2. /\ new[p] = x
      /\ \A q \in DOMAIN pgs : q # p => new[q] = pgs[q]
      /\ ActivePages(new) = A
      /\ EmptyPages(new) = EmptyPages(pgs)
  <2>1. /\ new[p] = x
        /\ \A q \in DOMAIN pgs : q # p => new[q] = pgs[q]
        /\ ActivePages(new) = (ActivePages(pgs) \ {p}) \cup
             (IF x.status = PS_ACTIVE THEN {p} ELSE {})
        /\ EmptyPages(new) = (EmptyPages(pgs) \ {p}) \cup
             (IF x.status = PS_EMPTY THEN {p} ELSE {})
    BY <1>1, PageChanged
  <2> HIDE DEF new
  <2> QED BY <1>1, <2>1 DEF PS_ACTIVE, PS_EMPTY
<1>3. A \subseteq DOMAIN pgs
  BY FileOfPages
<1> HIDE DEF new
<1>4. \A q \in A : new[q].id = pgs[q].id /\ (q # p => new[q] = pgs[q])
  BY <1>2, <1>3
<1>5. \A q \in A : pgs[q].id = x.id => q = p
  BY DEF Good, Unique
<1> HIDE DEF A
<1>6. Unique(new)
  BY <1>2, <1>4 DEF Unique, Good, A
<1>7. Promises(new, OpenOf(cl, {x.id}))
  <2> DEFINE o == OpenOf(cl, {x.id})
  <2>1. /\ DOMAIN o.promised = DOMAIN cl.promised \ {x.id}
        /\ \A i \in DOMAIN o.promised : o.promised[i] = cl.promised[i]
        /\ o.gone = cl.gone \ {x.id}
    BY Opens
  <2> HIDE DEF o
  <2>2. Promises(new, o)
    BY <1>2, <1>4, <2>1 DEF Promises, Good, A
  <2> QED BY <2>2 DEF o
<1>8. Promises(new, KeptOf(cl, x.id, x.data))
  <2> DEFINE k == KeptOf(cl, x.id, x.data)
  <2>1. /\ DOMAIN k.promised = DOMAIN cl.promised \cup {x.id}
        /\ k.promised[x.id] = x.data
        /\ \A i \in DOMAIN cl.promised :
             i # x.id => k.promised[i] = cl.promised[i]
        /\ k.gone = cl.gone \ {x.id}
    BY Keeps
  <2> HIDE DEF k
  <2>2. \A i \in DOMAIN k.promised :
          \E q \in ActivePages(new) :
            new[q].id = i /\ new[q].data = k.promised[i]
    <3> SUFFICES ASSUME NEW i \in DOMAIN k.promised
                 PROVE  \E q \in ActivePages(new) :
                          new[q].id = i /\ new[q].data = k.promised[i]
      OBVIOUS
    <3>1. CASE i = x.id
      BY <1>2, <2>1, <3>1 DEF A
    <3>2. CASE i # x.id
      <4>1. i \in DOMAIN cl.promised /\ k.promised[i] = cl.promised[i]
        BY <2>1, <3>2
      <4>2. PICK q \in A : pgs[q].id = i /\ pgs[q].data = cl.promised[i]
        BY <4>1 DEF Good, Promises, A
      <4> QED BY <1>2, <1>4, <3>2, <4>1, <4>2
    <3> QED BY <3>1, <3>2
  <2>3. \A i \in k.gone : \A q \in ActivePages(new) : new[q].id # i
    BY <1>2, <1>4, <2>1 DEF Good, Promises, A
  <2> QED BY <2>2, <2>3 DEF k, Promises
<1>9. Room(Cardinality(ActivePages(new)))
  BY <1>2 DEF Good, A
<1> QED BY <1>2, <1>4, <1>6, <1>7, <1>8, <1>9 DEF Good, new, A

(* If the leaf has room for n records, it has room for fewer.              *)
LEMMA RoomForLess ==
  ASSUME NEW n \in Nat, Room(n), NEW m \in Nat, m <= n
  PROVE  Room(m)
BY LeafLimitsAssumption DEF Room

(* ... or deleted.                                                         *)
LEMMA GoodDelete ==
  ASSUME NEW cl \in Clients, NEW pgs \in PageFiles, Good(pgs, cl),
         NEW p \in ActivePages(pgs), pgs[p].id \in 1 .. MaxRecordId,
         NEW x \in Page, x.status = PS_EMPTY
  PROVE  LET new == [pgs EXCEPT ![p] = x]
         IN  /\ Good(new, OpenOf(cl, {pgs[p].id}))
             /\ Good(new, RemovedOf(cl, pgs[p].id))
             /\ ActivePages(new) = ActivePages(pgs) \ {p}
             /\ EmptyPages(new) = EmptyPages(pgs) \cup {p}
             /\ \A q \in ActivePages(new) : new[q] = pgs[q]
             /\ Cardinality(ActivePages(new)) = Cardinality(ActivePages(pgs)) - 1
<1> DEFINE new == [pgs EXCEPT ![p] = x]
           A == ActivePages(pgs)
           id == pgs[p].id
<1>1. p \in DOMAIN pgs
  BY DEF ActivePages
<1>2. /\ new[p] = x
      /\ \A q \in DOMAIN pgs : q # p => new[q] = pgs[q]
      /\ ActivePages(new) = A \ {p}
      /\ EmptyPages(new) = EmptyPages(pgs) \cup {p}
  <2>1. /\ new[p] = x
        /\ \A q \in DOMAIN pgs : q # p => new[q] = pgs[q]
        /\ ActivePages(new) = (ActivePages(pgs) \ {p}) \cup
             (IF x.status = PS_ACTIVE THEN {p} ELSE {})
        /\ EmptyPages(new) = (EmptyPages(pgs) \ {p}) \cup
             (IF x.status = PS_EMPTY THEN {p} ELSE {})
    BY <1>1, PageChanged
  <2> HIDE DEF new
  <2> QED BY <1>1, <2>1 DEF PS_ACTIVE, PS_EMPTY
<1>3. A \subseteq DOMAIN pgs /\ IsFiniteSet(A) /\ Cardinality(A) \in Nat
  BY FileOfPages
<1> HIDE DEF new
<1>4. \A q \in A \ {p} : new[q] = pgs[q]
  BY <1>2, <1>3
<1>5. \A q \in A : pgs[q].id = id => q = p
  BY DEF Good, Unique
<1> HIDE DEF A
<1>6. /\ Cardinality(ActivePages(new)) = Cardinality(A) - 1
      /\ Room(Cardinality(ActivePages(new)))
  <2>1. p \in A
    BY DEF A
  <2>2. IsFiniteSet(A \ {p}) /\ Cardinality(A \ {p}) = Cardinality(A) - 1
    BY <1>3, <2>1, FS_RemoveElement
  <2>3. Cardinality(A \ {p}) \in Nat
    BY <2>2, FS_CardinalityType
  <2>4. Room(Cardinality(A))
    BY DEF Good, A
  <2>5. Room(Cardinality(A \ {p}))
    BY <1>3, <2>2, <2>3, <2>4, RoomForLess
  <2> QED BY <1>2, <2>2, <2>5
<1>7. Unique(new)
  BY <1>2, <1>4 DEF Unique, Good, A
<1>8. \A i \in DOMAIN cl.promised : i # id =>
        \E q \in ActivePages(new) :
          new[q].id = i /\ new[q].data = cl.promised[i]
  <2> SUFFICES ASSUME NEW i \in DOMAIN cl.promised, i # id
               PROVE  \E q \in ActivePages(new) :
                        new[q].id = i /\ new[q].data = cl.promised[i]
    OBVIOUS
  <2>1. PICK q \in A : pgs[q].id = i /\ pgs[q].data = cl.promised[i]
    BY DEF Good, Promises, A
  <2> QED BY <1>2, <1>4, <2>1
<1>9. \A i : (i \in cl.gone \/ i = id) =>
        \A q \in ActivePages(new) : new[q].id # i
  BY <1>2, <1>4, <1>5 DEF Good, Promises, A
<1>10. Promises(new, OpenOf(cl, {id}))
  <2> DEFINE o == OpenOf(cl, {id})
  <2>1. /\ DOMAIN o.promised = DOMAIN cl.promised \ {id}
        /\ \A i \in DOMAIN o.promised : o.promised[i] = cl.promised[i]
        /\ o.gone = cl.gone \ {id}
    BY Opens
  <2> HIDE DEF o, id
  <2>2. Promises(new, o)
    BY <1>8, <1>9, <2>1 DEF Promises
  <2> QED BY <2>2 DEF o
<1>11. Promises(new, RemovedOf(cl, id))
  <2> DEFINE r == RemovedOf(cl, id)
  <2>1. /\ DOMAIN r.promised = DOMAIN cl.promised \ {id}
        /\ \A i \in DOMAIN r.promised : r.promised[i] = cl.promised[i]
        /\ r.gone = cl.gone \cup {id}
    BY Removes
  <2> HIDE DEF r, id
  <2>2. Promises(new, r)
    BY <1>8, <1>9, <2>1 DEF Promises
  <2> QED BY <2>2 DEF r
<1> QED BY <1>2, <1>4, <1>6, <1>7, <1>10, <1>11 DEF Good, new, A

-----------------------------------------------------------------------------
(* Records of one page.                                                    *)
LEMMA OnePageRun ==
  ASSUME PagesNeeded = 1, NEW first \in Int
  PROVE  /\ Run(first) = {first}
         /\ \A id, v : RecordImage(id, first, v)[first] =
                         [id |-> id, status |-> PS_ACTIVE, data |-> v]
         /\ EmptyImage(first)[first] = EmptyPage
<1>1. Run(first) = {first}
  BY DEF Run
<1> QED BY <1>1 DEF RecordImage, EmptyImage

(* Such a record is one page write and one journal entry.                  *)
LEMMA OnePageWrites ==
  ASSUME PagesNeeded = 1, NEW first \in Int, NEW image
  PROVE  /\ PutImage(image, first) = <<PutPage(first, image[first])>>
         /\ JournalImage(image, first) =
              <<AppendJournal([page |-> first, image |-> image[first],
                               valid |-> TRUE])>>
<1>1. 1 .. 1 = {1} /\ first + 1 - 1 = first
  OBVIOUS
<1> DEFINE w == PutPage(first, image[first])
           e == AppendJournal([page |-> first, image |-> image[first],
                               valid |-> TRUE])
<1>2. PutImage(image, first) = [j \in {1} |-> w]
  BY <1>1 DEF PutImage
<1>3. JournalImage(image, first) = [j \in {1} |-> e]
  BY <1>1 DEF JournalImage
<1> HIDE DEF w, e
<1>4. \A x : <<x>> = [j \in {1} |-> x]
  OBVIOUS
<1> QED BY <1>2, <1>3, <1>4 DEF w, e

(* Clean pages are tiled by records of one page.                           *)
LEMMA CleanTiled ==
  ASSUME PagesNeeded = 1, NEW pgs \in PageFiles, Clean(pgs)
  PROVE  Tiled(pgs)
<1>1. DOMAIN pgs \subseteq Nat
  BY FileOfPages
<1>2. \A p \in ActivePages(pgs) : Run(p) \ {p} = {}
  BY <1>1, OnePageRun DEF ActivePages
<1> QED BY <1>2 DEF Tiled, Clean

-----------------------------------------------------------------------------
(* Ascending lists the elements of a set, each of them once.               *)
LEMMA AscendingLists ==
  ASSUME NEW A, IsFiniteSet(A), A \subseteq Nat
  PROVE  LET s == Ascending(A)
         IN  /\ s \in Seq(A) /\ Len(s) = Cardinality(A)
             /\ Cardinality(A) \in Nat
             /\ \A p \in A : \E i \in 1 .. Len(s) : s[i] = p
             /\ Distinct(s)
             /\ ToSet(s) = A
<1> DEFINE n == Cardinality(A)
           s == Ascending(A)
<1>1. n \in Nat /\ A \subseteq Int
  BY FS_CardinalityType
<1>2. ASSUME NEW i \in 1 .. n
      PROVE  s[i] \in A /\ Rank(s[i], A) = i - 1
  <2>1. i - 1 \in 0 .. (Cardinality(A) - 1)
    BY <1>1
  <2>2. \E p \in A : Rank(p, A) = i - 1
    BY <1>1, <2>1, RankOnto
  <2>3. s[i] = CHOOSE p \in A : Rank(p, A) = i - 1
    BY DEF Ascending
  <2> HIDE DEF s
  <2> QED BY <2>2, <2>3
<1>3. s \in [1 .. n -> A]
  <2>1. s = [i \in 1 .. n |-> s[i]]
    BY DEF Ascending
  <2> QED BY <1>2, <2>1
<1> HIDE DEF s
<1>4. s \in Seq(A) /\ Len(s) = n
  <2>1. n \in Nat
    BY <1>1
  <2> HIDE DEF n
  <2> QED BY <1>3, <2>1
<1>5. ASSUME NEW p \in A
      PROVE  \E i \in 1 .. n : s[i] = p
  <2> DEFINE i == Rank(p, A) + 1
  <2>1. Rank(p, A) \in 0 .. (n - 1)
    BY <1>1, RankRange
  <2>2. i \in 1 .. n /\ i - 1 = Rank(p, A)
    BY <1>1, <2>1
  <2> HIDE DEF i
  <2>3. s[i] \in A /\ Rank(s[i], A) = Rank(p, A)
    BY <1>2, <2>2
  <2>4. s[i] = p
    <3>1. s[i] \in Int /\ p \in Int
      BY <1>1, <2>3
    <3>2. Rank(p, A) \in Int /\ Rank(s[i], A) \in Int
      BY <1>1, <2>1, <2>3
    <3>3. CASE s[i] < p
      <4>1. Rank(s[i], A) < Rank(p, A)
        BY <1>1, <2>3, <3>3, RankOrder
      <4> QED BY <2>3, <3>2, <4>1
    <3>4. CASE p < s[i]
      <4>1. Rank(p, A) < Rank(s[i], A)
        BY <1>1, <2>3, <3>4, RankOrder
      <4> QED BY <2>3, <3>2, <4>1
    <3> QED BY <3>1, <3>3, <3>4
  <2> QED BY <2>2, <2>4
<1>6. Distinct(s)
  <2> SUFFICES ASSUME NEW i \in 1 .. n, NEW j \in 1 .. n, s[i] = s[j]
               PROVE  i = j
    BY <1>4 DEF Distinct
  <2>1. i - 1 = j - 1
    BY <1>2
  <2> QED BY <2>1
<1>7. ToSet(s) = A
  <2>1. DOMAIN s = 1 .. n
    BY <1>3
  <2>2. \A x \in ToSet(s) : x \in A
    BY <1>2, <2>1 DEF ToSet
  <2>3. \A x \in A : x \in ToSet(s)
    BY <1>5, <2>1 DEF ToSet
  <2> QED BY <2>2, <2>3
<1> QED BY <1>1, <1>4, <1>5, <1>6, <1>7 DEF s, n

(* A sequence without repetition is as long as its set of elements.        *)
LEMMA DistinctCounts ==
  ASSUME NEW S, NEW s \in Seq(S)
  PROVE  /\ IsFiniteSet(ToSet(s)) /\ Cardinality(ToSet(s)) \in Nat
         /\ Distinct(s) <=> Len(s) = Cardinality(ToSet(s))
<1> DEFINE D == 1 .. Len(s)
<1>1. Len(s) \in Nat /\ DOMAIN s = D /\ s = [i \in D |-> s[i]]
  OBVIOUS
<1>2. IsFiniteSet(D) /\ Cardinality(D) = Len(s)
  <2>1. 1 \in Int /\ Len(s) \in Int
    BY <1>1
  <2>2. IsFiniteSet(D) /\ Cardinality(D) = IF 1 > Len(s) THEN 0 ELSE Len(s) - 1 + 1
    BY <2>1, FS_Interval
  <2> QED BY <1>1, <2>2
<1>3. s \in [D -> ToSet(s)] /\ \A x \in ToSet(s) : \E i \in D : s[i] = x
  <2>1. \A i \in D : s[i] \in ToSet(s)
    BY <1>1 DEF ToSet
  <2>2. \A x \in ToSet(s) : \E i \in D : s[i] = x
    BY <1>1 DEF ToSet
  <2> HIDE DEF D
  <2> QED BY <1>1, <2>1, <2>2
<1>4. s \in Surjection(D, ToSet(s))
  BY <1>3 DEF Surjection
<1>5. /\ IsFiniteSet(ToSet(s))
      /\ Cardinality(ToSet(s)) = Cardinality(D) <=> s \in Injection(D, ToSet(s))
  BY <1>2, <1>4, FS_Surjection
<1>6. Distinct(s) <=> s \in Injection(D, ToSet(s))
  BY <1>3 DEF Distinct, Injection, IsInjective
<1>7. Cardinality(ToSet(s)) \in Nat
  BY <1>5, FS_CardinalityType
<1> HIDE DEF D
<1> QED BY <1>2, <1>5, <1>6, <1>7

-----------------------------------------------------------------------------
(* Free page lists.                                                        *)
ListWithin(fl, pgs) == \A i \in DOMAIN fl.list : fl.list[i] \in DOMAIN pgs

FreeListOf(fl, pgs) ==
  /\ ToSet(fl.list) \subseteq EmptyPages(pgs)
  /\ Len(fl.list) = Cardinality(ToSet(fl.list))
  /\ fl.free_page_count = Cardinality(EmptyPages(pgs))

(* UpdateFreePages and recovery make such a list from the pages.           *)
LEMMA ScanLists ==
  ASSUME NEW pgs \in PageFiles
  PROVE  LET fl == ScanFreeList(pgs)
         IN  fl \in FreeLists /\ ListWithin(fl, pgs) /\ FreeListOf(fl, pgs)
<1> DEFINE E == EmptyPages(pgs)
           F == FirstOf(MaxFreePages, E)
           s == Ascending(F)
           fl == ScanFreeList(pgs)
<1>1. /\ E \subseteq DOMAIN pgs /\ DOMAIN pgs \subseteq Nat
      /\ DOMAIN pgs \subseteq DataPages(MaxPages)
      /\ IsFiniteSet(E) /\ Cardinality(E) \in Nat
  BY FileOfPages
<1>2. F \subseteq E
  BY DEF FirstOf
<1>3. IsFiniteSet(F) /\ F \subseteq Nat
  BY <1>1, <1>2, FS_Subset
<1>4. s \in Seq(F) /\ Distinct(s) /\ ToSet(s) = F
  <2> HIDE DEF F
  <2> QED BY <1>3, AscendingLists
<1>5. Len(s) = Cardinality(ToSet(s))
  <2> HIDE DEF s, F
  <2> QED BY <1>4, DistinctCounts
<1>6. fl = [free_page_count |-> Cardinality(E), list |-> s]
  BY DEF ScanFreeList
<1> HIDE DEF s, F, fl
<1>7. s \in Seq(DataPages(MaxPages))
  <2>1. F \subseteq DataPages(MaxPages)
    BY <1>1, <1>2
  <2> QED BY <1>4, <2>1
<1>8. \A i \in DOMAIN s : s[i] \in F
  BY <1>4
<1> HIDE DEF E
<1>9. fl \in FreeLists
  BY <1>1, <1>6, <1>7 DEF FreeLists
<1>10. ListWithin(fl, pgs)
  BY <1>1, <1>2, <1>6, <1>8 DEF ListWithin
<1>11. FreeListOf(fl, pgs)
  <2>1. ToSet(s) \subseteq EmptyPages(pgs)
    BY <1>2, <1>4 DEF E
  <2>2. fl.free_page_count = Cardinality(EmptyPages(pgs)) /\ fl.list = s
    BY <1>6 DEF E
  <2> QED BY <1>5, <2>1, <2>2, Zenon DEF FreeListOf
<1> QED BY <1>9, <1>10, <1>11 DEF fl

(* The last page of a list is taken off it.                                *)
LEMMA FrontOf ==
  ASSUME NEW S, NEW s \in Seq(S), s # <<>>
  PROVE  LET p == s[Len(s)]
         IN  /\ Front(s) \in Seq(S)
             /\ p \in S
             /\ \A i \in DOMAIN Front(s) : i \in DOMAIN s /\ Front(s)[i] = s[i]
             /\ Distinct(s) => /\ Distinct(Front(s))
                               /\ ToSet(Front(s)) \subseteq ToSet(s) \ {p}
<1> DEFINE n == Len(s)
           f == Front(s)
<1>1. n \in Nat \ {0} /\ s[n] \in S /\ DOMAIN s = 1 .. n
  OBVIOUS
<1>2. f \in Seq(S) /\ Len(f) = n - 1 /\ \A i \in 1 .. (n - 1) : f[i] = s[i]
  BY <1>1 DEF Front
<1>3. DOMAIN f = 1 .. (n - 1)
  BY <1>2
<1> HIDE DEF f
<1>4. \A i \in DOMAIN f : i \in DOMAIN s /\ f[i] = s[i]
  BY <1>1, <1>2, <1>3
<1>5. ASSUME Distinct(s)
      PROVE  Distinct(f) /\ ToSet(f) \subseteq ToSet(s) \ {s[n]}
  <2>1. Distinct(f)
    BY <1>1, <1>2, <1>3, <1>5 DEF Distinct
  <2>2. ASSUME NEW i \in DOMAIN f PROVE s[i] \in ToSet(s) /\ s[i] # s[n]
    <3>1. i \in 1 .. n /\ n \in 1 .. n /\ i # n
      BY <1>1, <1>3
    <3>2. s[i] # s[n]
      BY <1>5, <3>1 DEF Distinct
    <3> QED BY <1>1, <3>1, <3>2 DEF ToSet
  <2>3. ASSUME NEW x \in ToSet(f) PROVE x \in ToSet(s) \ {s[n]}
    <3>1. PICK i \in DOMAIN f : x = f[i]
      BY DEF ToSet
    <3> QED BY <1>4, <2>2, <3>1
  <2> QED BY <2>1, <2>3
<1> QED BY <1>1, <1>2, <1>4, <1>5 DEF f

(* AllocatePages, for records of one page: the last page listed, or a new  *)
(* one behind the end of the file.                                         *)
Refilled(fl, pgs) ==
  IF fl.free_page_count >= 1 /\ fl.list = <<>> THEN ScanFreeList(pgs) ELSE fl

RefillWrites(fl, pgs) ==
  IF fl.free_page_count >= 1 /\ fl.list = <<>>
  THEN <<PutFreeList(Refilled(fl, pgs))>> ELSE <<>>

Popped(fl) ==
  [free_page_count |-> fl.free_page_count - 1, list |-> Front(fl.list)]

(* The three ways AllocatePages can go: with a list that has been refilled *)
(* or not, it pops the last page, or extends the file.                     *)
LEMMA AllocatedPage ==
  ASSUME PagesNeeded = 1, NEW pgs \in PageFiles, NEW fl \in FreeLists
  PROVE  LET a    == AllocatePages(fl, pgs)
             have == Refilled(fl, pgs)
         IN  IF have.free_page_count >= 1 /\ have.list # <<>>
             THEN /\ a.first = have.list[Len(have.list)]
                  /\ a.free_list = Popped(have)
                  /\ a.writes = RefillWrites(fl, pgs)
                                  \o <<PutFreeList(Popped(have))>>
             ELSE /\ a.first = TotalPages(pgs)
                  /\ a.free_list = have
                  /\ a.writes = RefillWrites(fl, pgs)
                                  \o <<PutPage(TotalPages(pgs), EmptyPage)>>
<1> DEFINE a == AllocatePages(fl, pgs)
           have == Refilled(fl, pgs)
           before == RefillWrites(fl, pgs)
           L == have.list
           starts == IF have.free_page_count < PagesNeeded THEN {}
                     ELSE {i \in DOMAIN L : Run(L[i]) \subseteq ToSet(L)}
           i == IF PagesNeeded = 1 THEN Max(starts) ELSE Min(starts)
           first == L[i]
           rest == IF PagesNeeded = 1 THEN Front(L)
                   ELSE FoldLeft(RemoveFirst, L, Ascending(Run(first)))
           left == [free_page_count |-> have.free_page_count - PagesNeeded,
                    list |-> rest]
           t == TotalPages(pgs)
<1>1. /\ have = IF fl.free_page_count >= PagesNeeded /\ fl.list = <<>>
                THEN ScanFreeList(pgs) ELSE fl
      /\ before = IF fl.free_page_count >= PagesNeeded /\ fl.list = <<>>
                  THEN <<PutFreeList(have)>> ELSE <<>>
  BY DEF Refilled, RefillWrites
<1>2. a = IF starts # {}
          THEN [first |-> first, free_list |-> left,
                writes |-> before \o <<PutFreeList(left)>>]
          ELSE [first |-> t, free_list |-> have,
                writes |-> before \o PutImage(EmptyImage(t), t)]
  <2>1. a = LET h == IF fl.free_page_count >= PagesNeeded /\ fl.list = <<>>
                     THEN ScanFreeList(pgs) ELSE fl
                b == IF fl.free_page_count >= PagesNeeded /\ fl.list = <<>>
                     THEN <<PutFreeList(h)>> ELSE <<>>
                S == IF h.free_page_count < PagesNeeded THEN {}
                     ELSE {k \in DOMAIN h.list :
                             Run(h.list[k]) \subseteq ToSet(h.list)}
                j == IF PagesNeeded = 1 THEN Max(S) ELSE Min(S)
                l == [free_page_count |-> h.free_page_count - PagesNeeded,
                      list |-> IF PagesNeeded = 1 THEN Front(h.list)
                               ELSE FoldLeft(RemoveFirst, h.list,
                                             Ascending(Run(h.list[j])))]
            IN  IF S # {}
                THEN [first |-> h.list[j], free_list |-> l,
                      writes |-> b \o <<PutFreeList(l)>>]
                ELSE [first |-> t, free_list |-> h,
                      writes |-> b \o PutImage(EmptyImage(t), t)]
    BY Zenon DEF AllocatePages
  <2> QED BY <1>1, <2>1, Zenon
<1>3. have \in FreeLists
  BY ScanLists DEF Refilled
<1>4. /\ L \in Seq(DataPages(MaxPages)) /\ have.free_page_count \in Int
      /\ DOMAIN L = 1 .. Len(L) /\ Len(L) \in Nat
      /\ L # <<>> <=> Len(L) # 0
      /\ \A k \in DOMAIN L : L[k] \in Int
  <2>1. L \in Seq(DataPages(MaxPages)) /\ have.free_page_count \in Int
    BY <1>3 DEF FreeLists
  <2>2. DataPages(MaxPages) \subseteq Int
    BY DEF DataPages
  <2> HIDE DEF have
  <2> QED BY <2>1, <2>2
<1>5. starts = IF have.free_page_count >= 1 THEN 1 .. Len(L) ELSE {}
  <2> HIDE DEF have
  <2>1. \A k \in DOMAIN L : Run(L[k]) \subseteq ToSet(L)
    <3> SUFFICES ASSUME NEW k \in DOMAIN L PROVE Run(L[k]) \subseteq ToSet(L)
      OBVIOUS
    <3>1. Run(L[k]) = {L[k]}
      BY <1>4, OnePageRun
    <3> QED BY <3>1 DEF ToSet
  <2>2. CASE have.free_page_count >= 1
    <3>1. ~(have.free_page_count < PagesNeeded)
      BY <1>4, <2>2
    <3>2. starts = DOMAIN L
      BY <2>1, <3>1, Zenon
    <3> QED BY <1>4, <2>2, <3>2, Zenon
  <2>3. CASE ~(have.free_page_count >= 1)
    <3>1. have.free_page_count < PagesNeeded
      BY <1>4, <2>3
    <3> QED BY <2>3, <3>1, Zenon
  <2> QED BY <2>2, <2>3
<1>6. CASE have.free_page_count >= 1 /\ L # <<>>
  <2>1. starts = 1 .. Len(L) /\ Len(L) \in Nat \ {0}
    BY <1>4, <1>5, <1>6
  <2>2. Max(1 .. Len(L)) = Len(L)
    <3>1. Len(L) \in 1 .. Len(L) /\ \A y \in 1 .. Len(L) : Len(L) >= y
      BY <2>1
    <3>2. \A x \in 1 .. Len(L) : (\A y \in 1 .. Len(L) : x >= y) => x = Len(L)
      BY <2>1
    <3> QED BY <3>1, <3>2 DEF Max
  <2>3. starts # {} /\ i = Len(L)
    <3>1. 1 .. Len(L) # {}
      <4>1. \A n \in Nat \ {0} : 1 .. n # {}
        <5>1. \A n \in Nat \ {0} : 1 \in 1 .. n
          OBVIOUS
        <5> QED BY <5>1
      <4>2. Len(L) \in Nat \ {0}
        BY <2>1
      <4> HIDE DEF have
      <4> QED BY <4>1, <4>2, Zenon
    <3> HIDE DEF starts, have
    <3>2. i = Max(starts)
      BY Zenon
    <3> QED BY <2>1, <2>2, <3>1, <3>2, Zenon
  <2>4. rest = Front(L) /\ left = Popped(have)
    BY DEF Popped
  <2> HIDE DEF starts, i, rest, left, have, before, a
  <2>5. /\ a.first = L[Len(L)] /\ a.free_list = Popped(have)
        /\ a.writes = before \o <<PutFreeList(Popped(have))>>
    BY <1>2, <2>3, <2>4
  <2> QED BY <1>6, <2>5, Zenon DEF a, before, have
<1>7. CASE ~(have.free_page_count >= 1 /\ L # <<>>)
  <2>1. starts = {}
    BY <1>4, <1>5, <1>7
  <2>2. t \in Int
    BY FileOfPages
  <2>3. PutImage(EmptyImage(t), t) = <<PutPage(t, EmptyPage)>>
    BY <2>2, OnePageRun, OnePageWrites
  <2> HIDE DEF starts, i, rest, left, have, before, a
  <2>4. /\ a.first = t /\ a.free_list = have
        /\ a.writes = before \o <<PutPage(t, EmptyPage)>>
    <3> HIDE DEF t
    <3> QED BY <1>2, <2>1, <2>3
  <2> QED BY <1>7, <2>4, Zenon DEF a, before, have
<1> QED BY <1>6, <1>7

(* Refilling a list that fits the pages gives one that fits them.          *)
LEMMA RefilledList ==
  ASSUME NEW pgs \in PageFiles, NEW fl \in FreeLists, ListWithin(fl, pgs)
  PROVE  LET have == Refilled(fl, pgs)
         IN  /\ have \in FreeLists /\ ListWithin(have, pgs)
             /\ FreeListOf(fl, pgs) => FreeListOf(have, pgs)
BY ScanLists DEF Refilled

(* What is left of a list when its last page has been taken.               *)
LEMMA PoppedList ==
  ASSUME NEW pgs \in PageFiles, NEW fl \in FreeLists, ListWithin(fl, pgs),
         fl.list # <<>>
  PROVE  LET p    == fl.list[Len(fl.list)]
             left == Popped(fl)
         IN  /\ left \in FreeLists /\ p \in DOMAIN pgs /\ ListWithin(left, pgs)
             /\ FreeListOf(fl, pgs) =>
                  /\ p \in EmptyPages(pgs)
                  /\ ToSet(left.list) \subseteq EmptyPages(pgs) \ {p}
                  /\ Len(left.list) = Cardinality(ToSet(left.list))
                  /\ left.free_page_count = Cardinality(EmptyPages(pgs)) - 1
<1> DEFINE L == fl.list
           p == L[Len(L)]
           left == Popped(fl)
           F == Front(L)
<1>1. fl.free_page_count \in Int /\ L \in Seq(DataPages(MaxPages))
  BY DEF FreeLists
<1>2. left.free_page_count = fl.free_page_count - 1 /\ left.list = F
      /\ left = [free_page_count |-> fl.free_page_count - 1, list |-> F]
  BY DEF Popped
<1>3. /\ F \in Seq(DataPages(MaxPages))
      /\ \A i \in DOMAIN F : i \in DOMAIN L /\ F[i] = L[i]
      /\ Distinct(L) => Distinct(F) /\ ToSet(F) \subseteq ToSet(L) \ {p}
  <2> HIDE DEF F
  <2>1. /\ Front(L) \in Seq(DataPages(MaxPages))
        /\ \A i \in DOMAIN Front(L) : i \in DOMAIN L /\ Front(L)[i] = L[i]
        /\ Distinct(L) => /\ Distinct(Front(L))
                          /\ ToSet(Front(L)) \subseteq ToSet(L) \ {L[Len(L)]}
    BY <1>1, FrontOf
  <2> QED BY <2>1 DEF F
<1>4. Len(L) \in DOMAIN L
  BY <1>1
<1> HIDE DEF F, left, L
<1>5. left \in FreeLists
  BY <1>1, <1>2, <1>3 DEF FreeLists
<1>6. p \in DOMAIN pgs /\ ListWithin(left, pgs)
  BY <1>2, <1>3, <1>4 DEF ListWithin, L
<1>7. ASSUME FreeListOf(fl, pgs)
      PROVE  /\ p \in EmptyPages(pgs)
             /\ ToSet(F) \subseteq EmptyPages(pgs) \ {p}
             /\ Len(F) = Cardinality(ToSet(F))
             /\ left.free_page_count = Cardinality(EmptyPages(pgs)) - 1
  <2>1. /\ ToSet(L) \subseteq EmptyPages(pgs)
        /\ Len(L) = Cardinality(ToSet(L))
        /\ fl.free_page_count = Cardinality(EmptyPages(pgs))
    BY <1>7 DEF FreeListOf, L
  <2>2. Distinct(L)
    BY <1>1, <2>1, DistinctCounts
  <2>3. p \in ToSet(L)
    BY <1>4 DEF ToSet
  <2>4. Len(F) = Cardinality(ToSet(F))
    BY <1>3, <2>2, DistinctCounts
  <2> QED BY <1>2, <1>3, <2>1, <2>2, <2>3, <2>4, Zenon
<1> QED BY <1>2, <1>5, <1>6, <1>7 DEF left, L

(* ReleasePages, for records of one page.                                  *)
LEMMA ReleasedList ==
  ASSUME PagesNeeded = 1, NEW pgs \in PageFiles, NEW fl \in FreeLists,
         ListWithin(fl, pgs), NEW p \in DOMAIN pgs
  PROVE  LET freed == ReleasePages(fl, p)
         IN  /\ freed \in FreeLists /\ ListWithin(freed, pgs)
             /\ FreeListOf(fl, pgs) /\ p \notin EmptyPages(pgs) =>
                  /\ ToSet(freed.list) \subseteq EmptyPages(pgs) \cup {p}
                  /\ Len(freed.list) = Cardinality(ToSet(freed.list))
                  /\ freed.free_page_count = Cardinality(EmptyPages(pgs)) + 1
<1> DEFINE L == fl.list
           N == IF Len(L) < MaxFreePages THEN Append(L, p) ELSE L
           freed == ReleasePages(fl, p)
<1>1. fl.free_page_count \in Int /\ L \in Seq(DataPages(MaxPages))
      /\ p \in DataPages(MaxPages)
  BY FileOfPages DEF FreeLists
<1>2. freed = [free_page_count |-> fl.free_page_count + 1, list |-> N]
  BY DEF ReleasePages
<1>3. /\ Append(L, p) \in Seq(DataPages(MaxPages))
      /\ Len(Append(L, p)) = Len(L) + 1
      /\ \A i \in 1 .. Len(L) : Append(L, p)[i] = L[i]
      /\ Append(L, p)[Len(L) + 1] = p
      /\ DOMAIN Append(L, p) = 1 .. (Len(L) + 1)
      /\ DOMAIN L = 1 .. Len(L) /\ Len(L) \in Nat
  BY <1>1
<1>4. ToSet(Append(L, p)) = ToSet(L) \cup {p}
  <2>1. \A x \in ToSet(Append(L, p)) : x \in ToSet(L) \cup {p}
    BY <1>3 DEF ToSet
  <2>2. \A x \in ToSet(L) : x \in ToSet(Append(L, p))
    BY <1>3 DEF ToSet
  <2>3. p \in ToSet(Append(L, p))
    BY <1>3 DEF ToSet
  <2> QED BY <2>1, <2>2, <2>3
<1>5. N \in Seq(DataPages(MaxPages)) /\ (N = L \/ N = Append(L, p))
  BY <1>1, <1>3
<1> HIDE DEF N, freed
<1>6. freed \in FreeLists
  BY <1>1, <1>2, <1>5 DEF FreeLists
<1>7. ListWithin(freed, pgs)
  <2>1. \A i \in DOMAIN L : L[i] \in DOMAIN pgs
    BY DEF ListWithin
  <2>2. \A i \in DOMAIN Append(L, p) : Append(L, p)[i] \in DOMAIN pgs
    BY <1>3, <2>1
  <2> QED BY <1>2, <1>5, <2>1, <2>2 DEF ListWithin
<1>8. ASSUME FreeListOf(fl, pgs), p \notin EmptyPages(pgs)
      PROVE  /\ ToSet(freed.list) \subseteq EmptyPages(pgs) \cup {p}
             /\ Len(freed.list) = Cardinality(ToSet(freed.list))
             /\ freed.free_page_count = Cardinality(EmptyPages(pgs)) + 1
  <2>1. /\ ToSet(L) \subseteq EmptyPages(pgs)
        /\ Len(L) = Cardinality(ToSet(L))
        /\ fl.free_page_count = Cardinality(EmptyPages(pgs))
    BY <1>8 DEF FreeListOf
  <2>2. IsFiniteSet(ToSet(L)) /\ p \notin ToSet(L)
    BY <1>1, <1>8, <2>1, DistinctCounts
  <2>3. Cardinality(ToSet(L) \cup {p}) = Cardinality(ToSet(L)) + 1
    BY <2>2, FS_AddElement
  <2>4. Len(Append(L, p)) = Cardinality(ToSet(Append(L, p)))
    BY <1>3, <1>4, <2>1, <2>3, Zenon
  <2>5. Len(N) = Cardinality(ToSet(N)) /\ ToSet(N) \subseteq ToSet(L) \cup {p}
    BY <1>4, <1>5, <2>1, <2>4, Zenon
  <2>6. freed.list = N /\ freed.free_page_count = fl.free_page_count + 1
    BY <1>2
  <2> QED BY <2>1, <2>5, <2>6, Zenon
<1> QED BY <1>6, <1>7, <1>8 DEF freed

-----------------------------------------------------------------------------
(* What it takes for files to be safe to crash with: in a transaction, ... *)
LEMMA SafeInTxn ==
  ASSUME NEW d \in Files, d.header.journal_pending, NEW cl, NEW ok
  PROVE  Safe(d, cl, ok) <=>
           /\ d.dat
           /\ JournalInFile(d)
           /\ Clean(ReplayedPages(d))
           /\ ok => Good(ReplayedPages(d), cl)
<1>1. d.dat => SurvivingPages(d) = ReplayedPages(d)
  BY DEF SurvivingPages
<1> QED BY <1>1, Zenon DEF Safe

(* ... outside one ...                                                     *)
LEMMA SafeOutside ==
  ASSUME NEW d \in Files, d.dat, ~d.header.journal_pending, NEW cl, NEW ok
  PROVE  Safe(d, cl, ok) <=>
           /\ Clean(d.pages)
           /\ ok => Good(d.pages, cl)
           /\ Serviceable(d, cl.stale, ok)
<1>1. SurvivingPages(d) = d.pages
  BY DEF SurvivingPages
<1> QED BY <1>1, Zenon DEF Safe

(* ... and while compaction has only the copy.                             *)
LEMMA SafeCopy ==
  ASSUME NEW d \in Files, ~d.dat, ~d.header.journal_pending, NEW cl, NEW ok
  PROVE  Safe(d, cl, ok) <=>
           /\ Clean(d.tmp.pages)
           /\ ok => Good(d.tmp.pages, cl)
<1>1. SurvivingPages(d) = d.tmp.pages
  BY DEF SurvivingPages
<1> QED BY <1>1, Zenon DEF Safe

(* Pages that keep every promise keep fewer.                               *)
LEMMA GoodOpen ==
  ASSUME NEW cl \in Clients, NEW ids, NEW pgs, Good(pgs, cl)
  PROVE  Good(pgs, OpenOf(cl, ids))
<1> DEFINE o == OpenOf(cl, ids)
<1>1. /\ DOMAIN o.promised = DOMAIN cl.promised \ ids
      /\ \A i \in DOMAIN o.promised : o.promised[i] = cl.promised[i]
      /\ o.gone = cl.gone \ ids
  BY Opens
<1> HIDE DEF o
<1>2. Good(pgs, o)
  BY <1>1 DEF Good, Promises
<1> QED BY <1>2 DEF o

(* Promising less is no less safe.                                         *)
LEMMA SafeOpen ==
  ASSUME NEW cl \in Clients, NEW ids, NEW d, NEW ok, Safe(d, cl, ok)
  PROVE  Safe(d, OpenOf(cl, ids), ok)
<1>1. OpenOf(cl, ids).stale = cl.stale
  BY Opens
<1>2. ok => Good(SurvivingPages(d), OpenOf(cl, ids))
  BY GoodOpen DEF Safe
<1> QED BY <1>1, <1>2, Zenon DEF Safe

Stale(cl) == [cl EXCEPT !.stale = TRUE]
Fresh(cl) == [cl EXCEPT !.stale = FALSE]

(* A client that does, or does not, rely on the index.                     *)
LEMMA StaleClient ==
  ASSUME NEW cl \in Clients
  PROVE  /\ Stale(cl) \in Clients /\ Stale(cl).stale = TRUE
         /\ Fresh(cl) \in Clients /\ Fresh(cl).stale = FALSE
         /\ cl.stale \in BOOLEAN
         /\ \A s \in BOOLEAN : cl.stale = s => cl = [cl EXCEPT !.stale = s]
         /\ \A pgs : /\ Good(pgs, cl) <=> Good(pgs, Stale(cl))
                     /\ Good(pgs, cl) <=> Good(pgs, Fresh(cl))
BY DEF Stale, Fresh, Clients, Good, Promises

(* Nor is doubting the index.                                              *)
LEMMA SafeStale ==
  ASSUME NEW cl \in Clients, NEW d, NEW ok, Safe(d, cl, ok)
  PROVE  Safe(d, Stale(cl), ok)
<1>1. ok => Good(SurvivingPages(d), Stale(cl))
  BY StaleClient DEF Safe
<1>2. Stale(cl).stale = TRUE
  BY StaleClient
<1>3. Serviceable(d, cl.stale, ok) => Serviceable(d, TRUE, ok)
  BY DEF Serviceable
<1> QED BY <1>1, <1>2, <1>3, Zenon DEF Safe

(* Nor are files that have been disturbed asked for as much.               *)
LEMMA SafeDisturbed ==
  ASSUME NEW cl, NEW d, NEW ok, Safe(d, cl, ok), NEW less, less => ok
  PROVE  Safe(d, cl, less)
BY DEF Safe, Serviceable

-----------------------------------------------------------------------------
(* In a transaction only the pages and the journal matter.                 *)
LEMMA ReplayedSame ==
  ASSUME NEW d \in Files, JournalInFile(d), NEW e \in Files,
         e.pages = d.pages, e.journal = d.journal
  PROVE  ReplayedPages(e) = ReplayedPages(d) /\ JournalInFile(e)
<1>1. JournalInFile(e)
  BY DEF JournalInFile
<1> QED BY <1>1, ReplayedIs

(* In a transaction any write to another file is safe:                     *)
LEMMA TxnKept ==
  ASSUME NEW d, NEW cl, NEW ok, Safe(d, cl, ok), d.header.journal_pending,
         NEW e \in Files, e.dat = d.dat, e.header.journal_pending,
         e.pages = d.pages, e.journal = d.journal
  PROVE  Safe(e, cl, ok) /\ ReplayedPages(e) = ReplayedPages(d)
<1>1. d \in Files
  BY DEF Safe
<1>2. /\ d.dat /\ JournalInFile(d) /\ Clean(ReplayedPages(d))
      /\ ok => Good(ReplayedPages(d), cl)
  BY <1>1, SafeInTxn
<1>3. ReplayedPages(e) = ReplayedPages(d) /\ JournalInFile(e)
  BY <1>1, <1>2, ReplayedSame
<1> QED BY <1>2, <1>3, SafeInTxn

(* ... to the free list,                                                   *)
LEMMA TxnFreeList ==
  ASSUME NEW d, NEW cl, NEW ok, Safe(d, cl, ok), d.header.journal_pending,
         NEW fl \in FreeLists
  PROVE  LET e == Apply(d, PutFreeList(fl))
         IN  /\ Moves(d, <<PutFreeList(fl)>>, e, cl, ok)
             /\ e \in Files /\ e.dat = d.dat /\ e.header = d.header
             /\ e.free_list = fl /\ e.pages = d.pages /\ e.index = d.index
             /\ e.journal = d.journal /\ e.tmp = d.tmp
             /\ ReplayedPages(e) = ReplayedPages(d)
<1> DEFINE w == PutFreeList(fl)
           e == Apply(d, w)
<1>1. d \in Files
  BY DEF Safe
<1>2. /\ e \in Files /\ e.dat = d.dat /\ e.header = d.header
      /\ e.free_list = fl /\ e.pages = d.pages /\ e.index = d.index
      /\ e.journal = d.journal /\ e.tmp = d.tmp
      /\ TornBy(d, w) = {}
  BY <1>1, FreeListPut
<1> HIDE DEF w
<1>3. TornSafe(d, w, cl, ok)
  BY <1>2 DEF TornSafe
<1>4. Safe(e, cl, ok) /\ ReplayedPages(e) = ReplayedPages(d)
  BY <1>2, TxnKept
<1>5. Moves(d, <<w>>, e, cl, ok)
  BY <1>3, <1>4, MovesOne
<1> QED BY <1>2, <1>4, <1>5 DEF w

(* ... to the index,                                                       *)
LEMMA TxnIndex ==
  ASSUME NEW d, NEW cl, NEW ok, Safe(d, cl, ok), d.header.journal_pending,
         NEW x \in Indexes
  PROVE  LET e == Apply(d, PutIndex(x.size, x.leaf))
         IN  /\ Moves(d, <<PutIndex(x.size, x.leaf)>>, e, cl, ok)
             /\ e \in Files /\ e.dat = d.dat /\ e.header = d.header
             /\ e.free_list = d.free_list /\ e.pages = d.pages
             /\ e.index = x /\ e.journal = d.journal /\ e.tmp = d.tmp
             /\ ReplayedPages(e) = ReplayedPages(d)
<1> DEFINE w == PutIndex(x.size, x.leaf)
           e == Apply(d, w)
<1>1. d \in Files
  BY DEF Safe
<1>2. /\ e \in Files /\ e.dat = d.dat /\ e.header = d.header
      /\ e.free_list = d.free_list /\ e.pages = d.pages /\ e.index = x
      /\ e.journal = d.journal /\ e.tmp = d.tmp
      /\ TornBy(d, w) = {}
  BY <1>1, IndexPut
<1> HIDE DEF w
<1>3. TornSafe(d, w, cl, ok)
  BY <1>2 DEF TornSafe
<1>4. Safe(e, cl, ok) /\ ReplayedPages(e) = ReplayedPages(d)
  BY <1>2, TxnKept
<1>5. Moves(d, <<w>>, e, cl, ok)
  BY <1>3, <1>4, MovesOne
<1> QED BY <1>2, <1>4, <1>5 DEF w

(* ... and to the header, as long as the journal stays pending.            *)
LEMMA TxnHeader ==
  ASSUME NEW d, NEW cl, NEW ok, Safe(d, cl, ok), d.header.journal_pending,
         NEW h \in Headers, h.journal_pending
  PROVE  LET e == Apply(d, PutHeader(h))
         IN  /\ Moves(d, <<PutHeader(h)>>, e, cl, ok)
             /\ e \in Files /\ e.dat = d.dat /\ e.header = h
             /\ e.free_list = d.free_list /\ e.pages = d.pages
             /\ e.index = d.index /\ e.journal = d.journal /\ e.tmp = d.tmp
             /\ ReplayedPages(e) = ReplayedPages(d)
<1> DEFINE w == PutHeader(h)
           e == Apply(d, w)
<1>1. d \in Files
  BY DEF Safe
<1>2. /\ e \in Files /\ e.dat = d.dat /\ e.header = h
      /\ e.free_list = d.free_list /\ e.pages = d.pages /\ e.index = d.index
      /\ e.journal = d.journal /\ e.tmp = d.tmp
      /\ TornBy(d, w) = {}
  BY <1>1, HeaderPut
<1> HIDE DEF w
<1>3. TornSafe(d, w, cl, ok)
  BY <1>2 DEF TornSafe
<1>4. Safe(e, cl, ok) /\ ReplayedPages(e) = ReplayedPages(d)
  BY <1>2, TxnKept
<1>5. Moves(d, <<w>>, e, cl, ok)
  BY <1>3, <1>4, MovesOne
<1> QED BY <1>2, <1>4, <1>5 DEF w

(* The file grows by an empty page.                                        *)
LEMMA PagesExtended ==
  ASSUME NEW pgs \in PageFiles, NEW t, t \notin DOMAIN pgs, NEW new,
         DOMAIN new = DOMAIN pgs \cup {t}, new[t] = EmptyPage,
         \A q \in DOMAIN pgs : new[q] = pgs[q]
  PROVE  /\ ActivePages(new) = ActivePages(pgs)
         /\ EmptyPages(new) = EmptyPages(pgs) \cup {t}
         /\ Clean(pgs) => Clean(new)
         /\ \A cl : Good(pgs, cl) => Good(new, cl)
<1>1. EmptyPage.status = PS_EMPTY /\ PS_EMPTY # PS_ACTIVE
      /\ PS_EMPTY # PS_CONTINUATION
  BY DEF EmptyPage, PS_EMPTY, PS_ACTIVE, PS_CONTINUATION
<1>2. ActivePages(new) = ActivePages(pgs)
  BY <1>1 DEF ActivePages
<1>3. EmptyPages(new) = EmptyPages(pgs) \cup {t}
  BY <1>1 DEF EmptyPages
<1>4. Clean(pgs) => Clean(new)
  BY <1>1 DEF Clean
<1>5. ASSUME NEW cl, Good(pgs, cl) PROVE Good(new, cl)
  <2>1. \A q \in ActivePages(pgs) : new[q] = pgs[q]
    BY DEF ActivePages
  <2> QED BY <1>2, <1>5, <2>1 DEF Good, Unique, Promises
<1> QED BY <1>2, <1>3, <1>4, <1>5

(* An empty page behind the end of the file is safe too.                   *)
LEMMA TxnExtend ==
  ASSUME NEW d, NEW cl, NEW ok, Safe(d, cl, ok), d.header.journal_pending,
         ReplayedPages(d) = d.pages, TotalPages(d.pages) < MaxPages
  PROVE  LET t == TotalPages(d.pages)
             w == PutPage(t, EmptyPage)
             e == Apply(d, w)
         IN  /\ Moves(d, <<w>>, e, cl, ok)
             /\ e \in Files /\ e.dat = d.dat /\ e.header = d.header
             /\ e.free_list = d.free_list /\ e.index = d.index
             /\ e.journal = d.journal /\ e.tmp = d.tmp
             /\ ReplayedPages(e) = e.pages
             /\ t \notin DOMAIN d.pages /\ t \in Nat
             /\ DOMAIN e.pages = DOMAIN d.pages \cup {t}
             /\ \A q \in DOMAIN d.pages : e.pages[q] = d.pages[q]
             /\ ActivePages(e.pages) = ActivePages(d.pages)
             /\ EmptyPages(e.pages) = EmptyPages(d.pages) \cup {t}
<1> DEFINE t == TotalPages(d.pages)
           w == PutPage(t, EmptyPage)
           e == Apply(d, w)
           pgs == d.pages
           new == PageWritten(pgs, t, EmptyPage)
           n == Len(d.journal)
<1>1. /\ d \in Files /\ d.pages \in PageFiles /\ d.dat /\ JournalInFile(d)
      /\ Clean(pgs) /\ (ok => Good(pgs, cl))
      /\ d.journal \in Seq(Entries)
  <2>1. d \in Files
    BY DEF Safe
  <2> QED BY <2>1, SafeInTxn DEF Files
<1>2. EmptyPage \in Page
  BY DEF EmptyPage, Page
<1>3. /\ new \in PageFiles /\ DOMAIN new = DOMAIN pgs \cup {t}
      /\ t \notin DOMAIN pgs /\ t \in Nat /\ new[t] = EmptyPage
      /\ \A q \in DOMAIN pgs : new[q] = pgs[q]
  BY <1>1, <1>2, PageAdded, ZenonT(60)
<1> HIDE DEF t, new
<1>4. /\ e \in Files /\ e.dat = d.dat /\ e.header = d.header
      /\ e.free_list = d.free_list /\ e.pages = new
      /\ e.index = d.index /\ e.journal = d.journal /\ e.tmp = d.tmp
  <2>1. PageWritten(d.pages, t, EmptyPage) \in PageFiles
    BY <1>3 DEF new
  <2>2. /\ e \in Files /\ e.dat = d.dat /\ e.header = d.header
        /\ e.free_list = d.free_list
        /\ e.pages = PageWritten(d.pages, t, EmptyPage)
        /\ e.index = d.index /\ e.journal = d.journal /\ e.tmp = d.tmp
    BY <1>1, <2>1, PagePut, ZenonT(60)
  <2> HIDE DEF e
  <2> QED BY <2>2 DEF new
<1>5. TornBy(d, w) = {}
  BY <1>3 DEF TornBy, PutPage
<1> HIDE DEF w, e
<1>6. JournalInFile(e)
  BY <1>1, <1>3, <1>4 DEF JournalInFile
<1>7. ReplayedPages(e) = e.pages
  <2>1. /\ ReplayedPages(d) = Replayed(pgs, d.journal, n) /\ n \in Nat
        /\ ReplayedPages(e) = Replayed(new, d.journal, n)
        /\ ReplayedPages(e) \in PageFiles
    BY <1>1, <1>4, <1>6, ReplayedIs
  <2>2. \A i \in 1 .. n : d.journal[i].page \in DOMAIN pgs
    BY <1>1 DEF JournalInFile
  <2>3. /\ DOMAIN Replayed(new, d.journal, n) = DOMAIN pgs \cup {t}
        /\ Replayed(new, d.journal, n)[t] = new[t]
        /\ \A q \in DOMAIN pgs :
             Replayed(new, d.journal, n)[q] = Replayed(pgs, d.journal, n)[q]
    <3>1. Named(d.journal, n, t) = {}
      BY <1>3, <2>2 DEF Named
    <3>2. \A q \in DOMAIN pgs : q \in DOMAIN new /\ new[q] = pgs[q] /\ q # t
      BY <1>3
    <3> HIDE DEF n, pgs
    <3> QED BY <1>3, <3>1, <3>2 DEF Replayed
  <2>4. \A q \in DOMAIN new : Replayed(new, d.journal, n)[q] = new[q]
    BY <1>3, <2>1, <2>3
  <2>5. new = [q \in DOMAIN new |-> new[q]]
    BY <1>3 DEF PageFiles
  <2>6. Replayed(new, d.journal, n)
          = [q \in DOMAIN new |-> Replayed(new, d.journal, n)[q]]
    BY DEF Replayed
  <2> QED BY <1>4, <2>1, <2>4, <2>5, <2>6
<1>8. /\ ActivePages(new) = ActivePages(pgs)
      /\ EmptyPages(new) = EmptyPages(pgs) \cup {t}
      /\ Clean(new) /\ (ok => Good(new, cl))
  <2> HIDE DEF pgs
  <2>1. pgs \in PageFiles
    BY <1>1 DEF pgs
  <2>2. /\ ActivePages(new) = ActivePages(pgs)
        /\ EmptyPages(new) = EmptyPages(pgs) \cup {t}
        /\ Clean(pgs) => Clean(new)
        /\ \A k : Good(pgs, k) => Good(new, k)
    BY <1>3, <2>1, PagesExtended
  <2>3. Clean(pgs) /\ (ok => Good(pgs, cl))
    BY <1>1, Zenon DEF pgs
  <2> QED BY <2>2, <2>3, Zenon
<1>9. Safe(e, cl, ok)
  <2>1. e.dat /\ e.header.journal_pending /\ e \in Files
    BY <1>1, <1>4
  <2>2. ReplayedPages(e) = new
    BY <1>4, <1>7
  <2>3. Safe(e, cl, ok) <=>
           /\ e.dat
           /\ JournalInFile(e)
           /\ Clean(ReplayedPages(e))
           /\ ok => Good(ReplayedPages(e), cl)
    BY <2>1, SafeInTxn
  <2> QED BY <1>6, <1>8, <2>1, <2>2, <2>3, Zenon
<1>10. TornSafe(d, w, cl, ok)
  BY <1>5 DEF TornSafe
<1>11. Moves(d, <<w>>, e, cl, ok)
  BY <1>9, <1>10, MovesOne DEF e
<1> QED BY <1>3, <1>4, <1>7, <1>8, <1>11 DEF t, w, e

(* A page the journal has an image of may hold anything.                   *)
LEMMA ReplayedOver ==
  ASSUME NEW d \in Files, JournalInFile(d), NEW e \in Files,
         e.journal = d.journal, DOMAIN e.pages = DOMAIN d.pages,
         NEW p, Named(d.journal, Len(d.journal), p) # {},
         \A q \in DOMAIN d.pages : q # p => e.pages[q] = d.pages[q]
  PROVE  ReplayedPages(e) = ReplayedPages(d) /\ JournalInFile(e)
<1>1. JournalInFile(e)
  BY DEF JournalInFile
<1>2. Replayed(e.pages, d.journal, Len(d.journal))
        = Replayed(d.pages, d.journal, Len(d.journal))
  <2> DEFINE n == Len(d.journal)
  <2>1. \A q \in DOMAIN e.pages :
          Named(d.journal, n, q) = {} => e.pages[q] = d.pages[q]
    OBVIOUS
  <2> HIDE DEF n
  <2>2. Replayed(e.pages, d.journal, n) = Replayed(d.pages, d.journal, n)
    BY <2>1 DEF Replayed
  <2> QED BY <2>2 DEF n
<1> QED BY <1>1, <1>2, ReplayedIs

(* So is a write to a page the journal has an image of.                    *)
LEMMA TxnPage ==
  ASSUME NEW d, NEW cl, NEW ok, Safe(d, cl, ok), d.header.journal_pending,
         NEW p \in DOMAIN d.pages, Named(d.journal, Len(d.journal), p) # {},
         NEW y \in Page, NEW e \in Files, e.dat = d.dat,
         e.header = d.header, e.journal = d.journal,
         e.pages = [d.pages EXCEPT ![p] = y]
  PROVE  Safe(e, cl, ok)
<1>1. d \in Files
  BY DEF Safe
<1>2. /\ d.dat /\ JournalInFile(d) /\ Clean(ReplayedPages(d))
      /\ ok => Good(ReplayedPages(d), cl)
  BY <1>1, SafeInTxn
<1>3. DOMAIN e.pages = DOMAIN d.pages
      /\ \A q \in DOMAIN d.pages : q # p => e.pages[q] = d.pages[q]
  OBVIOUS
<1>4. ReplayedPages(e) = ReplayedPages(d) /\ JournalInFile(e)
  BY <1>1, <1>2, <1>3, ReplayedOver
<1> QED BY <1>2, <1>4, SafeInTxn

(* Nor does it matter if it is written in part.                            *)
LEMMA TornPage ==
  ASSUME NEW d, NEW cl, NEW ok, Safe(d, cl, ok), d.header.journal_pending,
         NEW p \in DOMAIN d.pages, Named(d.journal, Len(d.journal), p) # {},
         NEW x \in Page
  PROVE  TornSafe(d, PutPage(p, x), cl, ok)
<1> SUFFICES ASSUME NEW t \in TornBy(d, PutPage(p, x)) PROVE Safe(t, cl, ok)
  BY DEF TornSafe
<1> DEFINE old == d.pages[p]
           y == [old EXCEPT !.id = x.id]
           z == [old EXCEPT !.id = x.id, !.status = x.status]
           Tear(a) == [d EXCEPT !.pages = [d.pages EXCEPT ![p] = a]]
<1>1. d \in Files /\ d.pages \in PageFiles
  BY DEF Safe, Files
<1>2. old \in Page
  BY <1>1 DEF PageFiles
<1>3. y \in Page /\ z \in Page
  BY <1>2 DEF Page
<1>4. t \in {[d EXCEPT !.pages[p].id = x.id],
             [d EXCEPT !.pages[p].id = x.id, !.pages[p].status = x.status]}
  BY DEF TornBy, PutPage
<1>5. t = Tear(y) \/ t = Tear(z)
  <2>1. [d EXCEPT !.pages[p].id = x.id] = Tear(y)
    BY <1>1, <1>2
  <2>2. [d EXCEPT !.pages[p].id = x.id, !.pages[p].status = x.status]
          = Tear(z)
    BY <1>1, <1>2 DEF Files, PageFiles
  <2> QED BY <1>4, <2>1, <2>2
<1> HIDE DEF y, z, old
<1>6. ASSUME NEW a \in Page PROVE Safe(Tear(a), cl, ok)
  <2>1. [d.pages EXCEPT ![p] = a] \in PageFiles
    BY <1>1, PageOverwritten
  <2>2. /\ Tear(a) \in Files /\ Tear(a).dat = d.dat
        /\ Tear(a).header = d.header /\ Tear(a).journal = d.journal
        /\ Tear(a).pages = [d.pages EXCEPT ![p] = a]
    BY <1>1, <2>1 DEF Files
  <2> HIDE DEF Tear
  <2> QED BY <2>2, TxnPage
<1> QED BY <1>3, <1>5, <1>6

(* A record of one page is written to the journal and then to its page.    *)
LEMMA TxnRecord ==
  ASSUME PagesNeeded = 1, NEW d, NEW cl, NEW ok, Safe(d, cl, ok),
         d.header.journal_pending, NEW p \in DOMAIN d.pages, NEW image,
         image[p] \in Page, image[p].status # PS_CONTINUATION,
         image[p].status = PS_ACTIVE => image[p].id \in 1 .. MaxRecordId,
         ok => Good([ReplayedPages(d) EXCEPT ![p] = image[p]], cl)
  PROVE  LET ws == JournalImage(image, p) \o PutImage(image, p)
             e  == ApplyAll(d, ws)
         IN  /\ Moves(d, ws, e, cl, ok)
             /\ e \in Files /\ e.dat = d.dat /\ e.header = d.header
             /\ e.free_list = d.free_list /\ e.index = d.index
             /\ e.tmp = d.tmp
             /\ e.pages = [d.pages EXCEPT ![p] = image[p]]
             /\ ReplayedPages(e) = [ReplayedPages(d) EXCEPT ![p] = image[p]]
<1> DEFINE x == image[p]
           j == [page |-> p, image |-> x, valid |-> TRUE]
           u == AppendJournal(j)
           v == PutPage(p, x)
           c == Apply(d, u)
           f == Apply(c, v)
           R == ReplayedPages(d)
           torn == [j EXCEPT !.valid = FALSE]
<1>1. /\ d \in Files /\ d.pages \in PageFiles /\ d.dat /\ JournalInFile(d)
      /\ Clean(R) /\ R \in PageFiles /\ DOMAIN R = DOMAIN d.pages
      /\ R = Replayed(d.pages, d.journal, Len(d.journal))
      /\ d.journal \in Seq(Entries)
      /\ ok => Good(R, cl)
  <2>1. d \in Files
    BY DEF Safe
  <2>2. d.dat /\ JournalInFile(d) /\ Clean(R) /\ (ok => Good(R, cl))
    BY <2>1, SafeInTxn
  <2> QED BY <2>1, <2>2, SafeInTxn, ReplayedIs
<1>2. p \in DataPages(MaxPages) /\ p \in Int
  BY <1>1, FileOfPages
<1>3. j \in Entries /\ torn \in Entries /\ torn.page = p /\ ~torn.valid
  BY <1>2 DEF Entries
<1>4. JournalImage(image, p) \o PutImage(image, p) = <<u>> \o <<v>>
  <2>1. JournalImage(image, p) = <<u>> /\ PutImage(image, p) = <<v>>
    BY <1>2, OnePageWrites
  <2> QED BY <2>1, Zenon
<1>5. /\ c \in Files /\ c.dat = d.dat /\ c.header = d.header
      /\ c.free_list = d.free_list /\ c.pages = d.pages
      /\ c.index = d.index /\ c.journal = Append(d.journal, j)
      /\ c.tmp = d.tmp
  BY <1>1, <1>3, EntryAppended
<1>6. TornBy(d, u) = {[d EXCEPT !.journal = Append(d.journal, torn)]}
  <2> HIDE DEF j
  <2> QED BY DEF TornBy, AppendJournal
<1>7. /\ Append(d.journal, j) \in Seq(Entries)
      /\ Replayed(d.pages, Append(d.journal, j), Len(Append(d.journal, j)))
           = [R EXCEPT ![p] = x]
      /\ Named(Append(d.journal, j), Len(Append(d.journal, j)), p) # {}
  <2> DEFINE more == Append(d.journal, j)
  <2>1. j.page = p /\ j.image = x /\ j.valid
    OBVIOUS
  <2> HIDE DEF j
  <2>2. /\ more \in Seq(Entries)
        /\ Replayed(d.pages, more, Len(more)) =
             IF j.valid
             THEN [Replayed(d.pages, d.journal, Len(d.journal))
                     EXCEPT ![j.page] = j.image]
             ELSE Replayed(d.pages, d.journal, Len(d.journal))
        /\ j.valid => Named(more, Len(more), j.page) # {}
    BY <1>1, <1>3, <2>1, ReplayAppended
  <2> HIDE DEF more
  <2> QED BY <1>1, <2>1, <2>2 DEF more
<1>8. /\ Append(d.journal, torn) \in Seq(Entries)
      /\ Replayed(d.pages, Append(d.journal, torn),
                  Len(Append(d.journal, torn))) = R
  <2> DEFINE more == Append(d.journal, torn)
  <2> HIDE DEF torn
  <2>1. /\ more \in Seq(Entries)
        /\ Replayed(d.pages, more, Len(more)) =
             IF torn.valid
             THEN [Replayed(d.pages, d.journal, Len(d.journal))
                     EXCEPT ![torn.page] = torn.image]
             ELSE Replayed(d.pages, d.journal, Len(d.journal))
    BY <1>1, <1>3, ReplayAppended, ZenonT(60)
  <2> HIDE DEF more
  <2> QED BY <1>1, <1>3, <2>1 DEF more
<1> HIDE DEF u, c
<1>9. Safe(c, cl, ok) /\ ReplayedPages(c) = [R EXCEPT ![p] = x]
  <2>1. JournalInFile(c)
    <3>1. \A i \in DOMAIN d.journal : d.journal[i].page \in DOMAIN d.pages
      BY <1>1 DEF JournalInFile
    <3>2. /\ DOMAIN Append(d.journal, j) = 1 .. (Len(d.journal) + 1)
          /\ DOMAIN d.journal = 1 .. Len(d.journal)
          /\ Len(d.journal) \in Nat
          /\ \A i \in 1 .. Len(d.journal) : Append(d.journal, j)[i] = d.journal[i]
          /\ Append(d.journal, j)[Len(d.journal) + 1] = j
      <4> HIDE DEF j
      <4> QED BY <1>1, <1>3
    <3>3. \A i \in DOMAIN Append(d.journal, j) :
            Append(d.journal, j)[i].page \in DOMAIN d.pages
      BY <3>1, <3>2
    <3> QED BY <1>5, <3>3 DEF JournalInFile
  <2>2. ReplayedPages(c) = [R EXCEPT ![p] = x]
    BY <1>5, <1>7, <2>1, ReplayedIs
  <2>3. Clean([R EXCEPT ![p] = x])
    BY <1>1, CleanChanged
  <2> QED BY <1>1, <1>5, <2>1, <2>2, <2>3, SafeInTxn
<1>10. TornSafe(d, u, cl, ok)
  <2> DEFINE t == [d EXCEPT !.journal = Append(d.journal, torn)]
  <2>1. /\ t \in Files /\ t.dat = d.dat /\ t.header = d.header
        /\ t.pages = d.pages /\ t.journal = Append(d.journal, torn)
    <3> HIDE DEF torn
    <3> QED BY <1>1, <1>8 DEF Files
  <2> HIDE DEF t
  <2>2. JournalInFile(t)
    <3>1. \A i \in DOMAIN d.journal : d.journal[i].page \in DOMAIN d.pages
      BY <1>1 DEF JournalInFile
    <3>2. /\ DOMAIN Append(d.journal, torn) = 1 .. (Len(d.journal) + 1)
          /\ DOMAIN d.journal = 1 .. Len(d.journal)
          /\ Len(d.journal) \in Nat
          /\ \A i \in 1 .. Len(d.journal) :
               Append(d.journal, torn)[i] = d.journal[i]
          /\ Append(d.journal, torn)[Len(d.journal) + 1] = torn
      <4> HIDE DEF torn
      <4> QED BY <1>1, <1>3
    <3>3. torn.page \in DOMAIN d.pages
      BY <1>3
    <3> HIDE DEF torn
    <3>4. \A i \in DOMAIN Append(d.journal, torn) :
            Append(d.journal, torn)[i].page \in DOMAIN d.pages
      BY <3>1, <3>2, <3>3
    <3> QED BY <2>1, <3>4 DEF JournalInFile
  <2>3. ReplayedPages(t) = R
    BY <1>8, <2>1, <2>2, ReplayedIs
  <2>4. Safe(t, cl, ok)
    BY <1>1, <2>1, <2>2, <2>3, SafeInTxn
  <2> QED BY <1>6, <2>4 DEF TornSafe, t
<1>11. Moves(d, <<u>>, c, cl, ok)
  BY <1>9, <1>10, MovesOne DEF c
<1>12. /\ f \in Files /\ f.dat = c.dat /\ f.header = c.header
       /\ f.free_list = c.free_list /\ f.pages = [d.pages EXCEPT ![p] = x]
       /\ f.index = c.index /\ f.journal = c.journal /\ f.tmp = c.tmp
  <2>1. /\ PageWritten(c.pages, p, x) = [d.pages EXCEPT ![p] = x]
        /\ PageWritten(c.pages, p, x) \in PageFiles
    BY <1>1, <1>5, PageOverwritten
  <2> QED BY <1>5, <2>1, PagePut
<1>13. TornSafe(c, v, cl, ok)
  BY <1>5, <1>7, <1>9, TornPage
<1>14. Safe(f, cl, ok) /\ ReplayedPages(f) = ReplayedPages(c)
  <2> HIDE DEF f
  <2>1. /\ c.header.journal_pending /\ p \in DOMAIN c.pages /\ x \in Page
        /\ Named(c.journal, Len(c.journal), p) # {}
        /\ f.pages = [c.pages EXCEPT ![p] = x]
        /\ f \in Files /\ f.dat = c.dat /\ f.header = c.header
        /\ f.journal = c.journal
    BY <1>5, <1>7, <1>12
  <2>2. Safe(f, cl, ok)
    BY <1>9, <2>1, TxnPage
  <2>3. JournalInFile(c)
    BY <1>5, <1>9, SafeInTxn
  <2>4. DOMAIN f.pages = DOMAIN c.pages
        /\ \A q \in DOMAIN c.pages : q # p => f.pages[q] = c.pages[q]
    BY <2>1
  <2>5. ReplayedPages(f) = ReplayedPages(c)
    BY <1>5, <2>1, <2>3, <2>4, ReplayedOver
  <2> QED BY <2>2, <2>5
<1>15. Moves(c, <<v>>, f, cl, ok)
  BY <1>9, <1>13, <1>14, MovesOne
<1>16. Moves(d, <<u>> \o <<v>>, f, cl, ok)
  BY <1>11, <1>15, MovesThen
<1>17. f = ApplyAll(d, <<u>> \o <<v>>)
  BY <1>16 DEF Moves
<1> HIDE DEF f, v
<1> QED BY <1>4, <1>5, <1>9, <1>12, <1>14, <1>16, <1>17

(* The free list is refilled from the pages, if it has to be.              *)
LEMMA TxnRefill ==
  ASSUME NEW d, NEW cl, NEW ok, Safe(d, cl, ok), d.header.journal_pending,
         ListInFile(d)
  PROVE  LET ws == RefillWrites(d.free_list, d.pages)
             e  == ApplyAll(d, ws)
         IN  /\ Moves(d, ws, e, cl, ok)
             /\ e \in Files /\ e.dat = d.dat /\ e.header = d.header
             /\ e.free_list = Refilled(d.free_list, d.pages)
             /\ e.pages = d.pages /\ e.index = d.index
             /\ e.journal = d.journal /\ e.tmp = d.tmp
             /\ ReplayedPages(e) = ReplayedPages(d)
<1> DEFINE have == Refilled(d.free_list, d.pages)
           ws == RefillWrites(d.free_list, d.pages)
           e == ApplyAll(d, ws)
           empty == d.free_list.free_page_count >= 1 /\ d.free_list.list = <<>>
<1>1. d \in Files /\ d.free_list \in FreeLists /\ d.pages \in PageFiles
  BY DEF Safe, Files
<1>2. have \in FreeLists
  BY <1>1, RefilledList DEF ListInFile, ListWithin
<1>3. CASE empty
  <2> DEFINE f == Apply(d, PutFreeList(have))
  <2>1. ws = <<PutFreeList(have)>>
    BY <1>3 DEF RefillWrites
  <2>2. /\ Moves(d, <<PutFreeList(have)>>, f, cl, ok)
        /\ f \in Files /\ f.dat = d.dat /\ f.header = d.header
        /\ f.free_list = have /\ f.pages = d.pages /\ f.index = d.index
        /\ f.journal = d.journal /\ f.tmp = d.tmp
        /\ ReplayedPages(f) = ReplayedPages(d)
    BY <1>2, TxnFreeList
  <2> HIDE DEF f, have
  <2>3. f = e
    BY <2>1, <2>2 DEF Moves
  <2> HIDE DEF ws, e
  <2> QED BY <2>1, <2>2, <2>3 DEF ws, e, have
<1>4. CASE ~empty
  <2>1. ws = <<>> /\ have = d.free_list
    BY <1>4 DEF RefillWrites, Refilled
  <2>2. Moves(d, <<>>, d, cl, ok)
    BY MovesNone
  <2>3. d = ApplyAll(d, <<>>)
    BY <2>2 DEF Moves
  <2> HIDE DEF ws, have, e
  <2>4. e = d /\ Moves(d, ws, e, cl, ok)
    BY <2>1, <2>2, <2>3 DEF e
  <2> QED BY <1>1, <2>1, <2>4 DEF ws, e, have
<1> QED BY <1>3, <1>4

(* A page is allocated in a transaction.                                   *)
LEMMA TxnAllocate ==
  ASSUME PagesNeeded = 1, NEW d, NEW cl, NEW ok, Safe(d, cl, ok),
         d.header.journal_pending, ReplayedPages(d) = d.pages, ListInFile(d),
         AllocatePages(d.free_list, d.pages).first + 1 <= MaxPages
  PROVE  LET a == AllocatePages(d.free_list, d.pages)
             e == ApplyAll(d, a.writes)
         IN  /\ Moves(d, a.writes, e, cl, ok)
             /\ e \in Files /\ e.dat = d.dat /\ e.header = d.header
             /\ e.index = d.index /\ e.tmp = d.tmp
             /\ e.free_list = a.free_list
             /\ ReplayedPages(e) = e.pages
             /\ a.first \in DOMAIN e.pages
             /\ DOMAIN d.pages \subseteq DOMAIN e.pages
             /\ \A q \in DOMAIN d.pages : e.pages[q] = d.pages[q]
             /\ ActivePages(e.pages) = ActivePages(d.pages)
             /\ ListInFile(e)
             /\ FreeListExact(d) =>
                  /\ a.first \in EmptyPages(e.pages)
                  /\ ToSet(e.free_list.list)
                       \subseteq EmptyPages(e.pages) \ {a.first}
                  /\ Len(e.free_list.list)
                       = Cardinality(ToSet(e.free_list.list))
                  /\ e.free_list.free_page_count
                       = Cardinality(EmptyPages(e.pages)) - 1
<1> DEFINE a == AllocatePages(d.free_list, d.pages)
           have == Refilled(d.free_list, d.pages)
           before == RefillWrites(d.free_list, d.pages)
           c == ApplyAll(d, before)
           e == ApplyAll(d, a.writes)
           pgs == d.pages
<1>1. d \in Files /\ d.free_list \in FreeLists /\ pgs \in PageFiles
  BY DEF Safe, Files
<1>2. /\ have \in FreeLists /\ ListWithin(have, pgs)
      /\ FreeListExact(d) => FreeListOf(have, pgs)
  BY <1>1, RefilledList
     DEF ListInFile, ListWithin, FreeListExact, FreeListOf
<1>3. /\ Moves(d, before, c, cl, ok)
      /\ c \in Files /\ c.dat = d.dat /\ c.header = d.header
      /\ c.free_list = have
      /\ c.pages = d.pages /\ c.index = d.index
      /\ c.journal = d.journal /\ c.tmp = d.tmp
      /\ ReplayedPages(c) = ReplayedPages(d)
  BY TxnRefill
<1>4. Safe(c, cl, ok)
  BY <1>3, MovesEnds
<1>5. IF have.free_page_count >= 1 /\ have.list # <<>>
      THEN /\ a.first = have.list[Len(have.list)]
           /\ a.free_list = Popped(have)
           /\ a.writes = before \o <<PutFreeList(Popped(have))>>
      ELSE /\ a.first = TotalPages(pgs)
           /\ a.free_list = have
           /\ a.writes = before \o <<PutPage(TotalPages(pgs), EmptyPage)>>
  BY <1>1, AllocatedPage
<1> HIDE DEF a, have, before, c
<1>6. CASE have.free_page_count >= 1 /\ have.list # <<>>
  <2> DEFINE left == Popped(have)
             w == PutFreeList(left)
             f == Apply(c, w)
             p == have.list[Len(have.list)]
  <2>1. a.first = p /\ a.free_list = left /\ a.writes = before \o <<w>>
    BY <1>5, <1>6
  <2>2. /\ left \in FreeLists /\ p \in DOMAIN pgs /\ ListWithin(left, pgs)
        /\ FreeListOf(have, pgs) =>
             /\ p \in EmptyPages(pgs)
             /\ ToSet(left.list) \subseteq EmptyPages(pgs) \ {p}
             /\ Len(left.list) = Cardinality(ToSet(left.list))
             /\ left.free_page_count = Cardinality(EmptyPages(pgs)) - 1
    BY <1>1, <1>2, <1>6, PoppedList
  <2> HIDE DEF left, p, w, f
  <2>3. /\ Moves(c, <<w>>, f, cl, ok)
        /\ f \in Files /\ f.dat = c.dat /\ f.header = c.header
        /\ f.free_list = left /\ f.pages = c.pages /\ f.index = c.index
        /\ f.journal = c.journal /\ f.tmp = c.tmp
        /\ ReplayedPages(f) = ReplayedPages(c)
    <3>1. c.header.journal_pending /\ left \in FreeLists
      BY <1>3, <2>2
    <3> QED BY <1>4, <3>1, TxnFreeList DEF w, f
  <2>4. Moves(d, a.writes, f, cl, ok)
    BY <1>3, <2>1, <2>3, MovesThen
  <2>5. f = e
    BY <2>4 DEF Moves
  <2> HIDE DEF e
  <2>6. /\ f.pages = pgs /\ f.free_list = left /\ a.first = p
        /\ ReplayedPages(f) = f.pages /\ f.dat = d.dat
        /\ f.header = d.header /\ f.index = d.index /\ f.tmp = d.tmp
    BY <1>3, <2>1, <2>3
  <2>7. ListInFile(f)
    BY <2>2, <2>6 DEF ListInFile, ListWithin
  <2> QED BY <1>2, <2>1, <2>2, <2>3, <2>4, <2>5, <2>6, <2>7 DEF a, e
<1>7. CASE ~(have.free_page_count >= 1 /\ have.list # <<>>)
  <2> DEFINE t == TotalPages(pgs)
             w == PutPage(t, EmptyPage)
             f == Apply(c, w)
  <2>1. a.first = t /\ a.free_list = have /\ a.writes = before \o <<w>>
    BY <1>5, <1>7
  <2>2. t < MaxPages
    <3>1. t \in Nat /\ MaxPages \in Nat
      BY <1>1, FileOfPages, BoundsAssumption
    <3>2. t + 1 <= MaxPages
      BY <2>1 DEF a
    <3> QED BY <3>1, <3>2
  <2>3. /\ Moves(c, <<w>>, f, cl, ok)
        /\ f \in Files /\ f.dat = c.dat /\ f.header = c.header
        /\ f.free_list = c.free_list /\ f.index = c.index
        /\ f.journal = c.journal /\ f.tmp = c.tmp
        /\ ReplayedPages(f) = f.pages
        /\ t \notin DOMAIN pgs /\ t \in Nat
        /\ DOMAIN f.pages = DOMAIN pgs \cup {t}
        /\ \A q \in DOMAIN pgs : f.pages[q] = pgs[q]
        /\ ActivePages(f.pages) = ActivePages(pgs)
        /\ EmptyPages(f.pages) = EmptyPages(pgs) \cup {t}
    <3>1. /\ c.header.journal_pending /\ ReplayedPages(c) = c.pages
          /\ TotalPages(c.pages) < MaxPages /\ TotalPages(c.pages) = t
      BY <1>3, <2>2
    <3> HIDE DEF t
    <3>2. LET g == Apply(c, PutPage(TotalPages(c.pages), EmptyPage))
          IN  /\ Moves(c, <<PutPage(TotalPages(c.pages), EmptyPage)>>, g, cl, ok)
              /\ g \in Files /\ g.dat = c.dat /\ g.header = c.header
              /\ g.free_list = c.free_list /\ g.index = c.index
              /\ g.journal = c.journal /\ g.tmp = c.tmp
              /\ ReplayedPages(g) = g.pages
              /\ TotalPages(c.pages) \notin DOMAIN c.pages
              /\ TotalPages(c.pages) \in Nat
              /\ DOMAIN g.pages = DOMAIN c.pages \cup {TotalPages(c.pages)}
              /\ \A q \in DOMAIN c.pages : g.pages[q] = c.pages[q]
              /\ ActivePages(g.pages) = ActivePages(c.pages)
              /\ EmptyPages(g.pages) = EmptyPages(c.pages) \cup {TotalPages(c.pages)}
      BY <1>4, <3>1, TxnExtend
    <3>3. f = Apply(c, PutPage(TotalPages(c.pages), EmptyPage))
          /\ w = PutPage(TotalPages(c.pages), EmptyPage)
      BY <3>1
    <3> HIDE DEF f, w
    <3> QED BY <1>3, <3>1, <3>2, <3>3
  <2> HIDE DEF w, f, t
  <2>4. Moves(d, a.writes, f, cl, ok)
    BY <1>3, <2>1, <2>3, MovesThen
  <2>5. f = e
    BY <2>4 DEF Moves
  <2> HIDE DEF e
  <2>6. /\ f.free_list = have /\ f.dat = d.dat
        /\ f.header = d.header /\ f.index = d.index /\ f.tmp = d.tmp
    BY <1>3, <2>3
  <2>7. ListInFile(f)
    BY <1>2, <2>3, <2>6 DEF ListInFile, ListWithin
  <2>8. ASSUME FreeListExact(d)
        PROVE  /\ t \in EmptyPages(f.pages)
               /\ ToSet(have.list) \subseteq EmptyPages(f.pages) \ {t}
               /\ Len(have.list) = Cardinality(ToSet(have.list))
               /\ have.free_page_count = Cardinality(EmptyPages(f.pages)) - 1
    <3>1. /\ ToSet(have.list) \subseteq EmptyPages(pgs)
          /\ Len(have.list) = Cardinality(ToSet(have.list))
          /\ have.free_page_count = Cardinality(EmptyPages(pgs))
      BY <1>2, <2>8 DEF FreeListOf
    <3>2. IsFiniteSet(EmptyPages(pgs)) /\ Cardinality(EmptyPages(pgs)) \in Nat
          /\ EmptyPages(pgs) \subseteq DOMAIN pgs
      BY <1>1, FileOfPages
    <3>3. t \notin EmptyPages(pgs)
      BY <2>3, <3>2
    <3>4. Cardinality(EmptyPages(f.pages)) = Cardinality(EmptyPages(pgs)) + 1
      <4> DEFINE E == EmptyPages(pgs)
      <4>1. IsFiniteSet(E) /\ t \notin E
        BY <3>2, <3>3
      <4> HIDE DEF E
      <4>2. Cardinality(E \cup {t}) = Cardinality(E) + 1
        BY <4>1, FS_AddElement
      <4> QED BY <2>3, <4>2 DEF E
    <3>5. have.free_page_count = Cardinality(EmptyPages(f.pages)) - 1
      BY <3>1, <3>2, <3>4
    <3>6. ToSet(have.list) \subseteq EmptyPages(f.pages) \ {t}
          /\ t \in EmptyPages(f.pages)
      BY <2>3, <3>1, <3>3
    <3> QED BY <3>1, <3>5, <3>6, Zenon
  <2>9. DOMAIN pgs \subseteq DOMAIN f.pages /\ t \in DOMAIN f.pages
    BY <2>3
  <2> QED BY <2>1, <2>3, <2>4, <2>5, <2>6, <2>7, <2>8, <2>9, Zenon DEF a, e
<1> QED BY <1>6, <1>7

-----------------------------------------------------------------------------
(* Leaves that name the pages of a set, each under its id.                 *)
OneEach(leaf, S, pgs) ==
  /\ DOMAIN leaf = {pgs[p].id : p \in S}
  /\ \A p \in S : leaf[pgs[p].id] = <<p>>
  /\ \A p, q \in S : pgs[p].id = pgs[q].id => p = q

LeafWithin(leaf, S) ==
  \A k \in DOMAIN leaf : \A i \in DOMAIN leaf[k] : leaf[k][i] \in S

(* Such a leaf has as many keys as there are pages.                        *)
LEMMA OneEachCounts ==
  ASSUME NEW leaf, NEW S, IsFiniteSet(S), NEW pgs, OneEach(leaf, S, pgs)
  PROVE  /\ IsFiniteSet(DOMAIN leaf)
         /\ Cardinality(DOMAIN leaf) = Cardinality(S)
         /\ Cardinality(S) \in Nat
<1> DEFINE f == [p \in S |-> pgs[p].id]
           D == DOMAIN leaf
<1>1. f \in [S -> D] /\ \A y \in D : \E p \in S : f[p] = y
  BY DEF OneEach
<1>2. \A p, q \in S : f[p] = f[q] => p = q
  BY DEF OneEach
<1> HIDE DEF f, D
<1>3. f \in Bijection(S, D)
  BY <1>1, <1>2 DEF Bijection, Injection, Surjection, IsInjective
<1>4. ExistsBijection(S, D)
  BY <1>3 DEF ExistsBijection
<1>5. IsFiniteSet(D) /\ Cardinality(D) = Cardinality(S)
  BY <1>4, FS_Bijection
<1> QED BY <1>5, FS_CardinalityType DEF D

(* A page more is inserted if there is room for its id.                    *)
NewId(id, S, pgs) == \A q \in S : pgs[q].id # id

HasRoom(leaf, id, p) ==
  Cardinality(DOMAIN leaf) < BT_MAX_KEYS /\ Fits(WithEntry(leaf, id, <<p>>))

(* A leaf has room for a new id iff one more record fits.                  *)
LEMMA OneEachFits ==
  ASSUME NEW leaf, NEW S, IsFiniteSet(S), NEW pgs, OneEach(leaf, S, pgs),
         NEW p, NEW id, NewId(id, S, pgs)
  PROVE  /\ HasRoom(leaf, id, p) <=> Room(Cardinality(S) + 1)
         /\ DOMAIN WithEntry(leaf, id, <<p>>) = DOMAIN leaf \cup {id}
         /\ id \notin DOMAIN leaf
<1> DEFINE n == Cardinality(S)
           grown == WithEntry(leaf, id, <<p>>)
           room == Cardinality(DOMAIN leaf) < BT_MAX_KEYS /\ Fits(grown)
<1>1. IsFiniteSet(DOMAIN leaf) /\ Cardinality(DOMAIN leaf) = n /\ n \in Nat
  BY OneEachCounts
<1>2. id \notin DOMAIN leaf /\ DOMAIN leaf = {pgs[q].id : q \in S}
  BY DEF OneEach, NewId
<1>3. /\ DOMAIN grown = DOMAIN leaf \cup {id}
      /\ grown[id] = <<p>>
      /\ \A k \in DOMAIN leaf : grown[k] = leaf[k]
  BY <1>2 DEF WithEntry
<1> HIDE DEF grown
<1>5. \A k \in DOMAIN grown : Len(grown[k]) = 1
  <2>1. \A k \in DOMAIN leaf : \E q \in S : leaf[k] = <<q>>
    BY DEF OneEach
  <2>2. \A x : Len(<<x>>) = 1
    OBVIOUS
  <2> QED BY <1>3, <2>1, <2>2
<1>6. Cardinality(DOMAIN grown) = n + 1 /\ IsFiniteSet(DOMAIN grown)
  <2> DEFINE D == DOMAIN leaf
  <2>1. id \notin D /\ IsFiniteSet(D) /\ Cardinality(D) = n
        /\ DOMAIN grown = D \cup {id}
    <3>1. id \notin DOMAIN leaf
      BY <1>2
    <3> QED BY <1>1, <1>3, <3>1
  <2> HIDE DEF D, n
  <2>2. Cardinality(D \cup {id}) = Cardinality(D) + 1 /\ IsFiniteSet(D \cup {id})
    BY <2>1, FS_AddElement
  <2> QED BY <2>1, <2>2
<1>7. LeafBytes(grown) = 7 + 14 * (n + 1)
  <2>1. LeafBytes(grown) = 7 + 14 * Cardinality(DOMAIN grown)
    BY <1>5, <1>6, SingleValuesBytes
  <2> QED BY <1>6, <2>1
<1>8. room <=> Room(n + 1)
  <2> HIDE DEF n
  <2>1. Cardinality(DOMAIN leaf) < BT_MAX_KEYS <=> n + 1 <= BT_MAX_KEYS
    BY <1>1, LeafLimitsAssumption
  <2>2. Fits(grown) <=> 7 + 14 * (n + 1) <= BT_PAGE_SIZE
    BY <1>7 DEF Fits
  <2>3. n + 1 # 0
    BY <1>1
  <2> QED BY <2>1, <2>2, <2>3, Zenon DEF Room
<1> QED BY <1>2, <1>3, <1>8 DEF grown, HasRoom

(* BTreeInsert of a key that is not in the leaf.                           *)
LEMMA InsertNew ==
  ASSUME NEW leaf, NEW id, id \notin DOMAIN leaf, NEW p
  PROVE  LeafInsert(leaf, id, p) =
           IF HasRoom(leaf, id, p)
           THEN [ok |-> TRUE, leaf |-> WithEntry(leaf, id, <<p>>)]
           ELSE [ok |-> FALSE, leaf |-> leaf]
<1> DEFINE grown == WithEntry(leaf, id, <<p>>)
           room == HasRoom(leaf, id, p)
           r == LeafInsert(leaf, id, p)
<1>1. room <=> Cardinality(DOMAIN leaf) < BT_MAX_KEYS /\ Fits(grown)
  BY DEF HasRoom
<1>2. id \notin DOMAIN leaf
  OBVIOUS
<1> HIDE DEF room
<1>3. r = IF room THEN [ok |-> TRUE, leaf |-> grown]
                  ELSE [ok |-> FALSE, leaf |-> leaf]
  <2>1. ~Contains(<<>>, p) /\ Append(<<>>, p) = <<p>>
    BY DEF Contains
  <2> HIDE DEF grown
  <2>2. LeafInsert(leaf, id, p) =
          LET values == <<>>
          IN  CASE Contains(values, p) -> [ok |-> TRUE, leaf |-> leaf]
                [] ~Contains(values, p) /\ Cardinality(DOMAIN leaf) < BT_MAX_KEYS
                   /\ Fits(WithEntry(leaf, id, Append(values, p)))
                     -> [ok |-> TRUE,
                         leaf |-> WithEntry(leaf, id, Append(values, p))]
                [] ~Contains(values, p) /\ ~(Cardinality(DOMAIN leaf) < BT_MAX_KEYS
                   /\ Fits(WithEntry(leaf, id, Append(values, p))))
                     -> [ok |-> FALSE, leaf |-> leaf]
    BY <1>2 DEF LeafInsert
  <2>3. grown = WithEntry(leaf, id, Append(<<>>, p))
    BY <2>1 DEF grown
  <2> HIDE DEF r
  <2>4. r = CASE Contains(<<>>, p) -> [ok |-> TRUE, leaf |-> leaf]
              [] ~Contains(<<>>, p) /\ room -> [ok |-> TRUE, leaf |-> grown]
              [] ~Contains(<<>>, p) /\ ~room -> [ok |-> FALSE, leaf |-> leaf]
    BY <2>2, <2>3 DEF r
  <2> QED BY <2>1, <2>4
<1> QED BY <1>3 DEF r, room, grown

(* So the insert succeeds iff there is room,                               *)
LEMMA OneEachInsert ==
  ASSUME NEW leaf, NEW S, IsFiniteSet(S), NEW pgs, OneEach(leaf, S, pgs),
         NEW p, NEW id, NewId(id, S, pgs)
  PROVE  /\ (LeafInsert(leaf, id, p).ok <=> Room(Cardinality(S) + 1))
         /\ DOMAIN WithEntry(leaf, id, <<p>>) = DOMAIN leaf \cup {id}
<1>1. HasRoom(leaf, id, p) <=> Room(Cardinality(S) + 1)
  BY OneEachFits
<1>2. id \notin DOMAIN leaf
  BY OneEachFits
<1>3. DOMAIN WithEntry(leaf, id, <<p>>) = DOMAIN leaf \cup {id}
  BY OneEachFits
<1>4. LeafInsert(leaf, id, p) =
        IF HasRoom(leaf, id, p)
        THEN [ok |-> TRUE, leaf |-> WithEntry(leaf, id, <<p>>)]
        ELSE [ok |-> FALSE, leaf |-> leaf]
  BY <1>2, InsertNew
<1> QED BY <1>1, <1>3, <1>4

(* ... and if there is, the leaf has the new entry,                        *)
LEMMA OneEachRoom ==
  ASSUME NEW leaf, NEW S, IsFiniteSet(S), NEW pgs, OneEach(leaf, S, pgs),
         NEW p, NEW id, NewId(id, S, pgs),
         Room(Cardinality(S) + 1)
  PROVE  LeafInsert(leaf, id, p) =
           [ok |-> TRUE, leaf |-> WithEntry(leaf, id, <<p>>)]
<1>1. HasRoom(leaf, id, p) <=> Room(Cardinality(S) + 1)
  BY OneEachFits
<1>2. id \notin DOMAIN leaf
  BY OneEachFits
<1>3. DOMAIN WithEntry(leaf, id, <<p>>) = DOMAIN leaf \cup {id}
  BY OneEachFits
<1>4. LeafInsert(leaf, id, p) =
        IF HasRoom(leaf, id, p)
        THEN [ok |-> TRUE, leaf |-> WithEntry(leaf, id, <<p>>)]
        ELSE [ok |-> FALSE, leaf |-> leaf]
  BY <1>2, InsertNew
<1> QED BY <1>1, <1>3, <1>4

(* ... with which it names one page more.                                  *)
LEMMA OneEachGrown ==
  ASSUME NEW leaf, NEW S, NEW pgs, OneEach(leaf, S, pgs),
         NEW p, NEW id, \A q \in S : pgs[q].id # id,
         NEW new, \A q \in S : new[q].id = pgs[q].id, new[p].id = id
  PROVE  OneEach(WithEntry(leaf, id, <<p>>), S \cup {p}, new)
<1> DEFINE grown == WithEntry(leaf, id, <<p>>)
<1>1. id \notin DOMAIN leaf /\ DOMAIN leaf = {pgs[q].id : q \in S}
  BY DEF OneEach
<1>2. /\ DOMAIN grown = DOMAIN leaf \cup {id}
      /\ grown[id] = <<p>>
      /\ \A k \in DOMAIN leaf : grown[k] = leaf[k]
  BY <1>1 DEF WithEntry
<1> HIDE DEF grown
<1>3. \A q \in S : grown[new[q].id] = <<q>> /\ new[q].id # id
  BY <1>1, <1>2 DEF OneEach
<1>4. DOMAIN grown = {new[q].id : q \in S \cup {p}}
  BY <1>1, <1>2
<1>5. \A q, s \in S : new[q].id = new[s].id => q = s
  BY DEF OneEach
<1>6. OneEach(grown, S \cup {p}, new)
  BY <1>2, <1>3, <1>4, <1>5 DEF OneEach
<1> QED BY <1>6 DEF grown

(* The leaf of an exact index names each active page once.                 *)
LEMMA ExactOneEach ==
  ASSUME NEW d, d.pages \in PageFiles, LeafOK(d.index.leaf), Unique(d.pages),
         IndexExact(d)
  PROVE  OneEach(d.index.leaf, ActivePages(d.pages), d.pages)
<1> DEFINE leaf == d.index.leaf
           pgs == d.pages
           A == ActivePages(pgs)
<1>1. /\ \A id \in DOMAIN leaf : \A p \in ToSet(leaf[id]) :
           p \in A /\ pgs[p].id = id
      /\ \A p \in A : pgs[p].id \in DOMAIN leaf /\ leaf[pgs[p].id][1] = p
  BY DEF IndexExact, IndexHas, IndexPage
<1>2. \A p, q \in A : pgs[p].id = pgs[q].id => p = q
  BY DEF Unique
<1>3. \A k \in DOMAIN leaf :
        leaf[k] \in Seq(Nat) /\ leaf[k] # <<>> /\ Distinct(leaf[k])
  BY DEF LeafOK
<1> HIDE DEF leaf, pgs, A
<1>4. ASSUME NEW k \in DOMAIN leaf
      PROVE  \E p \in A : pgs[p].id = k /\ leaf[k] = <<p>>
  <2> DEFINE s == leaf[k]
  <2>1. s \in Seq(Nat) /\ Len(s) \in Nat \ {0} /\ DOMAIN s = 1 .. Len(s)
    BY <1>3
  <2>2. \A i \in 1 .. Len(s) : s[i] \in A /\ pgs[s[i]].id = k
    BY <1>1, <2>1 DEF ToSet
  <2>3. \A i, j \in 1 .. Len(s) : i = j
    <3>1. \A i, j \in 1 .. Len(s) : s[i] = s[j]
      BY <1>2, <2>2
    <3> QED BY <1>3, <3>1 DEF Distinct
  <2>4. Len(s) = 1
    <3>1. 1 \in 1 .. Len(s) /\ Len(s) \in 1 .. Len(s)
      BY <2>1
    <3> QED BY <2>3, <3>1
  <2>5. s = <<s[1]>>
    BY <2>1, <2>4
  <2>6. 1 \in 1 .. Len(s)
    BY <2>4
  <2> QED BY <2>2, <2>5, <2>6
<1>5. \A p \in A : leaf[pgs[p].id] = <<p>>
  <2> SUFFICES ASSUME NEW p \in A PROVE leaf[pgs[p].id] = <<p>>
    OBVIOUS
  <2>1. pgs[p].id \in DOMAIN leaf
    BY <1>1
  <2>2. PICK q \in A : pgs[q].id = pgs[p].id /\ leaf[pgs[p].id] = <<q>>
    BY <1>4, <2>1
  <2> QED BY <1>2, <2>2
<1>6. DOMAIN leaf = {pgs[p].id : p \in A}
  BY <1>1, <1>4
<1> QED BY <1>2, <1>5, <1>6 DEF OneEach, leaf, pgs, A

(* And a leaf that names each active page once is an exact index.          *)
LEMMA OneEachExact ==
  ASSUME NEW d, d.index.size = 2,
         OneEach(d.index.leaf, ActivePages(d.pages), d.pages)
  PROVE  IndexExact(d)
<1> DEFINE leaf == d.index.leaf
           pgs == d.pages
           A == ActivePages(pgs)
<1>1. /\ DOMAIN leaf = {pgs[p].id : p \in A}
      /\ \A p \in A : leaf[pgs[p].id] = <<p>>
  BY DEF OneEach
<1>2. \A x : ToSet(<<x>>) = {x} /\ <<x>>[1] = x
  BY DEF ToSet
<1> HIDE DEF leaf, pgs, A
<1>3. \A id \in DOMAIN leaf : \A p \in ToSet(leaf[id]) :
        p \in A /\ pgs[p].id = id
  <2> SUFFICES ASSUME NEW id \in DOMAIN leaf, NEW p \in ToSet(leaf[id])
               PROVE  p \in A /\ pgs[p].id = id
    OBVIOUS
  <2>1. PICK q \in A : id = pgs[q].id /\ leaf[id] = <<q>>
    BY <1>1
  <2>2. p \in {q}
    BY <1>2, <2>1
  <2> QED BY <2>1, <2>2
<1>4. \A p \in A : pgs[p].id \in DOMAIN leaf /\ leaf[pgs[p].id][1] = p
  BY <1>1, <1>2
<1> QED BY <1>3, <1>4 DEF IndexExact, IndexHas, IndexPage, leaf, pgs, A

(* A key is deleted.                                                       *)
LEMMA OneEachWithout ==
  ASSUME NEW leaf, NEW S, NEW pgs, OneEach(leaf, S, pgs), NEW p \in S,
         NEW new, \A q \in S \ {p} : new[q].id = pgs[q].id
  PROVE  OneEach(WithoutKey(leaf, pgs[p].id), S \ {p}, new)
<1> DEFINE id == pgs[p].id
           less == WithoutKey(leaf, id)
<1>1. DOMAIN less = DOMAIN leaf \ {id} /\ \A k \in DOMAIN less : less[k] = leaf[k]
  BY DEF WithoutKey
<1>2. \A q \in S : pgs[q].id = id => q = p
  BY DEF OneEach
<1> HIDE DEF less, id
<1>3. DOMAIN less = {new[q].id : q \in S \ {p}}
  <2>1. \A k \in DOMAIN less : \E q \in S \ {p} : new[q].id = k
    BY <1>1 DEF OneEach, id
  <2>2. \A q \in S \ {p} : new[q].id \in DOMAIN less
    BY <1>1, <1>2 DEF OneEach
  <2> QED BY <2>1, <2>2
<1>4. \A q \in S \ {p} : less[new[q].id] = <<q>>
  BY <1>1, <1>3 DEF OneEach
<1>5. \A q, s \in S \ {p} : new[q].id = new[s].id => q = s
  BY DEF OneEach
<1> QED BY <1>3, <1>4, <1>5 DEF OneEach, less, id

(* Leaves keep their shape.                                                *)
LEMMA LeafParts ==
  ASSUME NEW leaf \in Leaves
  PROVE  /\ LeafOK(leaf)
         /\ DOMAIN leaf \subseteq 1 .. MaxRecordId
         /\ \A k \in DOMAIN leaf : leaf[k] \in Seq(DataPages(MaxPages))
<1>1. PICK S \in SUBSET (1 .. MaxRecordId) :
        leaf \in [S -> Seq(DataPages(MaxPages))]
  BY DEF Leaves
<1>2. LeafOK(leaf)
  BY DEF Leaves
<1> QED BY <1>1, <1>2

(* The converse: what it takes to be a leaf of the index file.             *)
LEMMA LeafWhole ==
  ASSUME NEW leaf, LeafOK(leaf), DOMAIN leaf \subseteq 1 .. MaxRecordId,
         \A k \in DOMAIN leaf : leaf[k] \in Seq(DataPages(MaxPages)),
         leaf = [k \in DOMAIN leaf |-> leaf[k]]
  PROVE  leaf \in Leaves
<1>1. leaf \in [DOMAIN leaf -> Seq(DataPages(MaxPages))]
  OBVIOUS
<1> QED BY <1>1 DEF Leaves

(* CreateBTree makes such a leaf.                                          *)
LEMMA EmptyLeafTyped == EmptyLeaf \in Leaves /\ DOMAIN EmptyLeaf = {}
<1>1. /\ DOMAIN EmptyLeaf = {}
      /\ EmptyLeaf = [k \in DOMAIN EmptyLeaf |-> EmptyLeaf[k]]
  BY DEF EmptyLeaf
<1>2. LeafOK(EmptyLeaf)
  BY <1>1 DEF LeafOK
<1> QED BY <1>1, <1>2, LeafWhole

(* An insert makes one, and adds no page but the one inserted.             *)
LEMMA InsertTyped ==
  ASSUME NEW leaf \in Leaves, NEW key \in 1 .. MaxRecordId,
         NEW value \in DataPages(MaxPages)
  PROVE  LET r == LeafInsert(leaf, key, value)
         IN  /\ r.leaf \in Leaves /\ r.ok \in BOOLEAN
             /\ ~r.ok => r.leaf = leaf
             /\ \A S : LeafWithin(leaf, S) /\ value \in S
                         => LeafWithin(r.leaf, S)
<1> DEFINE r == LeafInsert(leaf, key, value)
           P == DataPages(MaxPages)
           values == IF key \in DOMAIN leaf THEN leaf[key] ELSE <<>>
           grown == WithEntry(leaf, key, Append(values, value))
<1>1. /\ LeafOK(leaf)
      /\ DOMAIN leaf \subseteq 1 .. MaxRecordId
      /\ \A k \in DOMAIN leaf : leaf[k] \in Seq(P)
  BY LeafParts
<1>2. value \in Nat
  BY DEF DataPages, FirstDataPage
<1>3. LeafOK(r.leaf) /\ r.ok \in BOOLEAN /\ (~r.ok => r.leaf = leaf)
  BY <1>1, <1>2, InsertEffect
<1>4. r.leaf = leaf \/ r.leaf = grown
  BY DEF LeafInsert
<1>5. values \in Seq(P)
  BY <1>1
<1>6. /\ DOMAIN grown = DOMAIN leaf \cup {key}
      /\ grown = [k \in DOMAIN grown |-> grown[k]]
      /\ grown[key] = Append(values, value)
      /\ \A k \in DOMAIN leaf : k # key => grown[k] = leaf[k]
  BY DEF WithEntry
<1>7. Append(values, value) \in Seq(P)
  <2> HIDE DEF values, P
  <2>1. value \in P
    BY DEF P
  <2> QED BY <1>5, <2>1
<1>8. r.leaf = grown => r.leaf \in Leaves
  <2> SUFFICES ASSUME r.leaf = grown PROVE grown \in Leaves
    OBVIOUS
  <2>1. LeafOK(grown)
    BY <1>3
  <2>2. DOMAIN grown \subseteq 1 .. MaxRecordId
    BY <1>1, <1>6
  <2>3. \A k \in DOMAIN grown : grown[k] \in Seq(P)
    BY <1>1, <1>6, <1>7
  <2> HIDE DEF grown
  <2> QED BY <1>6, <2>1, <2>2, <2>3, LeafWhole
<1>9. ASSUME NEW S, LeafWithin(leaf, S), value \in S
      PROVE  LeafWithin(r.leaf, S)
  <2>1. \A i \in DOMAIN values : values[i] \in S
    BY <1>9 DEF LeafWithin
  <2>2. \A i \in DOMAIN Append(values, value) : Append(values, value)[i] \in S
    <3> HIDE DEF values
    <3>1. /\ DOMAIN Append(values, value) = 1 .. (Len(values) + 1)
          /\ Len(values) \in Nat /\ DOMAIN values = 1 .. Len(values)
          /\ \A i \in 1 .. Len(values) : Append(values, value)[i] = values[i]
          /\ Append(values, value)[Len(values) + 1] = value
      BY <1>5
    <3> QED BY <1>9, <2>1, <3>1
  <2> HIDE DEF grown, values, r
  <2>3. LeafWithin(grown, S)
    BY <1>6, <1>9, <2>2 DEF LeafWithin
  <2> QED BY <1>4, <1>9, <2>3
<1> QED BY <1>3, <1>4, <1>8, <1>9

(* A delete makes one, and adds no page.                                   *)
LEMMA WithoutTyped ==
  ASSUME NEW leaf \in Leaves, NEW key
  PROVE  /\ WithoutKey(leaf, key) \in Leaves
         /\ \A S : LeafWithin(leaf, S) => LeafWithin(WithoutKey(leaf, key), S)
<1> DEFINE less == WithoutKey(leaf, key)
<1>1. /\ DOMAIN less = DOMAIN leaf \ {key}
      /\ \A k \in DOMAIN less : less[k] = leaf[k]
      /\ less = [k \in DOMAIN less |-> less[k]]
  BY DEF WithoutKey
<1>2. /\ LeafOK(leaf)
      /\ DOMAIN leaf \subseteq 1 .. MaxRecordId
      /\ \A k \in DOMAIN leaf : leaf[k] \in Seq(DataPages(MaxPages))
  BY LeafParts
<1> HIDE DEF less
<1>3. LeafOK(less)
  BY <1>1, <1>2 DEF LeafOK
<1>4. less \in Leaves
  BY <1>1, <1>2, <1>3, LeafWhole
<1>5. \A S : LeafWithin(leaf, S) => LeafWithin(less, S)
  BY <1>1 DEF LeafWithin
<1> QED BY <1>4, <1>5 DEF less

-----------------------------------------------------------------------------
(* The index is rebuilt.                                                   *)

(* The leaf after each of the active pages has been inserted.              *)
Grown(pgs) ==
  LET active == Ascending(ActivePages(pgs))
      Insert(leaf, p) == LeafInsert(leaf, pgs[p].id, p)
      leaf[k \in 0 .. Len(active)] ==
        IF k = 0 THEN EmptyLeaf ELSE Insert(leaf[k - 1], active[k]).leaf
  IN  leaf

GrownBy(pgs, k) ==
  LeafInsert(Grown(pgs)[k - 1], pgs[Ascending(ActivePages(pgs))[k]].id,
             Ascending(ActivePages(pgs))[k])

InsertWrites(pgs) ==
  [k \in 1 .. Len(Ascending(ActivePages(pgs))) |->
     IF GrownBy(pgs, k).ok THEN PutIndex(2, Grown(pgs)[k]) ELSE NoWrite]

(* The writes of RebuildIndex are three for the empty tree and one for     *)
(* each active page, unless the insert failed.                             *)
LEMMA RebuildWritesAre ==
  ASSUME NEW pgs
  PROVE  RebuildIndexWrites(pgs) =
           <<PutIndex(0, EmptyLeaf), PutIndex(1, EmptyLeaf),
             PutIndex(2, EmptyLeaf)>> \o InsertWrites(pgs)
BY DEF RebuildIndexWrites, InsertWrites, GrownBy, Grown

(* The recursive definition has a solution.                                *)
LEMMA GrownAre ==
  ASSUME NEW pgs, Len(Ascending(ActivePages(pgs))) \in Nat
  PROVE  /\ Grown(pgs)[0] = EmptyLeaf
         /\ \A k \in 1 .. Len(Ascending(ActivePages(pgs))) :
              Grown(pgs)[k] = GrownBy(pgs, k).leaf
<1> DEFINE active == Ascending(ActivePages(pgs))
           N == Len(active)
           Ins(leaf, p) == LeafInsert(leaf, pgs[p].id, p)
           Is(g, m) == g = [n \in 0 .. m |->
                              IF n = 0 THEN EmptyLeaf
                              ELSE Ins(g[n - 1], active[n]).leaf]
           T == {m \in 0 .. N : ~ \E g : Is(g, m)}
<1>1. Grown(pgs) = CHOOSE g : Is(g, N)
  BY DEF Grown
<1>0. N \in Nat
  OBVIOUS
<1> HIDE DEF active, N, Ins
<1>2. CASE T # {}
  <2>1. PICK m \in T : \A i \in T : m <= i
    <3>1. T \subseteq Nat
      OBVIOUS
    <3> QED BY <1>2, <3>1, LeastNatural
  <2>2. CASE m = 0
    <3> DEFINE g == [n \in 0 .. 0 |-> EmptyLeaf]
    <3>1. g = [n \in 0 .. 0 |-> IF n = 0 THEN EmptyLeaf
                                ELSE Ins(g[n - 1], active[n]).leaf]
      OBVIOUS
    <3>2. Is(g, m)
      BY <2>2, <3>1
    <3> QED BY <2>1, <3>2
  <2>3. CASE m # 0
    <3>1. m - 1 \in 0 .. N /\ m - 1 \notin T
      BY <1>0, <2>1, <2>3
    <3>2. PICK g : Is(g, m - 1)
      BY <3>1
    <3> DEFINE h == [n \in 0 .. m |->
                       IF n = m THEN Ins(g[m - 1], active[m]).leaf ELSE g[n]]
    <3>3. ASSUME NEW n \in 0 .. m
          PROVE  h[n] = IF n = 0 THEN EmptyLeaf
                        ELSE Ins(h[n - 1], active[n]).leaf
      <4>1. CASE n = m
        BY <1>0, <2>3, <4>1
      <4>2. CASE n # m
        <5>1. n \in 0 .. (m - 1)
          BY <1>0, <2>1, <4>2
        <5>2. g[n] = IF n = 0 THEN EmptyLeaf
                     ELSE Ins(g[n - 1], active[n]).leaf
          BY <3>2, <5>1
        <5>3. h[n] = g[n] /\ (n # 0 => h[n - 1] = g[n - 1])
          BY <1>0, <4>2, <5>1
        <5> QED BY <5>2, <5>3
      <4> QED BY <4>1, <4>2
    <3>4. Is(h, m)
      BY <3>3
    <3> QED BY <2>1, <3>4
  <2> QED BY <2>2, <2>3
<1>3. CASE T = {}
  <2>1. \E g : Is(g, N)
    BY <1>0, <1>3
  <2> HIDE DEF Is
  <2>2. Is(Grown(pgs), N)
    BY <1>1, <2>1
  <2>3. Grown(pgs) = [n \in 0 .. N |->
                        IF n = 0 THEN EmptyLeaf
                        ELSE Ins(Grown(pgs)[n - 1], active[n]).leaf]
    BY <2>2 DEF Is
  <2>4. Grown(pgs)[0] = EmptyLeaf
    BY <1>0, <2>3
  <2>5. \A k \in 1 .. N :
          Grown(pgs)[k] = Ins(Grown(pgs)[k - 1], active[k]).leaf
    BY <1>0, <2>3
  <2> QED BY <2>4, <2>5 DEF N, active, Ins, GrownBy
<1> QED BY <1>2, <1>3

(* It holds active pages, and as long as there is room, all those that     *)
(* have been inserted.                                                     *)
LEMMA GrownLeaves ==
  ASSUME NEW pgs \in PageFiles, Clean(pgs)
  PROVE  LET s == Ascending(ActivePages(pgs))
         IN  /\ Len(s) \in Nat /\ IsSeq(s)
             /\ \A k \in 0 .. Len(s) :
                  /\ Grown(pgs)[k] \in Leaves
                  /\ LeafWithin(Grown(pgs)[k], ActivePages(pgs))
             /\ \A k \in 1 .. Len(s) :
                  /\ GrownBy(pgs, k).ok \in BOOLEAN
                  /\ ~GrownBy(pgs, k).ok => Grown(pgs)[k] = Grown(pgs)[k - 1]
<1> DEFINE A == ActivePages(pgs)
           s == Ascending(A)
           G == Grown(pgs)
           OK(k) == G[k] \in Leaves /\ LeafWithin(G[k], A)
           T == {k \in 0 .. Len(s) : ~OK(k)}
<1>1. /\ A \subseteq DOMAIN pgs /\ IsFiniteSet(A) /\ A \subseteq Nat
      /\ A \subseteq DataPages(MaxPages)
      /\ \A p \in A : pgs[p].id \in 1 .. MaxRecordId
  <2>1. A \subseteq DOMAIN pgs /\ IsFiniteSet(A) /\ DOMAIN pgs \subseteq Nat
        /\ DOMAIN pgs \subseteq DataPages(MaxPages)
    BY FileOfPages
  <2>2. \A p \in A : pgs[p].id \in 1 .. MaxRecordId
    BY DEF Clean, ActivePages
  <2> QED BY <2>1, <2>2
<1> HIDE DEF A
<1>2. s \in Seq(A) /\ Len(s) \in Nat
  BY <1>1, AscendingLists
<1>3. \A k \in 1 .. Len(s) : s[k] \in A
  BY <1>2
<1>4. /\ G[0] = EmptyLeaf
      /\ \A k \in 1 .. Len(s) : G[k] = GrownBy(pgs, k).leaf
      /\ \A k \in 1 .. Len(s) :
           GrownBy(pgs, k) = LeafInsert(G[k - 1], pgs[s[k]].id, s[k])
  BY <1>2, GrownAre DEF A, GrownBy
<1> HIDE DEF s, G
<1>5. OK(0)
  BY <1>4, EmptyLeafTyped DEF LeafWithin
<1>6. ASSUME NEW k \in 1 .. Len(s), OK(k - 1)
      PROVE  /\ OK(k) /\ GrownBy(pgs, k).ok \in BOOLEAN
             /\ ~GrownBy(pgs, k).ok => G[k] = G[k - 1]
  <2>1. /\ s[k] \in A /\ s[k] \in DataPages(MaxPages)
        /\ pgs[s[k]].id \in 1 .. MaxRecordId
    BY <1>1, <1>3
  <2>2. LET r == LeafInsert(G[k - 1], pgs[s[k]].id, s[k])
        IN  /\ r.leaf \in Leaves /\ r.ok \in BOOLEAN
            /\ ~r.ok => r.leaf = G[k - 1]
            /\ \A S : LeafWithin(G[k - 1], S) /\ s[k] \in S
                        => LeafWithin(r.leaf, S)
    BY <1>6, <2>1, InsertTyped
  <2> QED BY <1>4, <1>6, <2>1, <2>2
<1> HIDE DEF OK
<1>7. CASE T # {}
  <2>1. PICK m \in T : \A i \in T : m <= i
    <3>1. T \subseteq Nat
      OBVIOUS
    <3> QED BY <1>7, <3>1, LeastNatural
  <2>2. m # 0
    BY <1>5, <2>1
  <2>3. m \in 1 .. Len(s) /\ m - 1 \in 0 .. Len(s) /\ m - 1 \notin T
    BY <1>2, <2>1, <2>2
  <2>4. OK(m - 1)
    BY <2>3
  <2> QED BY <1>6, <2>1, <2>3, <2>4
<1>8. CASE T = {}
  <2>1. \A k \in 0 .. Len(s) : OK(k)
    BY <1>8
  <2>2. ASSUME NEW k \in 1 .. Len(s)
        PROVE  /\ GrownBy(pgs, k).ok \in BOOLEAN
               /\ ~GrownBy(pgs, k).ok => G[k] = G[k - 1]
    <3>1. k - 1 \in 0 .. Len(s)
      BY <1>2
    <3> QED BY <1>6, <2>1, <3>1
  <2>3. IsSeq(s)
    BY <1>2, SeqIsSeq
  <2> QED BY <1>2, <2>1, <2>2, <2>3 DEF OK, s, A, G
<1> QED BY <1>7, <1>8

(* If there is room for every active page, each of them is in the last.    *)
LEMMA GrownExact ==
  ASSUME NEW pgs \in PageFiles, Unique(pgs),
         Room(Cardinality(ActivePages(pgs)))
  PROVE  OneEach(Grown(pgs)[Len(Ascending(ActivePages(pgs)))],
                 ActivePages(pgs), pgs)
<1> DEFINE A == ActivePages(pgs)
           s == Ascending(A)
           G == Grown(pgs)
           Before(k) == {s[i] : i \in 1 .. k}
           OK(k) == OneEach(G[k], Before(k), pgs) /\ IsFiniteSet(Before(k))
           T == {k \in 0 .. Len(s) : ~OK(k)}
<1>1. IsFiniteSet(A) /\ A \subseteq Nat
  <2>1. A \subseteq DOMAIN pgs /\ IsFiniteSet(A) /\ DOMAIN pgs \subseteq Nat
    BY FileOfPages
  <2> QED BY <2>1
<1>2. \A p, q \in A : pgs[p].id = pgs[q].id => p = q
  BY DEF Unique
<1>3. Room(Cardinality(A)) /\ Cardinality(A) \in Nat
  BY <1>1, FS_CardinalityType
<1> HIDE DEF A
<1>4. /\ s \in Seq(A) /\ Len(s) \in Nat /\ Len(s) = Cardinality(A)
      /\ \A p \in A : \E i \in 1 .. Len(s) : s[i] = p
      /\ Distinct(s)
  BY <1>1, AscendingLists
<1>5. /\ \A k \in 1 .. Len(s) : s[k] \in A
      /\ \A i, j \in 1 .. Len(s) : s[i] = s[j] => i = j
  BY <1>4 DEF Distinct
<1>6. /\ G[0] = EmptyLeaf
      /\ \A k \in 1 .. Len(s) : G[k] = GrownBy(pgs, k).leaf
      /\ \A k \in 1 .. Len(s) :
           GrownBy(pgs, k) = LeafInsert(G[k - 1], pgs[s[k]].id, s[k])
  BY <1>4, GrownAre DEF A, GrownBy
<1> HIDE DEF s, G
<1>7. OK(0)
  <2>1. Before(0) = {}
    OBVIOUS
  <2>2. OneEach(EmptyLeaf, {}, pgs)
    BY EmptyLeafTyped DEF OneEach
  <2> HIDE DEF Before
  <2> QED BY <1>6, <2>1, <2>2, FS_EmptySet
<1>8. ASSUME NEW k \in 1 .. Len(s), OK(k - 1)
      PROVE  OK(k)
  <2> DEFINE S == Before(k - 1)
             p == s[k]
             id == pgs[p].id
             r == LeafInsert(G[k - 1], id, p)
  <2>1. Before(k) = S \cup {p}
    BY <1>4
  <2>2. p \in A /\ S \subseteq A /\ p \notin S
    <3>1. ASSUME NEW i \in 1 .. (k - 1) PROVE s[i] \in A /\ s[i] # p
      <4>1. i \in 1 .. Len(s) /\ i # k
        BY <1>4
      <4> QED BY <1>5, <4>1
    <3> QED BY <1>5, <3>1
  <2>3. OneEach(G[k - 1], S, pgs) /\ IsFiniteSet(S)
    BY <1>8
  <2> HIDE DEF S, p, Before
  <2>4. NewId(id, S, pgs)
    BY <1>2, <2>2 DEF NewId
  <2>5. IsFiniteSet(S \cup {p}) /\ Cardinality(S \cup {p}) = Cardinality(S) + 1
        /\ Cardinality(S \cup {p}) \in Nat /\ Cardinality(S \cup {p}) <= Cardinality(A)
    <3>1. IsFiniteSet(S \cup {p}) /\ Cardinality(S \cup {p}) = Cardinality(S) + 1
      BY <2>2, <2>3, FS_AddElement
    <3>2. S \cup {p} \in SUBSET A
      BY <2>2
    <3>3. Cardinality(S \cup {p}) <= Cardinality(A)
      BY <1>1, <3>2, FS_Subset
    <3> QED BY <3>1, <3>3, FS_CardinalityType
  <2>6. Room(Cardinality(S) + 1)
    BY <1>3, <2>5, RoomForLess
  <2> HIDE DEF id
  <2> DEFINE L == G[k - 1]
  <2>7. OneEach(L, S, pgs) /\ IsFiniteSet(S)
    BY <2>3
  <2>8. r.leaf = WithEntry(L, id, <<p>>)
    <3> HIDE DEF L
    <3>1. LeafInsert(L, id, p) =
            [ok |-> TRUE, leaf |-> WithEntry(L, id, <<p>>)]
      BY <2>4, <2>6, <2>7, OneEachRoom
    <3>2. r = LeafInsert(L, id, p)
      BY DEF L
    <3> HIDE DEF r
    <3> QED BY <3>1, <3>2
  <2>9. OneEach(WithEntry(L, id, <<p>>), S \cup {p}, pgs)
    <3> HIDE DEF L
    <3>1. pgs[p].id = id
      BY DEF id
    <3> QED BY <2>4, <2>7, <3>1, OneEachGrown DEF NewId
  <2>10. G[k] = r.leaf
    BY <1>6 DEF p, id
  <2> QED BY <2>1, <2>5, <2>8, <2>9, <2>10
<1> HIDE DEF OK
<1>9. CASE T # {}
  <2>1. PICK m \in T : \A i \in T : m <= i
    <3>1. T \subseteq Nat
      OBVIOUS
    <3> QED BY <1>9, <3>1, LeastNatural
  <2>2. m # 0
    BY <1>7, <2>1
  <2>3. m \in 1 .. Len(s) /\ m - 1 \in 0 .. Len(s) /\ m - 1 \notin T
    BY <1>4, <2>1, <2>2
  <2>4. OK(m - 1)
    BY <2>3
  <2> QED BY <1>8, <2>1, <2>3, <2>4
<1>10. CASE T = {}
  <2>1. Len(s) \in 0 .. Len(s)
    BY <1>4
  <2>2. OneEach(G[Len(s)], Before(Len(s)), pgs)
    BY <1>10, <2>1 DEF OK
  <2>3. Before(Len(s)) = A
    BY <1>4, <1>5
  <2> HIDE DEF Before
  <2> QED BY <2>2, <2>3 DEF s, A, G
<1> QED BY <1>9, <1>10

-----------------------------------------------------------------------------
(* While the index is rebuilt.                                             *)
SameButIndex(d, e) ==
  /\ e \in Files /\ e.dat = d.dat /\ e.header = d.header
  /\ e.free_list = d.free_list /\ e.pages = d.pages
  /\ e.journal = d.journal /\ e.tmp = d.tmp

(* Files whose index may be anything: recovery will rebuild it, or the     *)
(* client does not rely on it.                                             *)
IndexFree(d, cl, ok) ==
  /\ Safe(d, cl, ok)
  /\ d.header.journal_pending \/ (d.dat /\ cl.stale)

(* They stay such files when the index changes.                            *)
LEMMA IndexFreeKept ==
  ASSUME NEW d, NEW cl, NEW ok, IndexFree(d, cl, ok), NEW e, SameButIndex(d, e)
  PROVE  /\ IndexFree(e, cl, ok)
         /\ d.header.journal_pending => ReplayedPages(e) = ReplayedPages(d)
<1>1. /\ d \in Files /\ e \in Files /\ Safe(d, cl, ok)
      /\ e.dat = d.dat /\ e.header = d.header
      /\ e.free_list = d.free_list /\ e.pages = d.pages
      /\ e.journal = d.journal
  BY DEF IndexFree, SameButIndex, Safe
<1>2. CASE d.header.journal_pending
  <2>1. Safe(e, cl, ok) /\ ReplayedPages(e) = ReplayedPages(d)
    BY <1>1, <1>2, TxnKept
  <2> QED BY <1>1, <1>2, <2>1 DEF IndexFree
<1>3. CASE ~d.header.journal_pending
  <2>1. d.dat /\ cl.stale
    BY <1>3 DEF IndexFree
  <2>2. Safe(d, cl, ok) <=>
           /\ Clean(d.pages)
           /\ ok => Good(d.pages, cl)
           /\ Serviceable(d, cl.stale, ok)
    BY <1>1, <1>3, <2>1, SafeOutside
  <2>3. Safe(e, cl, ok) <=>
           /\ Clean(e.pages)
           /\ ok => Good(e.pages, cl)
           /\ Serviceable(e, cl.stale, ok)
    BY <1>1, <1>3, <2>1, SafeOutside
  <2>4. Serviceable(d, cl.stale, ok) => Serviceable(e, cl.stale, ok)
    BY <1>1, <2>1 DEF Serviceable, ListInFile, FreeListExact
  <2>5. Safe(e, cl, ok)
    BY <1>1, <2>2, <2>3, <2>4, Zenon
  <2> QED BY <1>1, <1>3, <2>1, <2>5 DEF IndexFree
<1> QED BY <1>2, <1>3

(* Any write to the index is safe.                                         *)
LEMMA IndexMoves ==
  ASSUME NEW d, NEW cl, NEW ok, IndexFree(d, cl, ok), NEW x \in Indexes
  PROVE  LET e == Apply(d, PutIndex(x.size, x.leaf))
         IN  /\ Moves(d, <<PutIndex(x.size, x.leaf)>>, e, cl, ok)
             /\ SameButIndex(d, e) /\ IndexFree(e, cl, ok) /\ e.index = x
             /\ TornBy(d, PutIndex(x.size, x.leaf)) = {}
<1> DEFINE w == PutIndex(x.size, x.leaf)
           e == Apply(d, w)
<1>1. d \in Files /\ Safe(d, cl, ok)
  BY DEF IndexFree, Safe
<1>2. /\ e \in Files /\ e.dat = d.dat /\ e.header = d.header
      /\ e.free_list = d.free_list /\ e.pages = d.pages /\ e.index = x
      /\ e.journal = d.journal /\ e.tmp = d.tmp
      /\ TornBy(d, w) = {}
  BY <1>1, IndexPut
<1> HIDE DEF e, w
<1>3. SameButIndex(d, e)
  BY <1>2 DEF SameButIndex
<1>4. IndexFree(e, cl, ok)
  BY <1>3, IndexFreeKept
<1>5. Safe(e, cl, ok) /\ TornSafe(d, w, cl, ok)
  BY <1>2, <1>4 DEF IndexFree, TornSafe
<1>6. Moves(d, <<w>>, e, cl, ok)
  BY <1>1, <1>5, MovesOne DEF e
<1> QED BY <1>2, <1>3, <1>4, <1>6 DEF e, w

(* Two changes of the index are a change of the index.                     *)
LEMMA SameButIndexThen ==
  ASSUME NEW d, NEW e, SameButIndex(d, e), NEW f, SameButIndex(e, f)
  PROVE  SameButIndex(d, f)
BY DEF SameButIndex

(* The inserts.                                                            *)
LEMMA InsertStates ==
  ASSUME NEW d, NEW cl, NEW ok, IndexFree(d, cl, ok), NEW pgs \in PageFiles,
         Clean(pgs), d.index = [size |-> 2, leaf |-> EmptyLeaf]
  PROVE  LET ws == InsertWrites(pgs)
             e  == ApplyAll(d, ws)
         IN  /\ Moves(d, ws, e, cl, ok)
             /\ SameButIndex(d, e)
             /\ e.index = [size |-> 2, leaf |-> Grown(pgs)[Len(ws)]]
             /\ Len(ws) = Len(Ascending(ActivePages(pgs)))
             /\ Len(ws) \in Nat
<1> DEFINE ws == InsertWrites(pgs)
           e == ApplyAll(d, ws)
           N == Len(Ascending(ActivePages(pgs)))
           G == Grown(pgs)
           ok_(k) == GrownBy(pgs, k).ok
           X(k) == [size |-> 2, leaf |-> G[k]]
           St == States(d, ws)
           OK(n) == SameButIndex(d, St[n]) /\ St[n].index = X(n)
           T == {n \in 0 .. N : ~OK(n)}
<1>1. /\ N \in Nat
      /\ \A k \in 0 .. N : G[k] \in Leaves
      /\ \A k \in 1 .. N : ~ok_(k) => G[k] = G[k - 1]
  BY GrownLeaves
<1>2. G[0] = EmptyLeaf
  BY <1>1, GrownAre
<1>3. \A k \in 0 .. N : X(k) \in Indexes /\ X(k).size = 2 /\ X(k).leaf = G[k]
  BY <1>1 DEF Indexes
<1>4. /\ ws = [k \in 1 .. N |-> IF ok_(k) THEN PutIndex(2, G[k]) ELSE NoWrite]
  BY DEF InsertWrites
<1> HIDE DEF N, G, ok_
<1>5. IsSeq(ws) /\ Len(ws) = N
  <2>1. ws \in Seq({ws[k] : k \in 1 .. N})
    BY <1>1, <1>4
  <2>2. Len(ws) = N
    BY <1>1, <1>4
  <2> HIDE DEF ws
  <2> QED BY <2>1, <2>2, SeqIsSeq
<1> HIDE DEF ws, X
<1>6. /\ St[0] = d
      /\ \A n \in 1 .. N : St[n] = Apply(St[n - 1], ws[n])
      /\ e = St[N]
  BY <1>1, <1>5, StateSteps
<1> HIDE DEF St, e
<1>7. ASSUME NEW n \in 1 .. N, OK(n - 1)
      PROVE  OK(n) /\ TornBy(St[n - 1], ws[n]) = {}
  <2> DEFINE a == St[n - 1]
             b == St[n]
  <2>1. SameButIndex(d, a) /\ a.index = X(n - 1)
    BY <1>7
  <2>2. b = Apply(a, ws[n])
    BY <1>6
  <2>3. ws[n] = IF ok_(n) THEN PutIndex(2, G[n]) ELSE NoWrite
    BY <1>4
  <2>4. X(n) \in Indexes /\ X(n).size = 2 /\ X(n).leaf = G[n]
    BY <1>1, <1>3
  <2> HIDE DEF a, b
  <2>5. IndexFree(a, cl, ok)
    BY <2>1, IndexFreeKept
  <2>6. CASE ok_(n)
    <3> DEFINE x == X(n)
    <3>1. ws[n] = PutIndex(x.size, x.leaf) /\ x \in Indexes
      BY <2>3, <2>4, <2>6
    <3> HIDE DEF x
    <3>2. /\ SameButIndex(a, Apply(a, PutIndex(x.size, x.leaf)))
          /\ Apply(a, PutIndex(x.size, x.leaf)).index = x
          /\ TornBy(a, PutIndex(x.size, x.leaf)) = {}
      BY <2>5, <3>1, IndexMoves
    <3>3. SameButIndex(a, b) /\ b.index = x /\ TornBy(a, ws[n]) = {}
      BY <2>2, <3>1, <3>2
    <3>4. SameButIndex(d, b)
      BY <2>1, <3>3, SameButIndexThen
    <3> QED BY <3>3, <3>4 DEF a, b, x
  <2>7. CASE ~ok_(n)
    <3>1. ws[n] = NoWrite
      BY <2>3, <2>7
    <3>2. a \in Files
      BY <2>1 DEF SameButIndex
    <3>3. LET f == Apply(a, NoWrite)
          IN  /\ f \in Files /\ f.dat = a.dat /\ f.header = a.header
              /\ f.free_list = a.free_list /\ f.pages = a.pages
              /\ f.index = a.index /\ f.journal = a.journal /\ f.tmp = a.tmp
              /\ TornBy(a, NoWrite) = {}
      BY <3>2, NothingWritten
    <3>4. SameButIndex(a, b) /\ b.index = a.index /\ TornBy(a, ws[n]) = {}
      BY <2>2, <3>1, <3>3 DEF SameButIndex
    <3>5. SameButIndex(d, b)
      BY <2>1, <3>4, SameButIndexThen
    <3>6. X(n) = X(n - 1)
      BY <1>1, <2>7 DEF X
    <3> QED BY <2>1, <3>4, <3>5, <3>6 DEF a, b
  <2> QED BY <2>6, <2>7
<1>8. OK(0)
  <2>1. SameButIndex(d, d)
    BY DEF IndexFree, Safe, SameButIndex
  <2> QED BY <1>2, <1>6, <2>1 DEF X
<1>9. \A n \in 0 .. N : OK(n)
  <2> HIDE DEF OK
  <2> SUFFICES ASSUME T # {} PROVE FALSE
    OBVIOUS
  <2>1. PICK m \in T : \A i \in T : m <= i
    <3>1. T \subseteq Nat
      OBVIOUS
    <3> QED BY <3>1, LeastNatural
  <2>2. m # 0
    BY <1>8, <2>1
  <2>3. m \in 1 .. N /\ m - 1 \in 0 .. N /\ m - 1 \notin T
    BY <1>1, <2>1, <2>2
  <2>4. OK(m - 1)
    BY <2>3
  <2> QED BY <1>7, <2>1, <2>3, <2>4
<1>10. SafePath(d, ws, cl, ok)
  <2>1. \A n \in 0 .. N : Safe(St[n], cl, ok)
    BY <1>9, IndexFreeKept DEF IndexFree
  <2>2. ASSUME NEW n \in 0 .. (N - 1) PROVE TornBy(St[n], ws[n + 1]) = {}
    <3>1. n + 1 \in 1 .. N /\ (n + 1) - 1 = n /\ n \in 0 .. N
      BY <1>1
    <3>2. OK((n + 1) - 1)
      BY <1>9, <3>1
    <3> HIDE DEF OK
    <3>3. TornBy(St[(n + 1) - 1], ws[n + 1]) = {}
      BY <1>7, <3>1, <3>2
    <3> QED BY <3>1, <3>3
  <2> QED BY <1>5, <2>1, <2>2 DEF SafePath, St
<1>11. Moves(d, ws, e, cl, ok)
  BY <1>5, <1>10 DEF Moves, e
<1>12. SameButIndex(d, e) /\ e.index = X(N)
  BY <1>1, <1>6, <1>9
<1> QED BY <1>1, <1>5, <1>11, <1>12 DEF e, ws, X, G, N

(* Two writes in a row, as one sequence,                                   *)
LEMMA TwoWrites ==
  ASSUME NEW a, NEW b
  PROVE  <<a>> \o <<b>> = <<a, b>>
<1> DEFINE S == {a, b}
           s == Append(<<a>>, b)
           t == <<a, b>>
<1>1. <<a>> \in Seq(S) /\ <<a, b>> \in Seq(S) /\ b \in S
  OBVIOUS
<1> HIDE DEF S
<1>2. <<a>> \o <<b>> = Append(<<a>>, b)
  BY <1>1, AppendIsConcat
<1>3. s \in Seq(S) /\ Len(s) = 2 /\ s[1] = a /\ s[2] = b
  BY <1>1
<1>4. Len(t) = 2 /\ t[1] = a /\ t[2] = b /\ t \in Seq(S)
  BY <1>1
<1> HIDE DEF s, t
<1>5. \A i \in 1 .. Len(s) : s[i] = t[i]
  BY <1>3, <1>4
<1>6. s = t
  BY <1>3, <1>4, <1>5, SeqEqual
<1> QED BY <1>2, <1>6 DEF s, t

(* ... and three.                                                          *)
LEMMA ThreeWrites ==
  ASSUME NEW a, NEW b, NEW c
  PROVE  (<<a>> \o <<b>>) \o <<c>> = <<a, b, c>>
<1> DEFINE S == {a, b, c}
           s == Append(<<a, b>>, c)
           t == <<a, b, c>>
<1>1. <<a, b>> \in Seq(S) /\ <<a, b, c>> \in Seq(S) /\ c \in S
  OBVIOUS
<1> HIDE DEF S
<1>2. <<a, b>> \o <<c>> = Append(<<a, b>>, c)
  BY <1>1, AppendIsConcat
<1>3. s \in Seq(S) /\ Len(s) = 3 /\ s[1] = a /\ s[2] = b /\ s[3] = c
  BY <1>1
<1>4. Len(t) = 3 /\ t[1] = a /\ t[2] = b /\ t[3] = c /\ t \in Seq(S)
  BY <1>1
<1> HIDE DEF s, t
<1>5. \A i \in 1 .. Len(s) : s[i] = t[i]
  BY <1>3, <1>4
<1>6. s = t
  BY <1>3, <1>4, <1>5, SeqEqual
<1>7. <<a>> \o <<b>> = <<a, b>>
  BY TwoWrites
<1> QED BY <1>2, <1>6, <1>7 DEF s, t

(* A safe way leads where its writes lead.                                 *)
LEMMA MovesIs ==
  ASSUME NEW d, NEW ws, NEW e, NEW cl, NEW ok, Moves(d, ws, e, cl, ok)
  PROVE  e = ApplyAll(d, ws) /\ IsSeq(ws)
BY DEF Moves

(* RebuildIndex: the new index names active pages and, when there is room  *)
(* for them, every one.                                                    *)
LEMMA Rebuilt ==
  ASSUME NEW d, NEW cl, NEW ok, IndexFree(d, cl, ok), NEW pgs \in PageFiles,
         Clean(pgs)
  PROVE  LET ws == RebuildIndexWrites(pgs)
             e  == ApplyAll(d, ws)
         IN  /\ Moves(d, ws, e, cl, ok)
             /\ SameButIndex(d, e) /\ IndexFree(e, cl, ok)
             /\ ws # <<>>
             /\ e.index.size = 2
             /\ LeafWithin(e.index.leaf, ActivePages(pgs))
             /\ Unique(pgs) /\ Room(Cardinality(ActivePages(pgs))) =>
                  OneEach(e.index.leaf, ActivePages(pgs), pgs)
<1> DEFINE X(k) == [size |-> k, leaf |-> EmptyLeaf]
           w(k) == PutIndex(X(k).size, X(k).leaf)
           d1 == Apply(d, w(0))
           d2 == Apply(d1, w(1))
           d3 == Apply(d2, w(2))
           ins == InsertWrites(pgs)
           e == ApplyAll(d3, ins)
           N == Len(Ascending(ActivePages(pgs)))
<1>1. \A k \in 0 .. 2 : X(k) \in Indexes
  BY EmptyLeafTyped DEF Indexes
<1>2. X(2) = [size |-> 2, leaf |-> EmptyLeaf]
  OBVIOUS
<1>3. w(0) = PutIndex(0, EmptyLeaf) /\ w(1) = PutIndex(1, EmptyLeaf)
      /\ w(2) = PutIndex(2, EmptyLeaf)
  OBVIOUS
<1> HIDE DEF X
<1>4. Moves(d, <<w(0)>>, d1, cl, ok) /\ SameButIndex(d, d1)
      /\ IndexFree(d1, cl, ok)
  BY <1>1, IndexMoves
<1> HIDE DEF d1
<1>5. Moves(d1, <<w(1)>>, d2, cl, ok) /\ SameButIndex(d1, d2)
      /\ IndexFree(d2, cl, ok)
  BY <1>1, <1>4, IndexMoves
<1> HIDE DEF d2
<1>6. Moves(d2, <<w(2)>>, d3, cl, ok) /\ SameButIndex(d2, d3)
      /\ IndexFree(d3, cl, ok) /\ d3.index = X(2)
  BY <1>1, <1>5, IndexMoves
<1> HIDE DEF d3, w
<1>7. /\ Moves(d3, ins, e, cl, ok)
      /\ SameButIndex(d3, e)
      /\ e.index = [size |-> 2, leaf |-> Grown(pgs)[N]]
      /\ N \in Nat
  BY <1>2, <1>6, InsertStates
<1> HIDE DEF ins, e
<1>8. Moves(d, <<w(0)>> \o <<w(1)>>, d2, cl, ok)
  BY <1>4, <1>5, MovesThen
<1>9. Moves(d, (<<w(0)>> \o <<w(1)>>) \o <<w(2)>>, d3, cl, ok)
  BY <1>6, <1>8, MovesThen
<1>10. Moves(d, ((<<w(0)>> \o <<w(1)>>) \o <<w(2)>>) \o ins, e, cl, ok)
  BY <1>7, <1>9, MovesThen
<1>11. (<<w(0)>> \o <<w(1)>>) \o <<w(2)>> = <<w(0), w(1), w(2)>>
  BY ThreeWrites
<1>12. RebuildIndexWrites(pgs) = <<w(0), w(1), w(2)>> \o ins
  BY <1>3, RebuildWritesAre DEF ins
<1> DEFINE ws == RebuildIndexWrites(pgs)
<1>13. Moves(d, ws, e, cl, ok)
  BY <1>10, <1>11, <1>12
<1>14. e = ApplyAll(d, ws)
  BY <1>13, MovesIs
<1>15. SameButIndex(d, e)
  BY <1>4, <1>5, <1>6, <1>7, SameButIndexThen
<1>16. IndexFree(e, cl, ok)
  BY <1>15, IndexFreeKept
<1>17. ws # <<>>
  <2> DEFINE u == (<<w(0)>> \o <<w(1)>>) \o <<w(2)>>
  <2>1. IsSeq(u) /\ IsSeq(ins)
    BY <1>7, <1>9, MovesIs
  <2>2. Len(u) = 3
    OBVIOUS
  <2> HIDE DEF u
  <2>3. Len(u \o ins) = Len(u) + Len(ins) /\ Len(ins) \in Nat /\ IsSeq(u \o ins)
    BY <2>1, ConcatFacts
  <2>4. Len(u \o ins) # 0
    BY <2>2, <2>3
  <2>5. u \o ins # <<>>
    BY <2>3, <2>4, SeqFacts
  <2> QED BY <1>11, <1>12, <2>5 DEF u
<1>18. e.index.size = 2 /\ e.index.leaf = Grown(pgs)[N]
  BY <1>7
<1>19. LeafWithin(Grown(pgs)[N], ActivePages(pgs))
  <2>1. N \in 0 .. N
    BY <1>7
  <2> QED BY <2>1, GrownLeaves
<1>20. Unique(pgs) /\ Room(Cardinality(ActivePages(pgs))) =>
         OneEach(Grown(pgs)[N], ActivePages(pgs), pgs)
  BY GrownExact
<1> HIDE DEF ws, N
<1>21. /\ LeafWithin(e.index.leaf, ActivePages(pgs))
       /\ Unique(pgs) /\ Room(Cardinality(ActivePages(pgs))) =>
            OneEach(e.index.leaf, ActivePages(pgs), pgs)
  BY <1>18, <1>19, <1>20
<1> QED BY <1>13, <1>14, <1>15, <1>16, <1>17, <1>18, <1>21 DEF ws

-----------------------------------------------------------------------------
(* Recovery.  While the entries are replayed, the journal goes on to name  *)
(* every page that differs.                                                *)
LEMMA EntriesMove ==
  ASSUME NEW d, NEW cl, NEW ok, Safe(d, cl, ok), d.header.journal_pending
  PROVE  LET ws == PutEntries(d)
             e  == ApplyAll(d, ws)
         IN  /\ Moves(d, ws, e, cl, ok)
             /\ e \in Files /\ e.dat = d.dat /\ e.header = d.header
             /\ e.free_list = d.free_list /\ e.index = d.index
             /\ e.journal = d.journal /\ e.tmp = d.tmp
             /\ e.pages = ReplayedPages(d)
             /\ ReplayedPages(e) = ReplayedPages(d)
<1> DEFINE J == d.journal
           ws == PutEntries(d)
           St == States(d, ws)
           R == ReplayedPages(d)
           N == Len(J)
           e == ApplyAll(d, ws)
<1>1. d \in Files
  BY DEF Safe
<1>2. /\ d.dat /\ JournalInFile(d) /\ Clean(R)
      /\ ok => Good(R, cl)
  BY <1>1, SafeInTxn
<1>3. /\ R = Replayed(d.pages, J, N) /\ R \in PageFiles
      /\ DOMAIN R = DOMAIN d.pages /\ N \in Nat /\ J \in Seq(Entries)
      /\ d.pages \in PageFiles
  BY <1>1, <1>2, ReplayedIs
<1>4. /\ IsSeq(ws) /\ Len(ws) = N
      /\ \A i \in 1 .. N : ws[i] = Replay(J[i])
  <2>1. ws \in Seq({Replay(J[i]) : i \in 1 .. N})
    BY <1>3 DEF PutEntries
  <2>2. Len(ws) = N /\ \A i \in 1 .. N : ws[i] = Replay(J[i])
    BY <1>3 DEF PutEntries
  <2> HIDE DEF ws
  <2> QED BY <2>1, <2>2, SeqIsSeq
<1>5. \A n \in 0 .. N :
        /\ St[n] \in Files /\ St[n].dat = d.dat /\ St[n].header = d.header
        /\ St[n].free_list = d.free_list /\ St[n].index = d.index
        /\ St[n].journal = J /\ St[n].tmp = d.tmp
        /\ St[n].pages = Replayed(d.pages, J, n)
        /\ DOMAIN St[n].pages = DOMAIN d.pages
  BY <1>1, <1>2, ReplayStates
<1>6. e = St[N]
  BY <1>3, <1>4, StateSteps
<1> HIDE DEF ws, St, e
<1>7. ASSUME NEW n \in 0 .. N
      PROVE  Safe(St[n], cl, ok) /\ ReplayedPages(St[n]) = R
  <2> DEFINE c == St[n]
  <2>1. /\ c \in Files /\ c.dat = d.dat /\ c.header = d.header
        /\ c.journal = J /\ c.pages = Replayed(d.pages, J, n)
        /\ DOMAIN c.pages = DOMAIN d.pages
    BY <1>5
  <2> HIDE DEF c
  <2>2. \A q \in DOMAIN c.pages : Named(J, N, q) = {} => c.pages[q] = d.pages[q]
    <3> SUFFICES ASSUME NEW q \in DOMAIN c.pages, Named(J, N, q) = {}
                 PROVE  c.pages[q] = d.pages[q]
      OBVIOUS
    <3>1. Named(J, n, q) = {}
      BY <1>3 DEF Named
    <3> QED BY <2>1, <3>1 DEF Replayed
  <2>3. JournalInFile(c)
    BY <1>2, <2>1 DEF JournalInFile
  <2>4. Replayed(c.pages, J, N) = Replayed(d.pages, J, N)
    <3> DEFINE a == c.pages
               b == d.pages
    <3>1. /\ DOMAIN a = DOMAIN b
          /\ \A q \in DOMAIN a : Named(J, N, q) = {} => a[q] = b[q]
      BY <2>1, <2>2
    <3> HIDE DEF a, b, J, N
    <3>2. Replayed(a, J, N) = Replayed(b, J, N)
      BY <3>1, ReplayAgrees
    <3> QED BY <3>2 DEF a, b
  <2>5. ReplayedPages(c) = R
    BY <1>3, <2>1, <2>3, <2>4, ReplayedIs
  <2>6. c.header.journal_pending /\ c.dat
    BY <1>2, <2>1
  <2>7. Safe(c, cl, ok) <=>
           /\ c.dat
           /\ JournalInFile(c)
           /\ Clean(ReplayedPages(c))
           /\ ok => Good(ReplayedPages(c), cl)
    BY <2>1, <2>6, SafeInTxn
  <2>8. Safe(c, cl, ok)
    BY <1>2, <2>3, <2>5, <2>6, <2>7, Zenon
  <2> QED BY <2>5, <2>8 DEF c
<1>8. ASSUME NEW n \in 0 .. (N - 1)
      PROVE  TornSafe(St[n], ws[n + 1], cl, ok)
  <2> DEFINE c == St[n]
             m == n + 1
  <2>1. m \in 1 .. N /\ n \in 0 .. N
    BY <1>3
  <2>2. /\ c \in Files /\ c.header = d.header /\ c.journal = J
        /\ DOMAIN c.pages = DOMAIN d.pages /\ Safe(c, cl, ok)
    BY <1>5, <1>7, <2>1
  <2>3. ws[m] = Replay(J[m])
    BY <1>4, <2>1
  <2>4. J[m] \in Entries /\ J[m].page \in DOMAIN d.pages
    BY <1>2, <1>3, <2>1 DEF JournalInFile
  <2>5. J[m].image \in Page
    BY <2>4 DEF Entries
  <2> HIDE DEF c, m
  <2>6. CASE J[m].valid
    <3> DEFINE p == J[m].page
               x == J[m].image
    <3>1. ws[m] = PutPage(p, x)
      BY <2>3, <2>6 DEF Replay
    <3>2. m \in Named(J, N, p)
      BY <2>1, <2>6 DEF Named
    <3>3. p \in DOMAIN c.pages /\ x \in Page
          /\ Named(c.journal, Len(c.journal), p) # {}
      BY <2>2, <2>4, <2>5, <3>2
    <3> HIDE DEF p, x
    <3> QED BY <2>2, <3>1, <3>3, TornPage DEF c, m
  <2>7. CASE ~J[m].valid
    <3>1. ws[m] = NoWrite
      BY <2>3, <2>7 DEF Replay
    <3>2. TornBy(c, NoWrite) = {}
      BY <2>2, NothingWritten
    <3> QED BY <3>1, <3>2 DEF TornSafe, c, m
  <2> QED BY <2>6, <2>7
<1>9. SafePath(d, ws, cl, ok)
  BY <1>4, <1>7, <1>8 DEF SafePath, TornSafe, St
<1>10. Moves(d, ws, e, cl, ok)
  BY <1>4, <1>9 DEF Moves, e
<1>11. N \in 0 .. N
  BY <1>3
<1>12. /\ e \in Files /\ e.dat = d.dat /\ e.header = d.header
       /\ e.free_list = d.free_list /\ e.index = d.index
       /\ e.journal = d.journal /\ e.tmp = d.tmp
       /\ e.pages = R /\ ReplayedPages(e) = R
  BY <1>3, <1>5, <1>6, <1>7, <1>11
<1> QED BY <1>10, <1>12 DEF ws, e

(* Files that have just been put in order.                                 *)
LEMMA ServiceableIs ==
  ASSUME NEW d, NEW ok, ListWithin(d.free_list, d.pages), d.index.size = 2,
         LeafWithin(d.index.leaf, ActivePages(d.pages)),
         ok => /\ FreeListOf(d.free_list, d.pages)
               /\ d.header.record_count = Cardinality(ActivePages(d.pages))
               /\ OneEach(d.index.leaf, ActivePages(d.pages), d.pages)
  PROVE  \A s : Serviceable(d, s, ok)
<1>1. ListInFile(d)
  BY DEF ListWithin, ListInFile
<1>2. IndexInFile(d)
  BY DEF LeafWithin, IndexInFile, ActivePages
<1>3. ok => FreeListExact(d)
  BY DEF FreeListOf, FreeListExact
<1>4. ok => IndexExact(d)
  BY OneEachExact
<1>5. ok => d.header.record_count = Cardinality(ActivePages(d.pages))
  OBVIOUS
<1> SUFFICES ASSUME NEW s PROVE Serviceable(d, s, ok)
  OBVIOUS
<1> QED BY <1>1, <1>2, <1>3, <1>4, <1>5, Zenon DEF Serviceable

(* The header recovery writes.                                             *)
LEMMA HeaderParts ==
  ASSUME NEW h \in Headers, NEW n \in Nat
  PROVE  LET new == [h EXCEPT !.record_count = n, !.journal_pending = FALSE]
         IN  /\ new \in Headers /\ new.record_count = n
             /\ new.journal_pending = FALSE
             /\ new.next_record_id = h.next_record_id
<1>1. [h EXCEPT !.record_count = n] \in Headers
      /\ [h EXCEPT !.record_count = n].record_count = n
      /\ [h EXCEPT !.record_count = n].next_record_id = h.next_record_id
  BY DEF Headers
<1>2. ASSUME NEW g \in Headers
      PROVE  LET new == [g EXCEPT !.journal_pending = FALSE]
             IN  /\ new \in Headers /\ new.record_count = g.record_count
                 /\ new.journal_pending = FALSE
                 /\ new.next_record_id = g.next_record_id
  BY DEF Headers
<1> QED BY <1>1, <1>2

(* The pages the rest of recovery goes by are the replayed ones.           *)
LEMMA RecoveryPath ==
  ASSUME NEW d, NEW cl, NEW ok, Safe(d, cl, ok), d.header.journal_pending
  PROVE  LET ws == ReplayWrites(d)
             e  == ApplyAll(d, ws)
         IN  /\ Moves(d, ws, e, cl, ok)
             /\ ws # <<>>
             /\ e \in Files /\ e.dat /\ ~e.header.journal_pending
             /\ e.header = ReplayedHeader(d)
             /\ e.free_list = ScanFreeList(ReplayedPages(d))
             /\ e.pages = ReplayedPages(d)
             /\ e.index.size = 2
             /\ \A s : Serviceable(e, s, ok)
<1> DEFINE R   == ReplayedPages(d)
           fl  == ScanFreeList(R)
           h   == ReplayedHeader(d)
           w1  == PutEntries(d)
           w2  == RebuildIndexWrites(R)
           w3  == PutFreeList(fl)
           w4  == PutHeader(h)
           w5  == TruncateJournal
           f1  == ApplyAll(d, w1)
           f2  == ApplyAll(f1, w2)
           f3  == Apply(f2, w3)
           f4  == Apply(f3, w4)
           f5  == Apply(f4, w5)
           A   == ActivePages(R)
<1>1. /\ d \in Files /\ d.dat /\ JournalInFile(d) /\ Clean(R)
      /\ R \in PageFiles
  <2>1. d \in Files
    BY DEF Safe
  <2>2. d.dat /\ JournalInFile(d) /\ Clean(R)
    BY <2>1, SafeInTxn
  <2> QED BY <2>1, <2>2, ReplayedIs
<1>2. ok => Good(R, cl)
  BY <1>1, SafeInTxn
<1>3. /\ Moves(d, w1, f1, cl, ok)
      /\ f1 \in Files /\ f1.dat = d.dat /\ f1.header = d.header
      /\ f1.journal = d.journal /\ f1.pages = R /\ ReplayedPages(f1) = R
  BY EntriesMove
<1> HIDE DEF R, w1, f1
<1>4. IndexFree(f1, cl, ok)
  BY <1>3, MovesEnds DEF IndexFree
<1>5. /\ Moves(f1, w2, f2, cl, ok)
      /\ SameButIndex(f1, f2) /\ IndexFree(f2, cl, ok)
      /\ w2 # <<>>
      /\ f2.index.size = 2
      /\ LeafWithin(f2.index.leaf, A)
      /\ Unique(R) /\ Room(Cardinality(A)) => OneEach(f2.index.leaf, A, R)
  BY <1>1, <1>4, Rebuilt
<1> HIDE DEF w2, f2
<1>6. /\ Safe(f2, cl, ok) /\ f2 \in Files
      /\ f2.dat = d.dat /\ f2.header = d.header
      /\ f2.journal = d.journal /\ f2.pages = R
      /\ ReplayedPages(f2) = R
  <2>1. ReplayedPages(f2) = R
    BY <1>3, <1>4, <1>5, IndexFreeKept
  <2> QED BY <1>3, <1>5, <2>1 DEF IndexFree, SameButIndex
<1>7. fl \in FreeLists /\ ListWithin(fl, R) /\ FreeListOf(fl, R)
  BY <1>1, ScanLists
<1> HIDE DEF fl
<1>8. /\ Moves(f2, <<w3>>, f3, cl, ok)
      /\ f3 \in Files /\ f3.dat = f2.dat /\ f3.header = f2.header
      /\ f3.free_list = fl /\ f3.pages = f2.pages /\ f3.index = f2.index
      /\ f3.journal = f2.journal
  BY <1>6, <1>7, TxnFreeList
<1> HIDE DEF w3, f3
<1>9. Cardinality(A) \in Nat
  BY <1>1, FileOfPages
<1>10. h \in Headers /\ h.record_count = Cardinality(A)
       /\ h.journal_pending = FALSE
  <2>1. d.header \in Headers
    BY <1>1 DEF Files
  <2>2. h = [d.header EXCEPT !.record_count = Cardinality(A),
                            !.journal_pending = FALSE]
    BY DEF ReplayedHeader, R
  <2> HIDE DEF A, h
  <2> QED BY <1>9, <2>1, <2>2, HeaderParts
<1> HIDE DEF h
<1>11. /\ f4 \in Files /\ f4.dat = f3.dat /\ f4.header = h
       /\ f4.free_list = f3.free_list /\ f4.pages = f3.pages
       /\ f4.index = f3.index /\ f4.journal = f3.journal
       /\ TornBy(f3, w4) = {}
  BY <1>8, <1>10, HeaderPut
<1> HIDE DEF w4, f4
<1>12. /\ f5 \in Files /\ f5.dat = f4.dat /\ f5.header = f4.header
       /\ f5.free_list = f4.free_list /\ f5.pages = f4.pages
       /\ f5.index = f4.index
       /\ TornBy(f4, w5) = {}
  BY <1>11, JournalTruncated
<1> HIDE DEF w5, f5
<1>13. ok => OneEach(f2.index.leaf, A, R)
  BY <1>2, <1>5 DEF Good, A
<1>14. ASSUME NEW f, f \in {f4, f5}
       PROVE  /\ Safe(f, cl, ok) /\ f \in Files /\ f.dat
              /\ f.header = h /\ f.free_list = fl
              /\ f.pages = R /\ f.index.size = 2
              /\ \A s : Serviceable(f, s, ok)
  <2>1. /\ f \in Files /\ f.dat /\ f.header = h /\ f.free_list = fl
        /\ f.pages = R /\ f.index = f2.index
    BY <1>1, <1>6, <1>8, <1>11, <1>12, <1>14
  <2>2. /\ ListWithin(f.free_list, f.pages) /\ f.index.size = 2
        /\ LeafWithin(f.index.leaf, ActivePages(f.pages))
        /\ FreeListOf(f.free_list, f.pages)
        /\ f.header.record_count = Cardinality(ActivePages(f.pages))
    BY <1>5, <1>7, <1>10, <2>1
  <2>3. ok => OneEach(f.index.leaf, ActivePages(f.pages), f.pages)
    BY <1>13, <2>1
  <2>4. \A s : Serviceable(f, s, ok)
    BY <2>2, <2>3, ServiceableIs
  <2>5. ~f.header.journal_pending
    BY <1>10, <2>1
  <2>6. Safe(f, cl, ok) <=>
           /\ Clean(f.pages)
           /\ ok => Good(f.pages, cl)
           /\ Serviceable(f, cl.stale, ok)
    BY <2>1, <2>5, SafeOutside
  <2>7. Clean(f.pages)
    BY <1>1, <2>1
  <2>8. ok => Good(f.pages, cl)
    BY <1>2, <2>1
  <2>9. Safe(f, cl, ok)
    BY <2>4, <2>6, <2>7, <2>8, Zenon
  <2> QED BY <2>1, <2>2, <2>4, <2>9
<1>15. Moves(f3, <<w4>>, f4, cl, ok)
  <2>1. Safe(f3, cl, ok) /\ Safe(f4, cl, ok) /\ TornSafe(f3, w4, cl, ok)
    BY <1>8, <1>11, <1>14, MovesEnds DEF TornSafe
  <2> QED BY <2>1, MovesOne DEF f4
<1>16. Moves(f4, <<w5>>, f5, cl, ok)
  <2>1. Safe(f4, cl, ok) /\ Safe(f5, cl, ok) /\ TornSafe(f4, w5, cl, ok)
    BY <1>12, <1>14 DEF TornSafe
  <2> QED BY <2>1, MovesOne DEF f5
<1> DEFINE u == w1 \o w2
           v == (<<w3>> \o <<w4>>) \o <<w5>>
<1>17. Moves(d, u, f2, cl, ok)
  BY <1>3, <1>5, MovesThen
<1>18. Moves(f2, <<w3>> \o <<w4>>, f4, cl, ok)
  BY <1>8, <1>15, MovesThen
<1>19. Moves(f2, v, f5, cl, ok)
  BY <1>16, <1>18, MovesThen
<1>20. Moves(d, u \o v, f5, cl, ok)
  BY <1>17, <1>19, MovesThen
<1>21. v = <<w3, w4, w5>>
  BY ThreeWrites
<1>22. ReplayWrites(d) = u \o v
  BY <1>21 DEF ReplayWrites, w1, w2, w3, w4, w5, fl, h, R
<1>23. u \o v # <<>>
  <2>1. IsSeq(u) /\ IsSeq(v)
    BY <1>17, <1>19, MovesIs
  <2>2. Len(v) = 3
    BY <1>21
  <2> HIDE DEF u, v
  <2>3. Len(u \o v) = Len(u) + Len(v) /\ Len(u) \in Nat /\ IsSeq(u \o v)
    BY <2>1, ConcatFacts
  <2>4. Len(u \o v) # 0
    BY <2>2, <2>3
  <2> QED BY <2>3, <2>4, SeqFacts
<1> DEFINE ws == ReplayWrites(d)
<1>24. Moves(d, ws, f5, cl, ok) /\ ws # <<>>
  BY <1>20, <1>22, <1>23
<1>25. f5 = ApplyAll(d, ws)
  BY <1>24, MovesIs
<1> HIDE DEF ws, u, v
<1>26. f5 \in {f4, f5}
  OBVIOUS
<1>27. /\ f5 \in Files /\ f5.dat /\ ~f5.header.journal_pending
       /\ f5.header = h /\ f5.free_list = fl /\ f5.pages = R
       /\ f5.index.size = 2
       /\ \A s : Serviceable(f5, s, ok)
  BY <1>10, <1>14, <1>26
<1> QED BY <1>24, <1>25, <1>27 DEF ws, h, fl, R

=============================================================================
