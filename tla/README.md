# Formal model of the vDB library

vDB (`src/`) is a small record database in ANSI C: fixed-size records in a file
of 512-byte pages, a primary index, a free page list and a journal, with a user
administration program as its example client. This directory holds TLA+ modules
that model it, TLC configurations that check them on small instances, and
proofs, checked by TLAPS, of its safety invariants, with crashes, and of two of
its refinements for every instance.
`PROJECT.json` lists the components, the runs, the source lines behind every
definition, the hazards and the disagreements found between the code and what
its documentation says.

## The system

| component | source | state | operations | what makes it correct |
|---|---|---|---|---|
| database core | `src/src/db/db.c` | header (page 0), free page list (page 1), data pages; the first two cached in the `Database` handle | `CreateDatabase`, `OpenDatabase`, `CloseDatabase`, `AllocatePages`, `ReleasePages` | only empty pages are allocated; the free page count is right although the list is bounded |
| record operations | `src/src/db/record.c` | the runs of pages records occupy | `AddRecord`, `FindRecordByID`, `UpdateRecord`, `DeleteRecord` | reads return what was last written to that id; records do not overlap; ids are not reused |
| journal | `src/src/db/journal.c` | `.JNL` file, `journal_pending` flag | `BeginTransaction`, `CommitTransaction`, `RollbackTransaction`, `ReplayJournal` | replay restores the latest image; recovery leaves a consistent database with every completed change |
| maintenance | `src/src/db/maint.c` | none of its own | `UpdateFreePages`, `RebuildIndex`, `CompactDatabase`, `ValidateDatabase`, `AddIndex` | scans and compaction keep every record readable |
| B-tree | `src/src/btree/btree.c` | one root leaf in a page | insert, find, delete key, delete value | it is a multimap; a leaf that does not fit is refused and not written; what is written can be read |
| secondary indexes | `maint.c`, `record.c` | B-trees from hashed strings to ids | `AddIndex`, `FindRecordByString` | the client keeps them in step with the records |
| useradm | `src/examples/useradm` | two secondary indexes over one database | start, add, edit, delete, search users | names and addresses are unique; a user is found by both exactly while stored |
| checksums | `src/src/crc` | `Sha1Context` | `Crc16`, `Sha1Init`, `Sha1Update`, `Sha1Final` | the digest does not depend on how the message is cut into calls; a damaged journal entry is noticed |
| byte images, strings | `dbutil.c`, `src/src/util` | none | pure functions | encoding loses nothing |

The library is single-threaded: there are no locks, threads or callbacks. What
is hard is (a) long sequences of legal calls over four structures (pages, index,
free list, journal), each kept up to date by another rule, (b) the process dying
between two of the 5 to 15 file writes a call makes, or inside one, and (c) a
client that keeps two more indexes in step by calls of its own. Record
operations call the allocator and the B-tree; replay and compaction call
`RebuildIndex` and `UpdateFreePages`; `OpenDatabase` calls replay; useradm calls
the record operations and, past the database, the B-trees of its indexes; the
journal calls `Crc16`, and so does the key of a string. `PROJECT.json` lists the
hazards line by line.

## Modules

    RecordMap        what the library promises: a map from ids to contents
       ^ implements
    RecordStore      the open database between API calls   (extends DbPages)
       ^ implements, when nothing crashes
    VdbDisk          the same, write by write, with crashes (extends DbPages, LeafMap)

    MultiMap         what a B-tree file promises: a bounded multimap
       ^ implements
    BTree            the file, call by call  (extends BTreeLeaf: sorted array, page image)

    UserAdmin        useradm: users and their index entries, with crashes
    Sha1, Crc16      checksums against their definitions

    DbPages          pages, runs, images, scans, compaction: functions on pages
    LeafMap          the root leaf of a B-tree as a multimap with a byte limit;
                     used by VdbDisk, MultiMap, BTreeLeaf and UserAdmin
    DbPagesProofs <- RecordStoreProofs
    DbPagesProofs, LeafProofs <- VdbDiskPathProofs <- VdbDiskProofs
    LeafProofs <- UserAdminProofs, BTreeProofs
    Sha1Proofs                                           theorems about them
    MCRecordStore, MCVdbDisk, MCUserAdmin, MCChecksums   what runs check in addition

**DbPages.** The data pages are a function from page numbers (from 2) to
`[id, status, data]`. The content of a record is one abstract value, and every
page of a run carries the value it was written from: a record whose pages hold
two values is torn. `ScanFreePages`, `ScanIndex` and `CompactedPages` are what
`UpdateFreePages`, `RebuildIndex(-1)` and the copy loop of `CompactDatabase`
compute. A page of zero bytes is an empty page, as in `db.h`.

**RecordStore.** One action per API call. The cached header and free list and
their copies in pages 0 and 1 are one variable (without a crash they agree
whenever the difference could be seen: `CloseDatabase` writes both). The free
list is a set and `AllocatePages` may pick any suitable run, so what is shown
holds whatever order the list is searched in. The journal is the last image of
each page. `AddRecordRefused` is the branch of `AddRecord` on which
`BTreeInsert` finds the leaf full: the pages stay written and the id stays used.
Operations on a closed handle or an unknown id return FALSE and change nothing;
they are not actions. Commit and rollback have one definition, because the code
does the same in both. `CompactDatabase` is called outside transactions only
(see the divergences).

**VdbDisk.** The files as they are: free list and journal are sequences, the
index is `LeafMap`'s leaf plus the number of pages its file has, `tmp` is the
copy compaction makes. A call computes, from the files and the handle, the
sequence of writes it will make; `Flush` performs one of them, and `Crash` drops
the handle and the rest. This is exact because the program is single-threaded
and reads only files it writes itself. One write is one flushed `fwrite` of a
page or journal entry, or one `fopen("wb")`, `remove` or `rename`; the copy into
the `.TMP` file is one write, since nothing reads that file before it is
complete. With `TornWrites` a crash may also leave part of the write it
interrupts (`TornBy`): a journal entry whose checksum does not match, which
replay skips (`NoWrite`), or a data page with the first fields of the new image and the
others of the old. (Headers, free list and index leaf are not torn: the fields
that change in them are a few bytes that one sector holds.) `CloseBTree`
rewrites the index header page as it is; that write changes nothing and is left
out. `AllocatePages` pops the end of the list for one page and takes the first
run in list order for more; `ReleasePages` lists only the first page of a run;
`CopiedPages` is the compaction loop with its skip: a copied record starts at an
active page that no copied record before it covers. `Recovered(disk)` is the
disk as the next `OpenDatabase` leaves it. `client` and `outcome` are history:
what a client may rely on now, and once the call in progress has returned.

**RecordMap.** `Add`, `Update`, `Delete` on a map, ids from a counter. The pages
of refused records are `limbo`: a rescan may bring them back. With nothing
refused the map is all a client sees.

**BTreeLeaf, BTree, MultiMap.** `BTreeLeaf` has the array of entries as the code
holds it, the search that stops at the first larger key, the shifting of entries
and values, and the byte image: a function from the offset of each field in the
page to its value, with the arithmetic and the limit checks of `SerializeLeaf`
and `DeserializeLeaf` as two separate definitions, as they are two separate
sums in the code. In `BTree` the file is two pages; every call reads the leaf
back from the image before it changes it. `MultiMap` is what a user of the module
may rely on: a map, a result for every call, and no change by a call that
returns FALSE. The multimap that can be read from the file is kept in the history
variable `map`, which the refinement mapping uses.

**UserAdmin.** A database call is one step (what a crash does inside one is the
subject of `VdbDisk`); an operation of the program queues the calls it makes one
after the other, and `Crash` may cut it off between any two. Index entries are
`LeafMap`'s, keyed by `Key(name)`, so names may collide and entries may be
refused when the page is full; the records are the ones that can be read by id.
`FindUser` is `FindRecordByString`: the first of the oldest `MAX_CANDIDATES` ids
under the key that is a record, whatever its name. Names are in lower case, as
`StrToLower` leaves them. `next_id` is the counter in memory, which a refused
`AddRecord` advances too, and `saved_id` the one in the file, which a crash goes
back to. `InitDatabase` is the guard that both index files
exist and, on the first run, their creation and registration in two steps each.

**Sha1, Crc16.** `Sha1` models the context: the two words of the bit count with
the carry test, the buffer, the blocks taken from buffer or data, the padding.
The 80 rounds are abstract: the state is the sequence of blocks processed, which
determines it, so two messages are told apart even where SHA-1 might collide.
The length field has one byte that counts for each of the two words, so the
order of the words is checked and that of the bytes in a word (`StoreBE32`) is
not. `size_t` is taken to have 32 bits at least: with 16, `len << 3` and
`len >> 29` would lose bits of lengths that no caller passes.
`Crc16` has the table and the bytewise loop, and the bitwise definition.

Definitions named `X_Something` with a comment that begins "Mutant" are wrong
versions of `X`, used to confirm that the property named in `PROJECT.json`
notices the difference. No specification uses them.

## Runs

Bounds: `MaxRecordId` and `MaxId` end the adds, `MaxPages` the file,
`MaxJournal` the entries of one transaction, `MaxCrashes` the crashes,
`MaxLength` the message. Two contents `a`, `b` are enough to tell an old image
from a new one.

| run | instance | question |
|---|---|---|
| `store_two_pages` | 2 pages per record, list of 2, leaf of 2, 4 adds | do the invariants hold over all sequences of calls (compaction outside transactions only), with the list and the leaf overflowing, and is the store a `RecordMap`? |
| `disk_refines_store` | 2 pages, list of 2, leaf of 2, 3 adds, journal of 6, no crash | do the writes of each call add up to the `RecordStore` action? |
| `disk_refines_single` | 1 page, otherwise the same | the same for the popping path of `AllocatePages` and for immediate reuse, also within a transaction; and is the result a `RecordMap`? |
| `disk_crash_txn` | 1 page, list of 2, 2 adds, journal of 2, all calls, 2 crashes, torn writes | is the database consistent and complete after recovery, wherever the process dies? is every record always in some file? does reopening come to an end? |
| `btree_leaf` | 4 keys, 3 values, at most 3 keys of 2 values in 57 bytes | do the sorted array and its page image implement the multimap? |
| `user_admin` | 3 names of which 2 collide, 2 keys per page, 2 candidates, 4 ids, 2 crashes | which users stay indexed, unique and findable? |
| `checksums` | blocks of 4 bytes, length of 2, words mod 32, messages to 9 bytes | is the digest that of the padded message however it is cut up? is the CRC the bitwise one? |
| `refused_add_displaces`, `crash_reissues_id`, `crash_tears_record`, `crash_in_recovery`, `crash_in_edit` | small | counterexamples to what the documentation says (below) |

Why the bounds are enough to be interesting: with two-page records and a list of
two, a deletion lists one page and counts two, two deletions fill the list, the
third overflows it, and a scan lists a whole run, so all three strategies of
`AllocatePages` occur. A leaf smaller than the number of adds makes `AddRecord`
fail and rebuilds choose. Three journal entries allow update-update and
delete-then-reuse of one page in a transaction (two in the crash run), and two
crashes allow one inside the recovery from the other. In `btree_leaf` a page of
57 bytes holds three entries of one, two and two values, so each of the limits
(keys, values, bytes) is what stops some insert while the others leave room. In
`user_admin` two keys fill a page, so the second index can refuse what the first
took; two crashes leave as many wrong entries as the search looks at. In
`checksums` every block overflows the low word of the count, the length may fall
just short of, on and past the end of a block, and a message spans up to four
blocks with its padding. `CrcNoticesChange` tries every other value of one byte
in messages of up to four bytes, and the other byte of the instance in longer
ones; that torn journal entries, of 500 bytes and with many bytes changed, are
noticed is assumed, as it must be of any checksum. The real sizes differ from these only in numbers the
definitions take as parameters.

`disk_crash_txn` checks `RecoveryConsistent` (tiled pages, exact index, sound
free list, right counts after the next open), `Durable` (every record whose last
call returned is as that call left it; every deletion that returned stays) and
`NothingLost` (at any moment, also while compaction has removed the `.DAT` file,
every such record is whole in the `.DAT` or the `.TMP` file). Its assumptions
are the ones the code needs: records change in transactions only, one page per
record, compaction outside transactions, no refused add and no reissued id, and
no use of an index that an interrupted rebuild or compaction outside a
transaction has left behind (`client.stale`; no journal repairs it, and the
remedy the code offers is another `RebuildIndex`).

**Fairness.** `EventuallyServes` is checked under `FairSpec`: a process goes on
with the writes of the call it is in (`WF_todo(Flushing)`: nothing in the code
waits for anything, so a call that is not cut off makes its next write), and
somebody opens a closed database that can be opened (`WF_ram(Opening)`: useradm
does when it starts). Weak fairness is enough because nothing but `Crash`
disables either, and a behaviour has boundedly many crashes. No fairness is assumed of
any other call. The other runs state no fairness: between calls the library does
nothing, so their properties are safety properties.

`CHECK_DEADLOCK FALSE` is used where the system really stops: a crash at a point
where the database cannot be opened again, useradm when it is refused its start,
the bounds on ids or crashes reached, a message of full length; and in the
counterexample runs, where it has no influence.

## Findings

1. `crash_reissues_id`: recovery restores the records and not `next_record_id`.
2. `crash_tears_record`: the journal entries of a multi-page record are not one unit.
3. `crash_in_recovery`: a crash while the index file is recreated leaves a
   database that `OpenDatabase` refuses before it looks at the journal.
4. `refused_add_displaces`: the pages of a refused add push a stored record out
   of the index at the next rebuild.
5. `crash_in_edit`: `DoEditUser` moves the index entry to the new name before it
   updates the record. Cut off in between, the record keeps a name that no search
   finds, and the next user created takes it: two users with one name, each with
   an entry in both indexes.

Each is quoted with its line in `PROJECT.json`. Further divergences, met while
modelling and not given a run:

* `docs/db.md` says that all changes are journalled first; `record.c` journals
  only while a transaction is active.
* `RollbackTransaction` discards the journal and leaves the pages changed. The
  plan in `docs/superpowers` says otherwise; the comment in
  `src/tests/db/journal.c` says what the code does.
* `ReleasePages` lists only the first page of a freed multi-page run, so the next
  add extends the file although the run is empty, until a scan.
* `docs/db.md` says that recovery always rebuilds all indexes; `ReplayJournal`
  rebuilds the primary index only.
* `CompactDatabase` does not look at `journal_pending`: called inside a
  transaction, it renumbers the pages under the journal, and closing and
  reopening before the commit replays entries onto other records.
* `AddIndex` does not scan the records that are stored; useradm adds its indexes
  before the first record.
* A search by name returns the first candidate that is a record, also one with
  another name of the same CRC-16, although `docs/db.md` says that the name is
  verified; `DoCreateUser` then calls a free name taken.
* A first start of useradm that is cut off after `CreateDatabase` leaves a
  database the program takes for complete. Without both index files it does not
  start again. With the file of the e-mail index created and not registered it
  runs, never searches that index and lets two users have one address, although
  `docs/useradm.md` says that addresses are unique. (`NamesUnique` is stated for
  the fields whose index is registered: the user names stay unique.)

## Proofs

For every value of the constants:

| module | theorem | statement |
|---|---|---|
| `RecordStoreProofs` | `TypeCorrect` | `Spec => []TypeOK` |
| | `RecordsNeverOverlap` | `Spec => []RunsTile` |
| | `IdsNeverReused` | `Spec => []IdsUsedOnce` |
| | `IndexAlwaysSound` | `Spec => []IndexSound` |
| | `FreeListAlwaysSound` | `Spec => []FreeListSound` |
| | `ReplayRestoresNothingOld` | `Spec => []JournalAgrees` |
| | `FreeCountAlwaysExact` | `Spec => []FreeCountExact` |
| | `ValidWhileNoneRefused` | `Spec => []ValidUntilRefused` |
| | `StoreIsRecordMap` | `Spec => ImplementsRecordMap` |
| `VdbDiskProofs` | `CrashInvariant` | `Spec => []IInv` |
| | `FilesTypeOK` | `Spec => []TypeOK` |
| | `RecoveryAlwaysConsistent` | `Spec => []RecoveryConsistent` |
| | `ReturnedCallsDurable` | `Spec => []Durable` |
| | `NoRecordEverLost` | `Spec => []NothingLost` |
| `BTreeProofs` | `BTreeTypeOK` | `Spec => []TypeOK` |
| | `LeafAlwaysReadable` | `Spec => []AlwaysReadable` |
| | `LeafKeysInOrder` | `Spec => []KeysInOrder` |
| | `BTreeIsMultiMap` | `Spec => ImplementsMultiMap` |
| `UserAdminProofs` | `UserAdminTypeOK` | `Spec => []TypeOK` |
| | `UsersIndexed` | `Spec => []SettledIndexed` |
| | `UserNamesUnique` | `Spec => []NamesUnique` |
| | `NoEntryStale` | `Spec => []NoStaleEntries` |
| | `UsersFound` | `Spec => []FoundByOwnName` |
| `Sha1Proofs` | `Sha1TypeOK` | `Spec => []TypeOK` |
| | `NoByteEverLost` | `Spec => []NoByteLost` |
| | `DigestAlwaysExact` | `Spec => []DigestExact` |

The assumptions are the ones the modules declare. `DbPages` and `RecordStore`:
`PagesNeeded`, `MaxFreePages` and `LeafKeys` are positive, the bounds natural
numbers. `VdbDisk`: its bounds are natural numbers, `MaxPages` leaves room for
header and free list (`BoundsAssumption`), and the primary index holds as many
keys as fit in its page (`LeafKeysFit`). `LeafMap`: page size and limits are natural numbers, and a key may have
a value (`LeafLimitsAssumption`; the code has 512, 60 and 60). `UserAdmin`: a
search looks at one candidate at least. `BTree`: keys are integers, the sizes
callers pass to `BTreeFind` natural numbers. `Sha1`: a block holds more than the
length field and a word is a multiple of the bits of a block (`BlockAssumption`;
64, 8 and 2^32 in the code), and a message is shorter than two words can count
(`LengthAssumption`, the limit FIPS 180-4 sets). `Key`, names, values, and how many
crashes a behaviour may have are arbitrary. Every inductive invariant below was
also checked by TLC on the instance of the component's run (that of `VdbDisk` with
one crash and with finite sets of pages and leaves in place of all).

**The record store.** None of the invariants is inductive alone, so they are
proved together as `IInv`, their conjunction. `UpdateRecord` and `DeleteRecord`
keep records apart only if the index names first pages (`IndexSound`);
`AddRecord` only if listed pages are empty (`FreeListSound`); a deletion keeps
the index sound only if no other key names that page, which needs ids to be
unique (`IdsUsedOnce`); and replay keeps everything only if the journal holds
what the pages hold (`JournalAgrees`), whose second half, an empty journal
outside transactions, is what lets compaction renumber pages. `DbPagesProofs` has
the facts about pages that the steps use: writing a run that meets no other
record keeps the pages tiled (`WriteRecordTiles`), so does emptying a record
(`EraseRecordTiles`), and compaction is a bijection from runs to runs
(`CompactionTiles`, from the ranks of the active pages in page order). There is
one lemma per action.

Its second part adds the two stored numbers, given `IInv` before and after
each step. `FreeCountExact` is inductive then: an allocation takes a run of
`PagesNeeded` empty pages off the count, or new pages that were never counted
(`AllocationCounts`), and a deletion adds a run of which no page was empty. For
`ValidUntilRefused` the invariant is `IndexComplete`, which adds that the active
pages fit in the leaf: keys and active pages correspond one to one
(`KeysAreRecords`), so a leaf with room for a key has room for the record, and a
scan by `RebuildIndex`, compaction or replay then drops none
(`ScanIndexComplete`, from the ranks of the active pages).

The third part maps every call to a step of `RecordMap`. The ids on disk and
their contents are one function, `Records(pages)`; the mapped variables split it
at the index (`Mapping`). An add, update or delete changes that function at one
id (`OneRecordWritten`, `OneRecordErased`); a scan, replay or compaction leaves
it as it is and may move the border, which is `RecordMap`'s `Rescan`
(`RescanStep`: a scan keeps as many keys as the leaf has room for, `FirstOfSize`
being the fact about the first pages in page order).

**The files, with crashes.** The theorems about `VdbDisk` have two hypotheses:
`PagesNeeded = 1` and `ChangeOnlyInTxn`. Without either, recovery does not always
leave a consistent database: `crash_tears_record` is a run in which a record of
two pages comes back torn, and outside a transaction nothing is in the journal,
so a crash between the data page and the index of a deletion leaves a key
without a record (the hazard at `record.c:342`). The other theorems inherit the
hypotheses, because they come from the same invariant. Everything else is
arbitrary: capacities, contents, which calls are made, how often the process
dies, and whether the write it dies in is torn.

A state of the files is `Safe` if the process may die with it: the surviving
pages, which are those of the data file, those with the journal replayed, or
those of the copy, hold no half of a record and keep every promise to the client;
and if the journal flag is cleared, index, free list and counts are exact without
any repair. `SafePath` says this of every state on the way through a sequence of
writes, and of every state a torn write leaves (`TornBy`). The inductive invariant
`IInv` is that the queue of writes is such a path, and that at its end the handle
agrees with the files (`Rested`). Safety of the state alone is not inductive: it
says nothing of what the next write does. With the path in the invariant, `Flush`
only takes its first step (`FirstMove`), `Crash` stops on it, and the work is in
the call that sets up the queue.

`VdbDiskPathProofs` builds the paths. It shows what one write does to the files
(`PagePut`, `IndexPut`, `EntryAppended`, ...), and that paths can be joined
(`MovesThen`). Replaying the journal depends only on the last valid entry of each
page (`Replayed`), so appending an entry, or half of one, changes what recovery
will find in exactly one page or not at all (`ReplayAppended`); that is why the
entry is written before the page, and why a page torn after its entry does no
harm. The paths of the parts of a call follow: taking a page from the free list
or extending the file, a record through the journal (`TxnRecord`), recreating the
index file and inserting every active page (`Rebuilt`), and recovery
(`RecoveryPath`), which keeps the journal flag set until everything else has
been rebuilt. `VdbDiskProofs` has one lemma per call: each is a path from files
that serve the handle to files that serve it, and the promises of the client
change between them only in the record the call is about.

`ok` in these lemmas stands for `Undisturbed`: no `AddRecord` has found the index
full or issued an id again. The shape of the files is shown without it.

**The B-tree.** There are three layers. (1) A leaf that `SerializeLeaf` has
written is read back by `DeserializeLeaf` as it was (`RoundTrip`): the fields of
the image lie at distinct offsets, counted in `LeafFieldPlaces`, and the offsets
the reading loop computes, one after the other, are these; the loop is a
recursive function, and that it finds every entry is shown from the least index
at which it would not. The bytes a leaf takes are the bytes its multimap takes
(`BytesOfMap`, a bijection between the values in the array and the slots of the
map), so the array and `LeafMap` refuse the same entries. (2) The search finds a
key exactly if the leaf has it (`FindFacts`), and the loops that shift entries
and values keep the array in order and do to the multimap what `LeafMap` says
(`NewEntryEffect`, `NewValuesEffect`, `ValueAddedEffect`, `WithoutEntryEffect`,
`WithoutValueEffect`). (3) The inductive invariant says that the file, when it
exists, is the image of a leaf in order that fits the page, and `map` is what the
leaf denotes. A deletion, which the code writes without looking whether it may,
always fits because it takes no more bytes than before (`SmallerFits`). Each call
then is a step of `MultiMap` with the same result (`InsertStep`, `FindStep`,
`DeleteStep`, `DeleteValueStep`, `CreateStep`, `OpenStep`, `CloseStep`).

**useradm.** Between two calls of an operation the promises about the user it
works on do not hold, so the inductive invariant lists what the program can be
in the middle of (`Control`): at rest, in its first start, or creating, deleting
or renaming one user, and for each call that may come next what the indexes hold
of that user (`ToEnterBoth`, ..., `ToUpdate`); everybody else has one entry per
index, under the key of the name (`Normal`). The other conjuncts are why the
calls do not fail: the primary index has refused no user, and an index without
entries left behind is no larger than it (`UsersFit`, `InsertSucceeds`), and why
names stay unique: a name that a search did not find is free, even where a
collision hides it, because the entries of one key that are not users' are fewer
than the candidates (`NotFound`, `NotTakenIsFree`). A crash moves the user of the
call in progress to `unsettled`, and what is left is at rest (`CrashKeeps`).
`LeafProofs` has the facts about leaves that this and the B-tree rest on.

**Sha1.** The inductive invariant says that a context holds a message (`Holds`):
the blocks processed are its full blocks (`Cut`), the buffer begins with what is
behind them (`Kept`), and the two words are its length in bits (`Count`). The
count advances correctly because the sum of the low words is smaller than what
was added exactly if it wrapped (`CountAdvances`), and the low word alone gives
the position in the buffer because a word is a whole number of blocks (`UsedIs`).
A call of `Sha1Update` fills the buffered block, leaves it open or begins at a
block's start (`Filled`, `InBuffer`, `FromBlock`); in each case the context holds
the longer message (`UpdatedHolds`). `Sha1Final` is two such calls, and what they
append is the padding of the standard (`PaddedIs`: `PadLength` is one byte more
than the only number of zeros that ends a block). That the blocks and the buffer,
put one after the other, are the message is shown from the least number of blocks
for which they would not be (`FlattenBlocks`).

Only model-checked: the refinements of `VdbDisk` (of `RecordStore` and
`RecordMap`), its liveness (`EventuallyServes`), and the CRC (`CrcExact`,
`CrcNoticesChange`). Out of the prover's reach: liveness; the refinement mapping
of the journal in `VdbDisk`, a fold over its entries; and `Crc16`, whose operators
on bits the provers do not have. The crash theorems say nothing of records of
several pages or of changes outside transactions, where `RecoveryConsistent` is
false.

## Not modelled

* I/O errors (a failing `fwrite`, `fopen` in the middle of a call), writes
  reordered below the file system, and torn writes of headers, free list and
  index leaf.
* Encoding to bytes of header, free list, page and journal entry, file names,
  strings, time stamps; validation and display in useradm.
* `uint16`/`int32` wrap-around of counts, page numbers and ids, which needs
  files of 32 MB or 2^31 adds. (The wrap-around of SHA-1's bit count is modelled.)
* The 80 rounds of SHA-1, `Sha1ToHex`; integer keys of secondary indexes,
  `DB_MAX_INDEXES`, `RebuildIndex` of a secondary index, which no code calls.
* An interrupted or failing `CreateDatabase`; a handle that is closed without
  having been opened; a damaged file made by another program.

## Plan

1. (done) `DbPages`, `RecordStore`, `RecordMap`, `LeafMap`, `VdbDisk` with torn
   writes, compaction and liveness; `BTreeLeaf`, `BTree`, `MultiMap`;
   `UserAdmin`; `Sha1`, `Crc16`; the proofs above.
2. (done) The proofs of `RecoveryConsistent`, `Durable` and `NothingLost` of
   `VdbDisk`, for which its folds over the queue became recursive functions.
3. A client of `VdbDisk` that repairs a stale index before it uses it, so that
   `client.stale` becomes an action of recovery and no longer an assumption.
