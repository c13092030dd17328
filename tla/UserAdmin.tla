----------------------------- MODULE UserAdmin -----------------------------
(***************************************************************************)
(* The user database of useradm: a record per user, and two secondary      *)
(* indexes, of user names and of email addresses, that the program itself  *)
(* keeps in step with the records by separate calls.  The process may die  *)
(* between any two of them.                                                *)
(*                                                                         *)
(* A call of the database is one step here; what a crash does inside one   *)
(* is the subject of VdbDisk.  The records are the ones that can be read   *)
(* by id (RecordMap), an index is the multimap its file holds (MultiMap).  *)
(***************************************************************************)
EXTENDS LeafMap

CONSTANTS
  Names,             \* user names and addresses, in lower case
  Key(_),            \* StringKey: the CRC-16 of a name
  MAX_CANDIDATES,    \* 16: how many ids FindRecordByString looks at
  MaxId,             \* bound: users are created while next_record_id <= it
  MaxCrashes         \* bound: crashes in a behaviour

ASSUME CandidatesAssumption == MAX_CANDIDATES \in Nat \ {0}

Username == "Username"
Email    == "Email"
Fields   == <<Username, Email>>

VARIABLES
  dat,           \* the .DAT file exists
  indexes,       \* header.indexes: the fields that have been registered
  users,         \* record id -> the user's name in each field
  next_id,       \* header.next_record_id in memory ...
  saved_id,      \* ... and in the file
  files,         \* the index files: field -> leaf
  running,       \* the program runs
  todo,          \* the calls its current operation has still to make
  unsettled,     \* history: the ids of users an operation was cut off on
  refused,       \* history: an index was too full for an entry
  crashes        \* history: number of crashes

vars == <<dat, indexes, users, next_id, saved_id, files, running, todo,
          unsettled, refused, crashes>>

User(name, email) == [Username |-> name, Email |-> email]

-----------------------------------------------------------------------------
(* The calls an operation is made of.                                      *)
CallCreate(f)   == [call |-> "create",   field |-> f]
CallRegister(f) == [call |-> "register", field |-> f]

CallInsert(f, name, id) ==
  [call |-> "insert", field |-> f, name |-> name, id |-> id, vital |-> TRUE]

CallReinsert(f, name, id) ==
  [call |-> "insert", field |-> f, name |-> name, id |-> id, vital |-> FALSE]

CallRemove(f, name, id) ==
  [call |-> "remove", field |-> f, name |-> name, id |-> id]

CallUpdate(id, user) == [call |-> "update", id |-> id, user |-> user]
CallDelete(id)       == [call |-> "delete", id |-> id]

(* AddIndex creates the file of an index, then registers it in the header. *)
AddIndex(f) == <<CallCreate(f), CallRegister(f)>>

(* The primary index has a key for each record, and AddRecord fails when   *)
(* it is full.                                                             *)
PrimaryIndex == [id \in DOMAIN users |-> <<id>>]

AddRecordSucceeds == LeafInsert(PrimaryIndex, next_id, next_id).ok

-----------------------------------------------------------------------------
(* Mutant: only the first candidate is looked up.                          *)
FindUser_FirstOnly(f, name) ==
  IF f \notin indexes THEN 0
  ELSE LET found == LeafFind(files[f], Key(name), 1)
       IN  IF found # <<>> /\ Head(found) \in DOMAIN users THEN Head(found)
           ELSE 0

(* FindUserByUsername and FindUserByEmail, by FindRecordByString: the      *)
(* first candidate that is a record, whatever its name; 0 if there is none *)
(* or no such index.                                                       *)
FindUser(f, name) ==
  IF f \notin indexes THEN 0
  ELSE LET candidates == LeafFind(files[f], Key(name), MAX_CANDIDATES)
           found == {i \in DOMAIN candidates : candidates[i] \in DOMAIN users}
       IN  IF found = {} THEN 0 ELSE candidates[Min(found)]

Taken(f, name) == FindUser(f, name) # 0

(* AddUserToIndexes gives up at the first entry that is refused.           *)
AddUserToIndexes(user, id) ==
  <<CallInsert(Username, user.Username, id), CallInsert(Email, user.Email, id)>>

(* Mutant: the email index keeps its entry.                                *)
RemoveUserFromIndexes_NameOnly(user, id) ==
  <<CallRemove(Username, user.Username, id)>>

RemoveUserFromIndexes(user, id) ==
  <<CallRemove(Username, user.Username, id), CallRemove(Email, user.Email, id)>>

-----------------------------------------------------------------------------
Init ==
  /\ dat = FALSE
  /\ indexes = {}
  /\ users = [id \in {} |-> User(0, 0)]
  /\ next_id = 1
  /\ saved_id = 1
  /\ files = [f \in {} |-> EmptyLeaf]
  /\ running = FALSE
  /\ todo = <<>>
  /\ unsettled = {}
  /\ refused = FALSE
  /\ crashes = 0

(* The program is at its menu.                                             *)
AtMenu == running /\ todo = <<>>

Begin(calls) ==
  /\ todo' = calls
  /\ UNCHANGED <<running, unsettled, refused, crashes>>

(* WriteHeaderToDisk, which AddRecord (when it succeeds), DeleteRecord,    *)
(* AddIndex and CloseDatabase call.                                        *)
SaveHeader == saved_id' = next_id /\ UNCHANGED next_id

(* InitDatabase.  On the first run it creates the database and its         *)
(* indexes; later it needs both index files to be there.                   *)
InitDatabase ==
  /\ ~running
  /\ dat => DOMAIN files = ToSet(Fields)
  /\ dat' = TRUE
  /\ running' = TRUE
  /\ todo' = IF dat THEN <<>> ELSE AddIndex(Username) \o AddIndex(Email)
  /\ UNCHANGED <<indexes, users, next_id, saved_id, files, unsettled, refused,
                 crashes>>

CleanupDatabase ==
  /\ AtMenu
  /\ running' = FALSE
  /\ SaveHeader
  /\ UNCHANGED <<dat, indexes, users, files, todo, unsettled, refused, crashes>>

(* Mutant: the email address is not looked up.                             *)
DoCreateUser_NameOnly(name, email) ==
  /\ AtMenu
  /\ next_id <= MaxId
  /\ ~Taken(Username, name)
  /\ next_id' = next_id + 1
  /\ saved_id' = IF AddRecordSucceeds THEN next_id' ELSE saved_id
  /\ users' = IF AddRecordSucceeds
              THEN WithEntry(users, next_id, User(name, email)) ELSE users
  /\ Begin(IF AddRecordSucceeds
           THEN AddUserToIndexes(User(name, email), next_id) ELSE <<>>)
  /\ UNCHANGED <<dat, indexes, files>>

(* Mutant: AddRecord does not write the header.                            *)
DoCreateUser_KeepHeader(name, email) ==
  /\ AtMenu
  /\ next_id <= MaxId
  /\ ~Taken(Username, name)
  /\ ~Taken(Email, email)
  /\ next_id' = next_id + 1
  /\ users' = IF AddRecordSucceeds
              THEN WithEntry(users, next_id, User(name, email)) ELSE users
  /\ Begin(IF AddRecordSucceeds
           THEN AddUserToIndexes(User(name, email), next_id) ELSE <<>>)
  /\ UNCHANGED <<dat, indexes, files, saved_id>>

(* DoCreateUser.  An AddRecord that fails has used up an id, in memory.    *)
DoCreateUser(name, email) ==
  /\ AtMenu
  /\ next_id <= MaxId
  /\ ~Taken(Username, name)
  /\ ~Taken(Email, email)
  /\ next_id' = next_id + 1
  /\ saved_id' = IF AddRecordSucceeds THEN next_id' ELSE saved_id
  /\ users' = IF AddRecordSucceeds
              THEN WithEntry(users, next_id, User(name, email)) ELSE users
  /\ Begin(IF AddRecordSucceeds
           THEN AddUserToIndexes(User(name, email), next_id) ELSE <<>>)
  /\ UNCHANGED <<dat, indexes, files>>

(* Mutant: the entry under the old name stays.                             *)
Moves_KeepOld(f, id, name) ==
  IF users[id][f] = name THEN <<>> ELSE <<CallReinsert(f, name, id)>>

(* The index entry moves to the new name, if it is one.                    *)
Moves(f, id, name) ==
  IF users[id][f] = name THEN <<>>
  ELSE <<CallRemove(f, users[id][f], id), CallReinsert(f, name, id)>>

(* DoEditUser, when it changes the name in field f.  (The other fields     *)
(* change the record only.)                                                *)
DoEditUser(id, f, name) ==
  /\ AtMenu
  /\ users[id][f] # name => ~Taken(f, name)
  /\ Begin(Moves(f, id, name) \o <<CallUpdate(id, [users[id] EXCEPT ![f] = name])>>)
  /\ UNCHANGED <<dat, indexes, users, next_id, saved_id, files>>

DoDeleteUser(id) ==
  /\ AtMenu
  /\ Begin(RemoveUserFromIndexes(users[id], id) \o <<CallDelete(id)>>)
  /\ UNCHANGED <<dat, indexes, users, next_id, saved_id, files>>

-----------------------------------------------------------------------------
Call == Head(todo)

Running(call) == todo # <<>> /\ Call.call = call

Done == todo' = Tail(todo)

(* AddIndex: CreateBTree, and then the header.                             *)
CreateIndexFile ==
  /\ Running("create")
  /\ Done
  /\ files' = WithEntry(files, Call.field, EmptyLeaf)
  /\ UNCHANGED <<dat, indexes, users, next_id, saved_id, running, unsettled,
                 refused, crashes>>

RegisterIndex ==
  /\ Running("register")
  /\ Done
  /\ indexes' = indexes \cup {Call.field}
  /\ SaveHeader
  /\ UNCHANGED <<dat, users, files, running, unsettled, refused, crashes>>

(* BTreeInsert.  AddUserToIndexes returns when it fails; DoEditUser does   *)
(* not look at the result.                                                 *)
InsertEntry ==
  /\ Running("insert")
  /\ LET r == LeafInsert(files[Call.field], Key(Call.name), Call.id)
     IN  /\ files' = [files EXCEPT ![Call.field] = r.leaf]
         /\ todo' = IF r.ok \/ ~Call.vital THEN Tail(todo) ELSE <<>>
         /\ refused' = (refused \/ ~r.ok)
         /\ unsettled' = unsettled \cup IF r.ok THEN {} ELSE {Call.id}
  /\ UNCHANGED <<dat, indexes, users, next_id, saved_id, running, crashes>>

(* BTreeDeleteValue.                                                       *)
RemoveEntry ==
  /\ Running("remove")
  /\ Done
  /\ files' = [files EXCEPT ![Call.field] =
                 LeafDeleteValue(@, Key(Call.name), Call.id)]
  /\ UNCHANGED <<dat, indexes, users, next_id, saved_id, running, unsettled,
                 refused, crashes>>

UpdateRecord ==
  /\ Running("update")
  /\ Done
  /\ users' = [users EXCEPT ![Call.id] = Call.user]
  /\ UNCHANGED <<dat, indexes, next_id, saved_id, files, running, unsettled,
                 refused, crashes>>

DeleteRecord ==
  /\ Running("delete")
  /\ Done
  /\ users' = WithoutKey(users, Call.id)
  /\ SaveHeader
  /\ UNCHANGED <<dat, indexes, files, running, unsettled, refused, crashes>>

(* The ids the operation in progress is about.                             *)
InProgress == {c.id : c \in {d \in ToSet(todo) : d.call \notin
                                                   {"create", "register"}}}

Crash ==
  /\ running
  /\ crashes < MaxCrashes
  /\ crashes' = crashes + 1
  /\ running' = FALSE
  /\ todo' = <<>>
  /\ unsettled' = unsettled \cup InProgress
  /\ next_id' = saved_id
  /\ UNCHANGED <<dat, indexes, users, saved_id, files, refused>>

Next ==
  \/ InitDatabase
  \/ CleanupDatabase
  \/ \E name, email \in Names : DoCreateUser(name, email)
  \/ \E id \in DOMAIN users :
       \/ DoDeleteUser(id)
       \/ \E f \in ToSet(Fields), name \in Names : DoEditUser(id, f, name)
  \/ CreateIndexFile
  \/ RegisterIndex
  \/ InsertEntry
  \/ RemoveEntry
  \/ UpdateRecord
  \/ DeleteRecord
  \/ Crash

Spec == Init /\ [][Next]_vars

-----------------------------------------------------------------------------
(* The ids in use are below the counter in the file, so that no crash      *)
(* makes one of them free again.                                           *)
TypeOK ==
  /\ dat \in BOOLEAN /\ running \in BOOLEAN /\ refused \in BOOLEAN
  /\ saved_id <= next_id
  /\ indexes \subseteq DOMAIN files
  /\ DOMAIN files \subseteq ToSet(Fields)
  /\ \A f \in DOMAIN files :
       /\ DOMAIN files[f] \subseteq {Key(name) : name \in Names}
       /\ \A k \in DOMAIN files[f] : ToSet(files[f][k]) \subseteq 1 .. saved_id - 1
  /\ DOMAIN users \subseteq 1 .. saved_id - 1
  /\ \A id \in DOMAIN users : users[id] \in [ToSet(Fields) -> Names]
  /\ unsettled \subseteq 1 .. saved_id - 1

Settled == DOMAIN users \ (unsettled \cup InProgress)

(* The keys a user's id is entered under in an index.                      *)
EntriesOf(f, id) == {k \in DOMAIN files[f] : Contains(files[f][k], id)}

(* Whatever was interrupted on other users, a user none of whose own       *)
(* operations was cut off is in both indexes, under its name and under     *)
(* nothing else.                                                           *)
SettledIndexed ==
  \A id \in Settled : \A f \in ToSet(Fields) :
    EntriesOf(f, id) = {Key(users[id][f])}

(* Names and addresses are unique among those users, in each field whose   *)
(* index is registered, as long as fewer users than FindRecordByString     *)
(* looks at have been left with a wrong entry.  After a first start that   *)
(* was cut off one index may never be registered; the other still guards   *)
(* its field.                                                              *)
NamesUnique ==
  Cardinality(unsettled) < MAX_CANDIDATES =>
    \A f \in indexes : \A a, b \in Settled :
      users[a][f] = users[b][f] => a = b

(* Without a crash no entry is left behind: an id in an index is a         *)
(* record's or the user's in progress, and so an index never fills before  *)
(* the primary index does.                                                 *)
NoStaleEntries ==
  crashes = 0 =>
    /\ ~refused
    /\ \A f \in DOMAIN files : \A k \in DOMAIN files[f] :
         /\ Len(files[f][k]) <= 1
         /\ ToSet(files[f][k]) \subseteq DOMAIN users

(* Without a crash a search by a user's name finds that user.              *)
FoundByOwnName ==
  crashes = 0 =>
    \A id \in Settled : \A f \in ToSet(Fields) :
      FindUser(f, users[id][f]) = id
=============================================================================
