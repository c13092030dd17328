-------------------------- MODULE UserAdminProofs --------------------------
(***************************************************************************)
(* The user database keeps its promises for all sets of names, every key   *)
(* function, every page size and number of candidates, and any number of   *)
(* crashes.  The inductive invariant says, for each call the program can   *)
(* be about to make, what the indexes hold of the user it is about; of the *)
(* other users they hold one entry, under the key of the name.             *)
(***************************************************************************)
EXTENDS UserAdmin, LeafProofs

TheFields == ToSet(Fields)

Ids == DOMAIN users

(* The users none of whose operations was cut off before now.              *)
Sound == DOMAIN users \ unsettled

LeavesOK ==
  /\ DOMAIN files \subseteq TheFields
  /\ \A f \in DOMAIN files :
       /\ LeafOK(files[f])
       /\ \A k, id : LeafHolds(files[f], k, id) =>
            /\ k \in {Key(name) : name \in Names}
            /\ id \in DOMAIN users \cup unsettled

IdsOK ==
  /\ dat \in BOOLEAN /\ running \in BOOLEAN /\ refused \in BOOLEAN
  /\ next_id \in Nat \ {0} /\ saved_id \in Nat \ {0} /\ saved_id <= next_id
  /\ crashes \in Nat
  /\ DOMAIN users \subseteq 1 .. saved_id - 1
  /\ unsettled \subseteq 1 .. saved_id - 1
  /\ \A id \in DOMAIN users : users[id] \in [TheFields -> Names]
  /\ crashes = 0 => unsettled = {} /\ ~refused

(* The primary index has the key of every user, and so has room for them.  *)
UsersFit ==
  DOMAIN users # {} =>
    /\ Cardinality(DOMAIN users) <= BT_MAX_KEYS
    /\ 7 + 14 * Cardinality(DOMAIN users) <= BT_PAGE_SIZE

(* No other user has the name, nor, before the first crash, its key.       *)
Free(f, name, id) ==
  /\ f \in indexes /\ Cardinality(unsettled) < MAX_CANDIDATES =>
       \A b \in Sound \ {id} : users[b][f] # name
  /\ crashes = 0 =>
       \A b \in DOMAIN users \ {id} : Key(users[b][f]) # Key(name)

NamesFree == \A id \in Sound : \A f \in TheFields : Free(f, users[id][f], id)

Normal(id) == \A f \in TheFields : EntriesOf(f, id) = {Key(users[id][f])}

OthersNormal(id) == \A b \in Sound \ {id} : Normal(b)

(* What is in the indexes of a user that was never cut off.                *)
Entered(id, keys) ==
  id \in Sound => \A f \in TheFields : EntriesOf(f, id) = keys[f]

Own(id) == [f \in TheFields |-> {Key(users[id][f])}]
None    == [f \in TheFields |-> {}]

But(id, f, keys) == [Own(id) EXCEPT ![f] = keys]

-----------------------------------------------------------------------------
(* What the program can be in the middle of.                               *)
AtRest ==
  /\ todo = <<>>
  /\ indexes \subseteq DOMAIN files
  /\ running \/ Ids # {} => DOMAIN files = TheFields
  /\ running => dat
  /\ crashes = 0 /\ dat => indexes = TheFields /\ DOMAIN files = TheFields
  /\ ~dat => DOMAIN files = {} /\ Ids = {} /\ unsettled = {} /\ crashes = 0
  /\ \A b \in Sound : Normal(b)

Starting ==
  /\ running /\ dat /\ Ids = {} /\ unsettled = {}
  /\ \A f \in DOMAIN files : files[f] = EmptyLeaf
  /\ \/ /\ todo = <<CallCreate(Username), CallRegister(Username),
                    CallCreate(Email), CallRegister(Email)>>
        /\ DOMAIN files = {} /\ indexes = {}
     \/ /\ todo = <<CallRegister(Username), CallCreate(Email),
                    CallRegister(Email)>>
        /\ DOMAIN files = {Username} /\ indexes = {}
     \/ /\ todo = <<CallCreate(Email), CallRegister(Email)>>
        /\ DOMAIN files = {Username} /\ indexes = {Username}
     \/ /\ todo = <<CallRegister(Email)>>
        /\ DOMAIN files = TheFields /\ indexes = {Username}

(* The steps of DoCreateUser ...                                           *)
ToEnterBoth(id) ==
  /\ todo = <<CallInsert(Username, users[id].Username, id),
              CallInsert(Email, users[id].Email, id)>>
  /\ Entered(id, None)

ToEnterEmail(id) ==
  /\ todo = <<CallInsert(Email, users[id].Email, id)>>
  /\ Entered(id, But(id, Email, {}))

(* ... of DoDeleteUser ...                                                 *)
ToRemoveBoth(id) ==
  /\ todo = <<CallRemove(Username, users[id].Username, id),
              CallRemove(Email, users[id].Email, id), CallDelete(id)>>
  /\ Entered(id, Own(id))

ToRemoveEmail(id) ==
  /\ todo = <<CallRemove(Email, users[id].Email, id), CallDelete(id)>>
  /\ Entered(id, But(id, Username, {}))

ToDelete(id) == todo = <<CallDelete(id)>> /\ Entered(id, None)

(* ... and of DoEditUser.                                                  *)
Renamed(id, f, name) == CallUpdate(id, [users[id] EXCEPT ![f] = name])

ToMove(id, f, name) ==
  /\ todo = <<CallRemove(f, users[id][f], id), CallReinsert(f, name, id),
              Renamed(id, f, name)>>
  /\ Entered(id, Own(id))

ToReinsert(id, f, name) ==
  /\ todo = <<CallReinsert(f, name, id), Renamed(id, f, name)>>
  /\ Entered(id, But(id, f, {}))

ToUpdate(id, f, name) ==
  /\ todo = <<Renamed(id, f, name)>>
  /\ Entered(id, But(id, f, {Key(name)}))

Creating(id) == ToEnterBoth(id) \/ ToEnterEmail(id)

Deleting(id) == ToRemoveBoth(id) \/ ToRemoveEmail(id) \/ ToDelete(id)

Renaming(id, f, name) ==
  /\ id \in Sound => Free(f, name, id)
  /\ ToMove(id, f, name) \/ ToReinsert(id, f, name) \/ ToUpdate(id, f, name)

(* Whatever the program does to user id, the rest is in order.             *)
About(id) ==
  /\ running /\ dat
  /\ DOMAIN files = TheFields /\ indexes \subseteq TheFields
  /\ crashes = 0 => indexes = TheFields
  /\ OthersNormal(id)

Working(id) ==
  /\ About(id)
  /\ \/ Creating(id)
     \/ Deleting(id)
     \/ \E f \in TheFields, name \in Names : Renaming(id, f, name)

Control == AtRest \/ Starting \/ \E id \in Ids : Working(id)

IInv == LeavesOK /\ IdsOK /\ UsersFit /\ NamesFree /\ Control

-----------------------------------------------------------------------------
(* There are two fields.                                                   *)
LEMMA FieldsSet ==
  TheFields = {Username, Email} /\ Username # Email
BY DEF TheFields, Fields, ToSet, Username, Email

(* The calls of an operation, one taken off.                               *)
LEMMA OneCall ==
  ASSUME NEW a
  PROVE  /\ <<a>> # <<>> /\ Head(<<a>>) = a /\ Tail(<<a>>) = <<>>
         /\ ToSet(<<a>>) = {a}
BY DEF ToSet

(* The same of two calls ...                                               *)
LEMMA TwoCalls ==
  ASSUME NEW a, NEW b
  PROVE  /\ <<a, b>> # <<>> /\ Head(<<a, b>>) = a /\ Tail(<<a, b>>) = <<b>>
         /\ ToSet(<<a, b>>) = {a, b}
<1>1. Tail(<<a, b>>) = <<b>>
  OBVIOUS
<1> QED BY <1>1 DEF ToSet

(* ... and of three.                                                       *)
LEMMA ThreeCalls ==
  ASSUME NEW a, NEW b, NEW c
  PROVE  /\ <<a, b, c>> # <<>> /\ Head(<<a, b, c>>) = a
         /\ Tail(<<a, b, c>>) = <<b, c>>
         /\ ToSet(<<a, b, c>>) = {a, b, c}
<1>1. Tail(<<a, b, c>>) = <<b, c>>
  OBVIOUS
<1> QED BY <1>1 DEF ToSet

(* The calls of a rename or a delete are put together from two parts.      *)
LEMMA TwoAndOne ==
  ASSUME NEW a, NEW b, NEW c
  PROVE  <<a, b>> \o <<c>> = <<a, b, c>>
<1> DEFINE S == {a, b, c}
           s == <<a, b>>
           t == <<c>>
           u == <<a, b, c>>
<1>1. s \in Seq(S) /\ t \in Seq(S) /\ u \in Seq(S)
  OBVIOUS
<1>2. /\ Len(s) = 2 /\ Len(t) = 1 /\ Len(u) = 3
      /\ s[1] = a /\ s[2] = b /\ t[1] = c
      /\ u[1] = a /\ u[2] = b /\ u[3] = c
  OBVIOUS
<1> HIDE DEF s, t, u, S
<1>3. /\ s \o t \in Seq(S) /\ Len(s \o t) = 3
      /\ \A i \in 1 .. 3 : (s \o t)[i] = IF i <= 2 THEN s[i] ELSE t[i - 2]
  <2>1. /\ s \o t \in Seq(S) /\ Len(s \o t) = Len(s) + Len(t)
        /\ \A i \in 1 .. Len(s) + Len(t) :
             (s \o t)[i] = IF i <= Len(s) THEN s[i] ELSE t[i - Len(s)]
    BY <1>1, ConcatProperties, Zenon
  <2> QED BY <1>2, <2>1
<1>4. \A i \in 1 .. 3 : i = 1 \/ i = 2 \/ i = 3
  OBVIOUS
<1>5. \A i \in 1 .. 3 : (s \o t)[i] = u[i]
  BY <1>2, <1>3, <1>4
<1>6. s \o t = u
  BY <1>1, <1>2, <1>3, <1>5, SeqEqual
<1> QED BY <1>6 DEF s, t, u

(* So are the calls of the first start.                                    *)
LEMMA TwoAndTwo ==
  ASSUME NEW a, NEW b, NEW c, NEW d
  PROVE  <<a, b>> \o <<c, d>> = <<a, b, c, d>>
<1> DEFINE S == {a, b, c, d}
           s == <<a, b>>
           t == <<c, d>>
           u == <<a, b, c, d>>
<1>1. s \in Seq(S) /\ t \in Seq(S) /\ u \in Seq(S)
  OBVIOUS
<1>2. /\ Len(s) = 2 /\ Len(t) = 2 /\ Len(u) = 4
      /\ s[1] = a /\ s[2] = b /\ t[1] = c /\ t[2] = d
      /\ u[1] = a /\ u[2] = b /\ u[3] = c /\ u[4] = d
  OBVIOUS
<1> HIDE DEF s, t, u, S
<1>3. /\ s \o t \in Seq(S) /\ Len(s \o t) = 4
      /\ \A i \in 1 .. 4 : (s \o t)[i] = IF i <= 2 THEN s[i] ELSE t[i - 2]
  <2>1. /\ s \o t \in Seq(S) /\ Len(s \o t) = Len(s) + Len(t)
        /\ \A i \in 1 .. Len(s) + Len(t) :
             (s \o t)[i] = IF i <= Len(s) THEN s[i] ELSE t[i - Len(s)]
    BY <1>1, ConcatProperties, Zenon
  <2> QED BY <1>2, <2>1
<1>4. \A i \in 1 .. 4 : i = 1 \/ i = 2 \/ i = 3 \/ i = 4
  OBVIOUS
<1>5. \A i \in 1 .. 4 : (s \o t)[i] = u[i]
  BY <1>2, <1>3, <1>4
<1>6. s \o t = u
  BY <1>1, <1>2, <1>3, <1>5, SeqEqual
<1> QED BY <1>6 DEF s, t, u

(* The four calls of the first start, one taken off.                       *)
LEMMA FourCalls ==
  ASSUME NEW a, NEW b, NEW c, NEW d
  PROVE  /\ <<a, b, c, d>> # <<>> /\ Head(<<a, b, c, d>>) = a
         /\ Tail(<<a, b, c, d>>) = <<b, c, d>>
<1>1. Tail(<<a, b, c, d>>) = <<b, c, d>>
  OBVIOUS
<1> QED BY <1>1

(* What the calls are.                                                     *)
LEMMA CallKinds ==
  ASSUME NEW f, NEW name, NEW id, NEW user
  PROVE  /\ CallInsert(f, name, id) =
              [call |-> "insert", field |-> f, name |-> name, id |-> id,
               vital |-> TRUE]
         /\ CallReinsert(f, name, id) =
              [call |-> "insert", field |-> f, name |-> name, id |-> id,
               vital |-> FALSE]
         /\ CallRemove(f, name, id) =
              [call |-> "remove", field |-> f, name |-> name, id |-> id]
         /\ CallUpdate(id, user) = [call |-> "update", id |-> id, user |-> user]
         /\ CallDelete(id) = [call |-> "delete", id |-> id]
         /\ CallCreate(f) = [call |-> "create", field |-> f]
         /\ CallRegister(f) = [call |-> "register", field |-> f]
BY DEF CallInsert, CallReinsert, CallRemove, CallUpdate, CallDelete,
       CallCreate, CallRegister

(* A user is a function from the fields.                                   *)
LEMMA UserFields ==
  /\ \A u \in [TheFields -> Names] :
       u.Username = u[Username] /\ u.Email = u[Email]
  /\ \A m, n \in Names : User(m, n) \in [TheFields -> Names]
BY FieldsSet DEF Username, Email, User

(* The ids in use are finitely many.                                       *)
LEMMA IdsFinite ==
  ASSUME NEW N \in Nat \ {0}, NEW S, S \subseteq 1 .. N - 1
  PROVE  IsFiniteSet(S) /\ Cardinality(S) \in Nat
<1>1. IsFiniteSet(1 .. N - 1)
  BY FS_Interval
<1>2. S \in SUBSET (1 .. N - 1)
  OBVIOUS
<1>3. IsFiniteSet(S)
  BY <1>1, <1>2, FS_Subset
<1> QED BY <1>3, FS_CardinalityType

(* Entries in terms of the pairs a leaf holds.                             *)
LEMMA EntryHeld ==
  ASSUME NEW f, NEW id, NEW k
  PROVE  k \in EntriesOf(f, id) <=> LeafHolds(files[f], k, id)
BY DEF EntriesOf, LeafHolds

-----------------------------------------------------------------------------
(* A name that is free stays free while the users stay and the program can *)
(* only be cut off once more.                                              *)
LEMMA FreeKept ==
  ASSUME NEW f, NEW name, NEW id, Free(f, name, id),
         users' = users, indexes' = indexes, crashes' = 0 => crashes = 0,
         unsettled \subseteq unsettled', IsFiniteSet(unsettled')
  PROVE  Free(f, name, id)'
<1>1. Cardinality(unsettled) <= Cardinality(unsettled')
  <2>1. unsettled \in SUBSET unsettled'
    OBVIOUS
  <2> QED BY <2>1, FS_Subset
<1>2. /\ Cardinality(unsettled) \in Nat /\ Cardinality(unsettled') \in Nat
      /\ MAX_CANDIDATES \in Nat
  <2>1. IsFiniteSet(unsettled)
    <3>1. unsettled \in SUBSET unsettled'
      OBVIOUS
    <3> QED BY <3>1, FS_Subset
  <2> QED BY <2>1, FS_CardinalityType, CandidatesAssumption
<1>3. Cardinality(unsettled') < MAX_CANDIDATES
        => Cardinality(unsettled) < MAX_CANDIDATES
  BY <1>1, <1>2
<1> QED BY <1>3 DEF Free, Sound

(* The same of the users' own names.                                       *)
LEMMA NamesFreeKept ==
  ASSUME NamesFree, users' = users, indexes' = indexes,
         crashes' = 0 => crashes = 0,
         unsettled \subseteq unsettled', IsFiniteSet(unsettled')
  PROVE  NamesFree'
<1>1. SUFFICES ASSUME NEW id \in Sound', NEW f \in TheFields
               PROVE  Free(f, users[id][f], id)'
  BY DEF NamesFree, TheFields
<1>2. PICK name : name = users[id][f]
  OBVIOUS
<1>3. id \in Sound
  BY DEF Sound
<1>4. Free(f, name, id)
  BY <1>2, <1>3 DEF NamesFree
<1>5. Free(f, name, id)'
  BY <1>4, FreeKept
<1>6. users'[id][f] = name
  BY <1>2
<1> QED BY <1>5, <1>6

(* Nothing about the users or their entries changes.                       *)
LEMMA UsersFitKept ==
  ASSUME UsersFit, users' = users
  PROVE  UsersFit'
BY DEF UsersFit

-----------------------------------------------------------------------------
(* Before the first crash an index has room for an entry of a user it does *)
(* not have: its keys are other users' keys, one each, and the primary     *)
(* index has room for all users.                                           *)
LEMMA InsertSucceeds ==
  ASSUME IInv, crashes = 0, NEW id \in Ids, About(id),
         NEW f \in TheFields, NEW name, EntriesOf(f, id) = {},
         Free(f, name, id)
  PROVE  LeafInsert(files[f], Key(name), id).ok
<1> DEFINE leaf == files[f]
           D == DOMAIN leaf
           key == Key(name)
           others == Ids \ {id}
<1>1. /\ unsettled = {} /\ Sound = Ids /\ f \in DOMAIN files /\ LeafOK(leaf)
      /\ \A b \in others : EntriesOf(f, b) = {Key(users[b][f])}
  BY DEF IInv, IdsOK, LeavesOK, Sound, Ids, About, OthersNormal, Normal
<1>2. ASSUME NEW k \in D, NEW i \in 1 .. Len(leaf[k])
      PROVE  leaf[k][i] \in others /\ k = Key(users[leaf[k][i]][f])
  <2> DEFINE b == leaf[k][i]
  <2>1. Contains(leaf[k], b)
    BY DEF Contains
  <2>2. LeafHolds(leaf, k, b) /\ k \in EntriesOf(f, b)
    BY <2>1, EntryHeld DEF LeafHolds
  <2>3. b \in Ids
    BY <1>1, <2>2 DEF IInv, LeavesOK, Ids
  <2>4. b # id
    BY <2>2
  <2> QED BY <1>1, <2>2, <2>3, <2>4
<1>3. ASSUME NEW k \in D
      PROVE  /\ leaf[k] \in Seq(Nat) /\ Len(leaf[k]) = 1
             /\ leaf[k][1] \in others /\ k = Key(users[leaf[k][1]][f])
  <2>1. leaf[k] \in Seq(Nat) /\ leaf[k] # <<>> /\ Distinct(leaf[k])
    BY <1>1 DEF LeafOK
  <2>2. PICK n \in Int : n = Len(leaf[k]) /\ n >= 1
    <3> HIDE DEF leaf
    <3> QED BY <2>1
  <2>3. CASE n >= 2
    <3>1. 1 \in 1 .. Len(leaf[k]) /\ 2 \in 1 .. Len(leaf[k])
      BY <2>2, <2>3
    <3>2. PICK b : b = leaf[k][1]
      OBVIOUS
    <3>3. PICK c : c = leaf[k][2]
      OBVIOUS
    <3>4. b \in others /\ c \in others /\ Key(users[b][f]) = Key(users[c][f])
      BY <1>2, <3>1, <3>2, <3>3
    <3>5. b # c
      BY <2>1, <3>1, <3>2, <3>3 DEF Distinct
    <3>6. Free(f, users[b][f], b)
      BY <1>1, <3>4 DEF IInv, NamesFree
    <3> QED BY <3>4, <3>5, <3>6 DEF Free, Ids
  <2>4. CASE n = 1
    <3>1. Len(leaf[k]) = 1 /\ 1 \in 1 .. Len(leaf[k])
      BY <2>2, <2>4
    <3> QED BY <1>2, <2>1, <3>1
  <2>5. \A m \in Int : m >= 1 => m >= 2 \/ m = 1
    OBVIOUS
  <2>6. n >= 2 \/ n = 1
    BY <2>2, <2>5, Zenon
  <2> QED BY <2>3, <2>4, <2>6
<1>4. key \notin D
  <2>1. SUFFICES ASSUME key \in D PROVE FALSE
    OBVIOUS
  <2>2. PICK b \in others : Key(users[b][f]) = key
    BY <1>3, <2>1
  <2> QED BY <2>2 DEF Free, Ids
<1>5. IsFiniteSet(Ids) /\ Cardinality(Ids) \in Nat
  BY IdsFinite DEF IInv, IdsOK, Ids
<1>6. IsFiniteSet(others) /\ Cardinality(others) = Cardinality(Ids) - 1
  BY <1>5, FS_RemoveElement
<1> DEFINE first == [k \in D |-> leaf[k][1]]
<1>7. IsFiniteSet(D) /\ Cardinality(D) <= Cardinality(others)
  <2>1. first \in Injection(D, others)
    <3>1. first \in [D -> others]
      BY <1>3
    <3>2. \A j, k \in D : first[j] = first[k] => j = k
      BY <1>3
    <3> QED BY <3>1, <3>2 DEF Injection, IsInjective
  <2> HIDE DEF first, D, others
  <2> QED BY <1>6, <2>1, FS_Injection
<1>8. Cardinality(D) \in Nat
  BY <1>7, FS_CardinalityType
<1> DEFINE grown == WithEntry(leaf, key, Append(<<>>, id))
<1>9. /\ DOMAIN grown = D \cup {key}
      /\ \A k \in DOMAIN grown : Len(grown[k]) = 1
  <2>1. Len(Append(<<>>, id)) = 1
    OBVIOUS
  <2> HIDE DEF leaf
  <2> QED BY <1>3, <2>1 DEF WithEntry
<1>10. /\ IsFiniteSet(DOMAIN grown)
       /\ Cardinality(DOMAIN grown) = Cardinality(D) + 1
  BY <1>4, <1>7, <1>9, FS_AddElement
<1>11. LeafBytes(grown) = 7 + 14 * (Cardinality(D) + 1)
  <2> HIDE DEF grown
  <2> QED BY <1>9, <1>10, SingleValuesBytes
<1>12. /\ Cardinality(Ids) <= BT_MAX_KEYS
       /\ 7 + 14 * Cardinality(Ids) <= BT_PAGE_SIZE
  BY DEF IInv, UsersFit, Ids
<1>13. Cardinality(D) < BT_MAX_KEYS /\ LeafBytes(grown) <= BT_PAGE_SIZE
  <2> HIDE DEF grown, D, others
  <2> QED BY <1>5, <1>6, <1>7, <1>8, <1>11, <1>12, LeafLimitsAssumption
<1>14. ~Contains(<<>>, id)
  BY DEF Contains
<1> QED BY <1>4, <1>13, <1>14 DEF LeafInsert, Fits

-----------------------------------------------------------------------------
(* The first call of each operation in progress, the calls that are left   *)
(* after it, and the user they are all about.                              *)
ForUser(call, id) == call.call \notin {"create", "register"} /\ call.id = id

(* Which user a call is about.                                             *)
LEMMA CallsForUser ==
  ASSUME NEW f, NEW name, NEW id, NEW user
  PROVE  /\ ForUser(CallInsert(f, name, id), id)
         /\ ForUser(CallReinsert(f, name, id), id)
         /\ ForUser(CallRemove(f, name, id), id)
         /\ ForUser(CallUpdate(id, user), id)
         /\ ForUser(CallDelete(id), id)
BY CallKinds DEF ForUser

(* The last call of an operation.                                          *)
LEMMA OneLeft ==
  ASSUME NEW id, NEW a, ForUser(a, id), todo = <<a>>
  PROVE  todo # <<>> /\ Call = a /\ Tail(todo) = <<>> /\ InProgress = {id}
<1>1. ToSet(todo) = {a}
  BY OneCall
<1> QED BY <1>1, OneCall DEF InProgress, ForUser, Call

(* An operation with two calls to make ...                                 *)
LEMMA TwoLeft ==
  ASSUME NEW id, NEW a, ForUser(a, id), NEW b, ForUser(b, id),
         todo = <<a, b>>
  PROVE  todo # <<>> /\ Call = a /\ Tail(todo) = <<b>> /\ InProgress = {id}
<1>1. ToSet(todo) = {a, b}
  BY TwoCalls
<1> QED BY <1>1, TwoCalls DEF InProgress, ForUser, Call

(* ... and with three.                                                     *)
LEMMA ThreeLeft ==
  ASSUME NEW id, NEW a, ForUser(a, id), NEW b, ForUser(b, id),
         NEW c, ForUser(c, id), todo = <<a, b, c>>
  PROVE  todo # <<>> /\ Call = a /\ Tail(todo) = <<b, c>> /\ InProgress = {id}
<1>1. ToSet(todo) = {a, b, c}
  BY ThreeCalls
<1> QED BY <1>1, ThreeCalls DEF InProgress, ForUser, Call

(* What DoCreateUser is about to call.                                     *)
LEMMA CreatingCalls ==
  ASSUME NEW id
  PROVE  /\ ToEnterBoth(id) =>
              /\ todo # <<>> /\ Call = CallInsert(Username, users[id].Username, id)
              /\ Tail(todo) = <<CallInsert(Email, users[id].Email, id)>>
              /\ InProgress = {id}
         /\ ToEnterEmail(id) =>
              /\ todo # <<>> /\ Call = CallInsert(Email, users[id].Email, id)
              /\ Tail(todo) = <<>>
              /\ InProgress = {id}
<1>1. /\ ForUser(CallInsert(Username, users[id].Username, id), id)
      /\ ForUser(CallInsert(Email, users[id].Email, id), id)
  BY CallsForUser
<1> QED BY <1>1, OneLeft, TwoLeft DEF ToEnterBoth, ToEnterEmail

(* What DoDeleteUser is about to call.                                     *)
LEMMA DeletingCalls ==
  ASSUME NEW id
  PROVE  /\ ToRemoveBoth(id) =>
              /\ todo # <<>> /\ Call = CallRemove(Username, users[id].Username, id)
              /\ Tail(todo) = <<CallRemove(Email, users[id].Email, id),
                                CallDelete(id)>>
              /\ InProgress = {id}
         /\ ToRemoveEmail(id) =>
              /\ todo # <<>> /\ Call = CallRemove(Email, users[id].Email, id)
              /\ Tail(todo) = <<CallDelete(id)>>
              /\ InProgress = {id}
         /\ ToDelete(id) =>
              /\ todo # <<>> /\ Call = CallDelete(id) /\ Tail(todo) = <<>>
              /\ InProgress = {id}
<1>1. /\ ForUser(CallRemove(Username, users[id].Username, id), id)
      /\ ForUser(CallRemove(Email, users[id].Email, id), id)
      /\ ForUser(CallDelete(id), id)
  BY CallsForUser
<1> QED BY <1>1, OneLeft, TwoLeft, ThreeLeft
        DEF ToRemoveBoth, ToRemoveEmail, ToDelete

(* What DoEditUser is about to call.                                       *)
LEMMA RenamingCalls ==
  ASSUME NEW id, NEW f, NEW name
  PROVE  /\ ToMove(id, f, name) =>
              /\ todo # <<>> /\ Call = CallRemove(f, users[id][f], id)
              /\ Tail(todo) = <<CallReinsert(f, name, id), Renamed(id, f, name)>>
              /\ InProgress = {id}
         /\ ToReinsert(id, f, name) =>
              /\ todo # <<>> /\ Call = CallReinsert(f, name, id)
              /\ Tail(todo) = <<Renamed(id, f, name)>>
              /\ InProgress = {id}
         /\ ToUpdate(id, f, name) =>
              /\ todo # <<>> /\ Call = Renamed(id, f, name) /\ Tail(todo) = <<>>
              /\ InProgress = {id}
<1>1. /\ ForUser(CallRemove(f, users[id][f], id), id)
      /\ ForUser(CallReinsert(f, name, id), id)
      /\ ForUser(Renamed(id, f, name), id)
  BY CallsForUser DEF Renamed
<1> QED BY <1>1, OneLeft, TwoLeft, ThreeLeft DEF ToMove, ToReinsert, ToUpdate

-----------------------------------------------------------------------------
(* An index has changed, and what is new in it is under the key of a name  *)
(* and for a user.                                                         *)
LEMMA LeafChanged ==
  ASSUME LeavesOK, NEW f \in DOMAIN files, NEW leaf, LeafOK(leaf),
         files' = [files EXCEPT ![f] = leaf],
         DOMAIN users' = DOMAIN users, unsettled \subseteq unsettled',
         \A k, v : LeafHolds(leaf, k, v) =>
           \/ LeafHolds(files[f], k, v)
           \/ k \in {Key(name) : name \in Names} /\ v \in DOMAIN users
  PROVE  LeavesOK' /\ DOMAIN files' = DOMAIN files
<1>1. /\ DOMAIN files' = DOMAIN files
      /\ \A g \in DOMAIN files : files'[g] = IF g = f THEN leaf ELSE files[g]
  OBVIOUS
<1>2. \A g \in DOMAIN files : LeafOK(files'[g])
  BY <1>1 DEF LeavesOK
<1>3. ASSUME NEW g \in DOMAIN files, NEW k, NEW id,
             LeafHolds(files'[g], k, id)
      PROVE  /\ k \in {Key(name) : name \in Names}
             /\ id \in DOMAIN users' \cup unsettled'
  <2>1. \/ LeafHolds(files[g], k, id)
        \/ k \in {Key(name) : name \in Names} /\ id \in DOMAIN users
    BY <1>1, <1>3
  <2> QED BY <2>1 DEF LeavesOK
<1>4. DOMAIN files' \subseteq TheFields
  BY <1>1 DEF LeavesOK
<1> QED BY <1>1, <1>2, <1>3, <1>4 DEF LeavesOK, TheFields

(* How BTreeInsert of a user's name in an index leaves the state, whether  *)
(* there was room or not.                                                  *)
LEMMA InsertStep ==
  ASSUME IInv, NEW id \in Ids, About(id), NEW f \in TheFields,
         NEW name \in Names, NEW vital \in BOOLEAN, InsertEntry,
         Call = [call |-> "insert", field |-> f, name |-> name, id |-> id,
                 vital |-> vital],
         id \in Sound => EntriesOf(f, id) = {} /\ Free(f, name, id)
  PROVE  /\ LeavesOK' /\ IdsOK' /\ UsersFit' /\ NamesFree' /\ About(id)'
         /\ users' = users
         /\ \/ /\ todo' = Tail(todo) /\ Sound' = Sound
               /\ \A g \in TheFields :
                    EntriesOf(g, id)' = IF g = f
                                        THEN EntriesOf(g, id) \cup {Key(name)}
                                        ELSE EntriesOf(g, id)
            \/ /\ todo' = IF vital THEN <<>> ELSE Tail(todo)
               /\ Sound' = Sound \ {id}
<1> DEFINE r == LeafInsert(files[f], Key(name), id)
<1>1. Call.field = f /\ Call.name = name /\ Call.id = id /\ Call.vital = vital
  OBVIOUS
<1>2. /\ files' = [files EXCEPT ![f] = r.leaf]
      /\ todo' = IF r.ok \/ ~vital THEN Tail(todo) ELSE <<>>
      /\ refused' = (refused \/ ~r.ok)
      /\ unsettled' = unsettled \cup IF r.ok THEN {} ELSE {id}
      /\ UNCHANGED <<dat, indexes, users, next_id, saved_id, running, crashes>>
  BY <1>1 DEF InsertEntry
<1>3. /\ f \in DOMAIN files /\ LeafOK(files[f]) /\ DOMAIN files = TheFields
      /\ id \in Nat /\ id \in DOMAIN users
  BY DEF IInv, LeavesOK, IdsOK, About, Ids
<1>4. /\ LeafOK(r.leaf) /\ r.ok \in BOOLEAN
      /\ ~r.ok => r.leaf = files[f]
      /\ r.ok => \A k, v : LeafHolds(r.leaf, k, v) <=>
                   LeafHolds(files[f], k, v) \/ (k = Key(name) /\ v = id)
  BY <1>3, InsertEffect
<1>5. crashes = 0 => r.ok
  <2>1. SUFFICES ASSUME crashes = 0 PROVE r.ok
    OBVIOUS
  <2>2. id \in Sound
    BY <2>1 DEF IInv, IdsOK, Sound, Ids
  <2> QED BY <2>1, <2>2, InsertSucceeds
<1> HIDE DEF r
<1>6. LeavesOK' /\ DOMAIN files' = DOMAIN files
  <2>1. \A k, v : LeafHolds(r.leaf, k, v) =>
          \/ LeafHolds(files[f], k, v)
          \/ k \in {Key(n) : n \in Names} /\ v \in DOMAIN users
    BY <1>3, <1>4
  <2>2. LeavesOK
    BY DEF IInv
  <2> QED BY <1>2, <1>3, <1>4, <2>1, <2>2, LeafChanged
<1>7. /\ unsettled' \subseteq 1 .. saved_id - 1 /\ IsFiniteSet(unsettled')
      /\ saved_id \in Nat \ {0}
  <2>1. unsettled' \subseteq 1 .. saved_id - 1
    BY <1>2, <1>3 DEF IInv, IdsOK
  <2>2. saved_id \in Nat \ {0}
    BY DEF IInv, IdsOK
  <2> QED BY <2>1, <2>2, IdsFinite
<1>8. IdsOK'
  BY <1>2, <1>4, <1>5, <1>7 DEF IInv, IdsOK, TheFields
<1>9. UsersFit' /\ NamesFree'
  BY <1>2, <1>7, UsersFitKept, NamesFreeKept DEF IInv
<1>10. Sound' = IF r.ok THEN Sound ELSE Sound \ {id}
  BY <1>2 DEF Sound
<1>11. ASSUME NEW g \in TheFields, NEW b
       PROVE  EntriesOf(g, b)' =
                IF r.ok /\ g = f /\ b = id
                THEN EntriesOf(g, b) \cup {Key(name)} ELSE EntriesOf(g, b)
  <2>1. files'[g] = IF g = f THEN r.leaf ELSE files[g]
    BY <1>2, <1>3
  <2>2. ASSUME NEW k
        PROVE  /\ k \in EntriesOf(g, b)' <=> LeafHolds(files'[g], k, b)
               /\ k \in EntriesOf(g, b) <=> LeafHolds(files[g], k, b)
    BY DEF EntriesOf, LeafHolds
  <2>3. ASSUME NEW k
        PROVE  LeafHolds(files'[g], k, b) <=>
                 \/ LeafHolds(files[g], k, b)
                 \/ r.ok /\ g = f /\ b = id /\ k = Key(name)
    BY <1>4, <2>1
  <2>4. ASSUME NEW k
        PROVE  k \in EntriesOf(g, b)' <=>
                 \/ k \in EntriesOf(g, b)
                 \/ r.ok /\ g = f /\ b = id /\ k = Key(name)
    BY <2>2, <2>3
  <2> HIDE DEF EntriesOf
  <2>5. CASE r.ok /\ g = f /\ b = id
    <3>1. \A k : k \in EntriesOf(g, b)' <=> k \in EntriesOf(g, b) \cup {Key(name)}
      BY <2>4, <2>5
    <3> QED BY <3>1, <2>5 DEF EntriesOf
  <2>6. CASE ~(r.ok /\ g = f /\ b = id)
    <3>1. \A k : k \in EntriesOf(g, b)' <=> k \in EntriesOf(g, b)
      BY <2>4, <2>6
    <3> QED BY <3>1, <2>6 DEF EntriesOf
  <2> QED BY <2>5, <2>6
<1>12. About(id)'
  <2>1. ASSUME NEW b \in Sound' \ {id}, NEW g \in TheFields
        PROVE  EntriesOf(g, b)' = {Key(users[b][g])}
    <3>1. b \in Sound \ {id} /\ EntriesOf(g, b)' = EntriesOf(g, b)
      BY <1>10, <1>11
    <3> QED BY <3>1 DEF About, OthersNormal, Normal
  <2>2. OthersNormal(id)'
    BY <1>2, <2>1 DEF OthersNormal, Normal, TheFields
  <2> QED BY <1>2, <1>3, <1>6, <2>2 DEF About, TheFields
<1>13. CASE r.ok
  BY <1>2, <1>6, <1>8, <1>9, <1>10, <1>11, <1>12, <1>13
<1>14. CASE ~r.ok
  BY <1>2, <1>6, <1>8, <1>9, <1>10, <1>12, <1>14
<1> QED BY <1>13, <1>14

(* How BTreeDeleteValue leaves it.                                         *)
LEMMA RemoveStep ==
  ASSUME IInv, NEW id \in Ids, About(id), NEW f \in TheFields, NEW name,
         RemoveEntry,
         Call = [call |-> "remove", field |-> f, name |-> name, id |-> id]
  PROVE  /\ LeavesOK' /\ IdsOK' /\ UsersFit' /\ NamesFree' /\ About(id)'
         /\ users' = users /\ todo' = Tail(todo) /\ Sound' = Sound
         /\ \A g \in TheFields :
              EntriesOf(g, id)' = IF g = f THEN EntriesOf(g, id) \ {Key(name)}
                                           ELSE EntriesOf(g, id)
<1> DEFINE leaf == LeafDeleteValue(files[f], Key(name), id)
<1>1. Call.field = f /\ Call.name = name /\ Call.id = id
  OBVIOUS
<1>2. /\ files' = [files EXCEPT ![f] = leaf] /\ todo' = Tail(todo)
      /\ UNCHANGED <<dat, indexes, users, next_id, saved_id, running, unsettled,
                     refused, crashes>>
  BY <1>1 DEF RemoveEntry, Done
<1>3. /\ f \in DOMAIN files /\ LeafOK(files[f]) /\ DOMAIN files = TheFields
  BY DEF IInv, LeavesOK, About
<1>4. /\ LeafOK(leaf)
      /\ \A k, v : LeafHolds(leaf, k, v) <=>
                     LeafHolds(files[f], k, v) /\ ~(k = Key(name) /\ v = id)
  BY <1>3, DeleteEffect
<1> HIDE DEF leaf
<1>5. LeavesOK' /\ DOMAIN files' = DOMAIN files
  <2>1. LeavesOK
    BY DEF IInv
  <2> QED BY <1>2, <1>3, <1>4, <2>1, LeafChanged
<1>6. IdsOK' /\ Sound' = Sound
  BY <1>2 DEF IInv, IdsOK, TheFields, Sound
<1>7. IsFiniteSet(unsettled')
  BY <1>2, IdsFinite DEF IInv, IdsOK
<1>8. UsersFit' /\ NamesFree'
  BY <1>2, <1>7, UsersFitKept, NamesFreeKept DEF IInv
<1>9. ASSUME NEW g \in TheFields, NEW b
      PROVE  EntriesOf(g, b)' = IF g = f /\ b = id
                                THEN EntriesOf(g, b) \ {Key(name)}
                                ELSE EntriesOf(g, b)
  <2>1. files'[g] = IF g = f THEN leaf ELSE files[g]
    BY <1>2, <1>3
  <2>2. ASSUME NEW k
        PROVE  /\ k \in EntriesOf(g, b)' <=> LeafHolds(files'[g], k, b)
               /\ k \in EntriesOf(g, b) <=> LeafHolds(files[g], k, b)
    BY DEF EntriesOf, LeafHolds
  <2>3. ASSUME NEW k
        PROVE  LeafHolds(files'[g], k, b) <=>
                 /\ LeafHolds(files[g], k, b)
                 /\ ~(g = f /\ b = id /\ k = Key(name))
    BY <1>4, <2>1
  <2>4. ASSUME NEW k
        PROVE  k \in EntriesOf(g, b)' <=>
                 k \in EntriesOf(g, b) /\ ~(g = f /\ b = id /\ k = Key(name))
    BY <2>2, <2>3
  <2>5. CASE g = f /\ b = id
    <3>1. \A k : k \in EntriesOf(g, b)' <=> k \in EntriesOf(g, b) \ {Key(name)}
      BY <2>4, <2>5
    <3> QED BY <3>1, <2>5 DEF EntriesOf
  <2>6. CASE ~(g = f /\ b = id)
    <3>1. \A k : k \in EntriesOf(g, b)' <=> k \in EntriesOf(g, b)
      BY <2>4, <2>6
    <3> QED BY <3>1, <2>6 DEF EntriesOf
  <2> QED BY <2>5, <2>6
<1>10. About(id)'
  <2>1. ASSUME NEW b \in Sound' \ {id}, NEW g \in TheFields
        PROVE  EntriesOf(g, b)' = {Key(users[b][g])}
    <3>1. b \in Sound \ {id} /\ EntriesOf(g, b)' = EntriesOf(g, b)
      BY <1>6, <1>9
    <3> QED BY <3>1 DEF About, OthersNormal, Normal
  <2>2. OthersNormal(id)'
    BY <1>2, <2>1 DEF OthersNormal, Normal, TheFields
  <2> QED BY <1>2, <1>3, <1>5, <2>2 DEF About, TheFields
<1> QED BY <1>2, <1>5, <1>6, <1>8, <1>9, <1>10

-----------------------------------------------------------------------------
(* What is in the indexes of a user, field by field.                       *)
LEMMA EnteredNone ==
  \A id : Entered(id, None) <=>
    (id \in Sound => \A g \in TheFields : EntriesOf(g, id) = {})
BY DEF Entered, None

(* Both entries are there.                                                 *)
LEMMA EnteredOwn ==
  \A id : Entered(id, Own(id)) <=> (id \in Sound => Normal(id))
BY DEF Entered, Own, Normal

(* One entry differs from what the record says.                            *)
LEMMA EnteredBut ==
  \A id : \A f \in TheFields : \A S :
    Entered(id, But(id, f, S)) <=>
      (id \in Sound => \A g \in TheFields :
         EntriesOf(g, id) = IF g = f THEN S ELSE {Key(users[id][g])})
BY DEF Entered, Own, But

(* The calls of the first start are about no user.                         *)
LEMMA StartingCalls ==
  ASSUME Starting
  PROVE  todo # <<>> /\ Call.call \in {"create", "register"} /\ InProgress = {}
<1> DEFINE a == CallCreate(Username)
           b == CallRegister(Username)
           c == CallCreate(Email)
           d == CallRegister(Email)
<1>1. /\ a.call = "create" /\ b.call = "register"
      /\ c.call = "create" /\ d.call = "register"
  BY CallKinds
<1> HIDE DEF a, b, c, d
<1>2. /\ todo # <<>> /\ Head(todo) \in {a, b, c, d}
      /\ ToSet(todo) \subseteq {a, b, c, d}
  <2>1. \/ todo = <<a, b, c, d>> \/ todo = <<b, c, d>>
        \/ todo = <<c, d>> \/ todo = <<d>>
    BY DEF Starting, a, b, c, d
  <2>2. CASE todo = <<a, b, c, d>>
    <3>1. todo # <<>> /\ Head(todo) = a
      BY <2>2, FourCalls
    <3>2. ToSet(todo) = {a, b, c, d}
      BY <2>2 DEF ToSet
    <3> QED BY <3>1, <3>2
  <2>3. CASE todo = <<b, c, d>>
    <3>1. todo # <<>> /\ Head(todo) = b
      BY <2>3, ThreeCalls
    <3>2. ToSet(todo) = {b, c, d}
      BY <2>3, ThreeCalls
    <3> QED BY <3>1, <3>2
  <2>4. CASE todo = <<c, d>>
    <3>1. todo # <<>> /\ Head(todo) = c
      BY <2>4, TwoCalls
    <3>2. ToSet(todo) = {c, d}
      BY <2>4, TwoCalls
    <3> QED BY <3>1, <3>2
  <2>5. CASE todo = <<d>>
    BY <2>5, OneCall
  <2> QED BY <2>1, <2>2, <2>3, <2>4, <2>5
<1>3. Call.call \in {"create", "register"}
  BY <1>1, <1>2 DEF Call
<1>4. \A e \in ToSet(todo) : e.call \in {"create", "register"}
  BY <1>1, <1>2
<1> QED BY <1>2, <1>3, <1>4 DEF InProgress

(* Any other call is about a user.                                         *)
LEMMA WorkingNow ==
  ASSUME IInv, todo # <<>>, Call.call \notin {"create", "register"}
  PROVE  \E id \in Ids : Working(id)
BY StartingCalls DEF IInv, Control, AtRest

(* The user the program works on is the one its calls are about.           *)
LEMMA WorkingOn ==
  ASSUME NEW id, Working(id)
  PROVE  todo # <<>> /\ InProgress = {id}
<1>1. Creating(id) => todo # <<>> /\ InProgress = {id}
  BY CreatingCalls DEF Creating
<1>2. Deleting(id) => todo # <<>> /\ InProgress = {id}
  BY DeletingCalls DEF Deleting
<1>3. \A f, name : Renaming(id, f, name) => todo # <<>> /\ InProgress = {id}
  BY RenamingCalls DEF Renaming
<1> QED BY <1>1, <1>2, <1>3 DEF Working

(* There is one such user at a time.                                       *)
LEMMA OneInProgress ==
  ASSUME IInv, NEW b \in InProgress, NEW c \in InProgress
  PROVE  b = c
<1>1. AtRest => InProgress = {}
  BY DEF AtRest, InProgress, ToSet
<1>2. Starting => InProgress = {}
  BY StartingCalls
<1> QED BY <1>1, <1>2, WorkingOn DEF IInv, Control

(* At the menu everything is at rest.                                      *)
LEMMA AtMenuRest ==
  ASSUME IInv, todo = <<>>
  PROVE  AtRest
BY StartingCalls, WorkingOn DEF IInv, Control

(* An operation's last call leaves the program at its menu.                *)
LEMMA RestAgain ==
  ASSUME NEW id, About(id)', todo' = <<>>, (id \in Sound => Normal(id))'
  PROVE  AtRest'
BY DEF AtRest, About, OthersNormal

(* BTreeInsert is a call of a create or the second one of a rename.        *)
LEMMA InsertEntryKeeps ==
  ASSUME IInv, InsertEntry
  PROVE  IInv'
<1>1. todo # <<>> /\ Call.call = "insert"
  BY DEF InsertEntry, Running
<1>2. PICK id \in Ids : Working(id)
  BY <1>1, WorkingNow
<1>3. About(id) /\ id \in Ids
  BY <1>2 DEF Working
<1>4. /\ users[id] \in [TheFields -> Names]
      /\ users[id].Username = users[id][Username]
      /\ users[id].Email = users[id][Email]
      /\ Username \in TheFields /\ Email \in TheFields /\ Username # Email
  BY <1>3, FieldsSet, UserFields DEF IInv, IdsOK, Ids
<1>5. CASE ToEnterBoth(id)
  <2>1. PICK name \in Names : name = users[id][Username]
    BY <1>4
  <2>2. /\ Call = CallInsert(Username, name, id)
        /\ Tail(todo) = <<CallInsert(Email, users[id].Email, id)>>
    BY <1>4, <1>5, <2>1, CreatingCalls
  <2>3. id \in Sound => /\ \A g \in TheFields : EntriesOf(g, id) = {}
                        /\ Free(Username, name, id)
    BY <1>4, <1>5, <2>1, EnteredNone DEF ToEnterBoth, IInv, NamesFree
  <2>4. /\ LeavesOK' /\ IdsOK' /\ UsersFit' /\ NamesFree' /\ About(id)'
        /\ users' = users
        /\ \/ /\ todo' = Tail(todo) /\ Sound' = Sound
              /\ \A g \in TheFields :
                   EntriesOf(g, id)' = IF g = Username
                                       THEN EntriesOf(g, id) \cup {Key(name)}
                                       ELSE EntriesOf(g, id)
           \/ todo' = <<>> /\ Sound' = Sound \ {id}
    <3>1. Call = [call |-> "insert", field |-> Username, name |-> name,
                  id |-> id, vital |-> TRUE]
      BY <2>2 DEF CallInsert
    <3> QED BY <1>3, <1>4, <2>3, <3>1, InsertStep
  <2>5. CASE todo' = <<>> /\ Sound' = Sound \ {id}
    <3>1. AtRest'
      BY <2>4, <2>5, RestAgain
    <3> QED BY <2>4, <3>1 DEF IInv, Control
  <2>6. CASE /\ todo' = Tail(todo) /\ Sound' = Sound
             /\ \A g \in TheFields :
                  EntriesOf(g, id)' = IF g = Username
                                      THEN EntriesOf(g, id) \cup {Key(name)}
                                      ELSE EntriesOf(g, id)
    <3>1. todo' = <<CallInsert(Email, users'[id].Email, id)>>
      BY <2>2, <2>4, <2>6
    <3>2. id \in Sound' => \A g \in TheFields :
            EntriesOf(g, id)' = IF g = Email THEN {} ELSE {Key(users'[id][g])}
      BY <1>4, <2>1, <2>3, <2>4, <2>6, FieldsSet
    <3>3. EnteredBut!:'
      BY EnteredBut, PTL
    <3>4. ToEnterEmail(id)'
      BY <1>4, <3>1, <3>2, <3>3 DEF ToEnterEmail
    <3> QED BY <1>3, <2>4, <3>4 DEF IInv, Control, Working, Creating, Ids
  <2> QED BY <2>4, <2>5, <2>6
<1>6. CASE ToEnterEmail(id)
  <2>1. PICK name \in Names : name = users[id][Email]
    BY <1>4
  <2>2. Call = CallInsert(Email, name, id) /\ Tail(todo) = <<>>
    BY <1>4, <1>6, <2>1, CreatingCalls
  <2>3. id \in Sound => /\ \A g \in TheFields :
                             EntriesOf(g, id) = IF g = Email THEN {}
                                                ELSE {Key(users[id][g])}
                        /\ Free(Email, name, id)
    <3>1. id \in Sound => Free(Email, name, id)
      BY <1>4, <2>1 DEF IInv, NamesFree
    <3> QED BY <1>4, <1>6, <3>1, EnteredBut DEF ToEnterEmail
  <2>4. /\ LeavesOK' /\ IdsOK' /\ UsersFit' /\ NamesFree' /\ About(id)'
        /\ users' = users
        /\ \/ /\ todo' = Tail(todo) /\ Sound' = Sound
              /\ \A g \in TheFields :
                   EntriesOf(g, id)' = IF g = Email
                                       THEN EntriesOf(g, id) \cup {Key(name)}
                                       ELSE EntriesOf(g, id)
           \/ todo' = <<>> /\ Sound' = Sound \ {id}
    <3>1. Call = [call |-> "insert", field |-> Email, name |-> name,
                  id |-> id, vital |-> TRUE]
      BY <2>2 DEF CallInsert
    <3>2. id \in Sound => EntriesOf(Email, id) = {}
      BY <1>4, <2>3
    <3> QED BY <1>3, <1>4, <2>3, <3>1, <3>2, InsertStep
  <2>5. CASE todo' = <<>> /\ Sound' = Sound \ {id}
    <3>1. AtRest'
      BY <2>4, <2>5, RestAgain
    <3> QED BY <2>4, <3>1 DEF IInv, Control
  <2>6. CASE /\ todo' = Tail(todo) /\ Sound' = Sound
             /\ \A g \in TheFields :
                  EntriesOf(g, id)' = IF g = Email
                                      THEN EntriesOf(g, id) \cup {Key(name)}
                                      ELSE EntriesOf(g, id)
    <3>1. id \in Sound' => \A g \in TheFields :
            EntriesOf(g, id)' = {Key(users'[id][g])}
      BY <2>1, <2>3, <2>4, <2>6
    <3>2. (id \in Sound => Normal(id))'
      BY <3>1 DEF Normal, TheFields
    <3>3. AtRest'
      BY <2>2, <2>4, <2>6, <3>2, RestAgain
    <3> QED BY <2>4, <3>3 DEF IInv, Control
  <2> QED BY <2>4, <2>5, <2>6
<1>7. ASSUME NEW f \in TheFields, NEW name \in Names,
             id \in Sound => Free(f, name, id), ToReinsert(id, f, name)
      PROVE  IInv'
  <2>1. Call = CallReinsert(f, name, id) /\ Tail(todo) = <<Renamed(id, f, name)>>
    BY <1>7, RenamingCalls
  <2>2. id \in Sound => \A g \in TheFields :
          EntriesOf(g, id) = IF g = f THEN {} ELSE {Key(users[id][g])}
    BY <1>7, EnteredBut DEF ToReinsert
  <2>3. /\ LeavesOK' /\ IdsOK' /\ UsersFit' /\ NamesFree' /\ About(id)'
        /\ users' = users /\ todo' = Tail(todo)
        /\ \/ /\ Sound' = Sound
              /\ \A g \in TheFields :
                   EntriesOf(g, id)' = IF g = f
                                       THEN EntriesOf(g, id) \cup {Key(name)}
                                       ELSE EntriesOf(g, id)
           \/ Sound' = Sound \ {id}
    <3>1. Call = [call |-> "insert", field |-> f, name |-> name,
                  id |-> id, vital |-> FALSE]
      BY <2>1 DEF CallReinsert
    <3>2. id \in Sound => EntriesOf(f, id) = {}
      BY <2>2
    <3> QED BY <1>3, <1>7, <3>1, <3>2, InsertStep
  <2>4. todo' = <<Renamed(id, f, name)>>'
    BY <2>1, <2>3 DEF Renamed
  <2>5. id \in Sound' => \A g \in TheFields :
          EntriesOf(g, id)' = IF g = f THEN {Key(name)} ELSE {Key(users'[id][g])}
    BY <2>2, <2>3
  <2>6. EnteredBut!:'
    BY EnteredBut, PTL
  <2>7. ToUpdate(id, f, name)'
    BY <2>4, <2>5, <2>6 DEF ToUpdate
  <2>8. id \in Sound' => Free(f, name, id)'
    <3>1. /\ UNCHANGED <<indexes, users, crashes>> /\ unsettled \subseteq unsettled'
          /\ Sound' \subseteq Sound
      BY <2>3 DEF InsertEntry
    <3>2. IsFiniteSet(unsettled')
      BY <2>3, IdsFinite DEF IdsOK
    <3> QED BY <1>7, <3>1, <3>2, FreeKept
  <2>9. Renaming(id, f, name)'
    BY <2>7, <2>8 DEF Renaming
  <2>10. Working(id)'
    BY <2>3, <2>9 DEF Working, TheFields
  <2> QED BY <1>3, <2>3, <2>10 DEF IInv, Control, Ids
<1>8. ASSUME Deleting(id) \/ \E f \in TheFields, name \in Names :
                               ToMove(id, f, name) \/ ToUpdate(id, f, name)
      PROVE  FALSE
  <2>1. ASSUME Deleting(id) PROVE Call.call # "insert"
    BY <2>1, DeletingCalls DEF Deleting, CallRemove, CallDelete
  <2>2. ASSUME NEW f, NEW name, ToMove(id, f, name) \/ ToUpdate(id, f, name)
        PROVE  Call.call # "insert"
    BY <2>2, RenamingCalls DEF CallRemove, Renamed, CallUpdate
  <2> QED BY <1>1, <1>8, <2>1, <2>2
<1> QED BY <1>2, <1>5, <1>6, <1>7, <1>8 DEF Working, Creating, Renaming

(* BTreeDeleteValue is the first call of a delete or of a rename.          *)
LEMMA RemoveEntryKeeps ==
  ASSUME IInv, RemoveEntry
  PROVE  IInv'
<1>1. todo # <<>> /\ Call.call = "remove"
  BY DEF RemoveEntry, Running
<1>2. PICK id \in Ids : Working(id)
  BY <1>1, WorkingNow
<1>3. About(id) /\ id \in Ids
  BY <1>2 DEF Working
<1>4. /\ users[id] \in [TheFields -> Names]
      /\ users[id].Username = users[id][Username]
      /\ users[id].Email = users[id][Email]
      /\ Username \in TheFields /\ Email \in TheFields /\ Username # Email
  BY <1>3, FieldsSet, UserFields DEF IInv, IdsOK, Ids
<1>5. CASE ToRemoveBoth(id)
  <2>1. PICK name : name = users[id][Username]
    OBVIOUS
  <2>2. /\ Call = CallRemove(Username, name, id)
        /\ Tail(todo) = <<CallRemove(Email, users[id].Email, id), CallDelete(id)>>
    BY <1>4, <1>5, <2>1, DeletingCalls
  <2>3. id \in Sound => Normal(id)
    BY <1>5, EnteredOwn DEF ToRemoveBoth
  <2>4. /\ LeavesOK' /\ IdsOK' /\ UsersFit' /\ NamesFree' /\ About(id)'
        /\ users' = users /\ todo' = Tail(todo) /\ Sound' = Sound
        /\ \A g \in TheFields :
             EntriesOf(g, id)' = IF g = Username
                                 THEN EntriesOf(g, id) \ {Key(name)}
                                 ELSE EntriesOf(g, id)
    <3>1. Call = [call |-> "remove", field |-> Username, name |-> name,
                  id |-> id]
      BY <2>2 DEF CallRemove
    <3> QED BY <1>3, <1>4, <3>1, RemoveStep
  <2>5. todo' = <<CallRemove(Email, users'[id].Email, id), CallDelete(id)>>
    BY <2>2, <2>4
  <2>6. id \in Sound' => \A g \in TheFields :
          EntriesOf(g, id)' = IF g = Username THEN {} ELSE {Key(users'[id][g])}
    BY <2>1, <2>3, <2>4 DEF Normal
  <2>7. EnteredBut!:'
    BY EnteredBut, PTL
  <2>8. ToRemoveEmail(id)'
    BY <1>4, <2>5, <2>6, <2>7 DEF ToRemoveEmail
  <2> QED BY <1>3, <2>4, <2>8 DEF IInv, Control, Working, Deleting, Ids
<1>6. CASE ToRemoveEmail(id)
  <2>1. PICK name : name = users[id][Email]
    OBVIOUS
  <2>2. Call = CallRemove(Email, name, id) /\ Tail(todo) = <<CallDelete(id)>>
    BY <1>4, <1>6, <2>1, DeletingCalls
  <2>3. id \in Sound => \A g \in TheFields :
          EntriesOf(g, id) = IF g = Username THEN {} ELSE {Key(users[id][g])}
    BY <1>4, <1>6, EnteredBut DEF ToRemoveEmail
  <2>4. /\ LeavesOK' /\ IdsOK' /\ UsersFit' /\ NamesFree' /\ About(id)'
        /\ users' = users /\ todo' = Tail(todo) /\ Sound' = Sound
        /\ \A g \in TheFields :
             EntriesOf(g, id)' = IF g = Email
                                 THEN EntriesOf(g, id) \ {Key(name)}
                                 ELSE EntriesOf(g, id)
    <3>1. Call = [call |-> "remove", field |-> Email, name |-> name, id |-> id]
      BY <2>2 DEF CallRemove
    <3> QED BY <1>3, <1>4, <3>1, RemoveStep
  <2>5. id \in Sound' => \A g \in TheFields : EntriesOf(g, id)' = {}
    BY <2>1, <2>3, <2>4, FieldsSet
  <2>6. EnteredNone!:'
    BY EnteredNone, PTL
  <2>7. ToDelete(id)'
    BY <2>2, <2>4, <2>5, <2>6 DEF ToDelete
  <2> QED BY <1>3, <2>4, <2>7 DEF IInv, Control, Working, Deleting, Ids
<1>7. ASSUME NEW f \in TheFields, NEW name \in Names,
             id \in Sound => Free(f, name, id), ToMove(id, f, name)
      PROVE  IInv'
  <2>1. PICK old : old = users[id][f]
    OBVIOUS
  <2>2. /\ Call = CallRemove(f, old, id)
        /\ Tail(todo) = <<CallReinsert(f, name, id), Renamed(id, f, name)>>
    BY <1>7, <2>1, RenamingCalls
  <2>3. id \in Sound => Normal(id)
    BY <1>7, EnteredOwn DEF ToMove
  <2>4. /\ LeavesOK' /\ IdsOK' /\ UsersFit' /\ NamesFree' /\ About(id)'
        /\ users' = users /\ todo' = Tail(todo) /\ Sound' = Sound
        /\ \A g \in TheFields :
             EntriesOf(g, id)' = IF g = f THEN EntriesOf(g, id) \ {Key(old)}
                                          ELSE EntriesOf(g, id)
    <3>1. Call = [call |-> "remove", field |-> f, name |-> old, id |-> id]
      BY <2>2 DEF CallRemove
    <3> QED BY <1>3, <3>1, RemoveStep
  <2>5. todo' = <<CallReinsert(f, name, id), Renamed(id, f, name)>>'
    BY <2>2, <2>4 DEF Renamed
  <2>6. id \in Sound' => \A g \in TheFields :
          EntriesOf(g, id)' = IF g = f THEN {} ELSE {Key(users'[id][g])}
    BY <2>1, <2>3, <2>4 DEF Normal
  <2>7. EnteredBut!:'
    BY EnteredBut, PTL
  <2>8. ToReinsert(id, f, name)'
    BY <2>5, <2>6, <2>7 DEF ToReinsert
  <2>9. id \in Sound' => Free(f, name, id)'
    <3>1. UNCHANGED <<indexes, users, crashes, unsettled>> /\ Sound' = Sound
      BY <2>4 DEF RemoveEntry
    <3>2. IsFiniteSet(unsettled')
      BY <2>4, IdsFinite DEF IdsOK
    <3> QED BY <1>7, <3>1, <3>2, FreeKept
  <2>10. Renaming(id, f, name)'
    BY <2>8, <2>9 DEF Renaming
  <2>11. Working(id)'
    BY <2>4, <2>10 DEF Working, TheFields
  <2> QED BY <1>3, <2>4, <2>11 DEF IInv, Control, Ids
<1>8. ASSUME \/ Creating(id)
             \/ ToDelete(id)
             \/ \E f \in TheFields, name \in Names :
                  ToReinsert(id, f, name) \/ ToUpdate(id, f, name)
      PROVE  FALSE
  <2>1. ASSUME Creating(id) PROVE Call.call # "remove"
    BY <2>1, CreatingCalls DEF Creating, CallInsert
  <2>2. ASSUME ToDelete(id) PROVE Call.call # "remove"
    BY <2>2, DeletingCalls DEF CallDelete
  <2>3. ASSUME NEW f, NEW name, ToReinsert(id, f, name) \/ ToUpdate(id, f, name)
        PROVE  Call.call # "remove"
    BY <2>3, RenamingCalls DEF CallReinsert, Renamed, CallUpdate
  <2> QED BY <1>1, <1>8, <2>1, <2>2, <2>3
<1> QED BY <1>2, <1>5, <1>6, <1>7, <1>8 DEF Working, Deleting, Renaming

(* DoEditUser's UpdateRecord ends it.                                      *)
LEMMA UpdateRecordKeeps ==
  ASSUME IInv, UpdateRecord
  PROVE  IInv'
<1>1. todo # <<>> /\ Call.call = "update"
  BY DEF UpdateRecord, Running
<1>2. PICK id \in Ids : Working(id)
  BY <1>1, WorkingNow
<1>3. About(id) /\ id \in DOMAIN users
  BY <1>2 DEF Working, Ids
<1>4. PICK f \in TheFields, name \in Names :
        ToUpdate(id, f, name) /\ (id \in Sound => Free(f, name, id))
  <2>1. ASSUME Creating(id) PROVE Call.call # "update"
    BY <2>1, CreatingCalls DEF Creating, CallInsert
  <2>2. ASSUME Deleting(id) PROVE Call.call # "update"
    BY <2>2, DeletingCalls DEF Deleting, CallRemove, CallDelete
  <2>3. ASSUME NEW f, NEW name, ToMove(id, f, name) \/ ToReinsert(id, f, name)
        PROVE  Call.call # "update"
    BY <2>3, RenamingCalls DEF CallReinsert, CallRemove
  <2> QED BY <1>1, <1>2, <2>1, <2>2, <2>3 DEF Working, Renaming
<1> DEFINE user == [users[id] EXCEPT ![f] = name]
<1>5. users[id] \in [TheFields -> Names] /\ user \in [TheFields -> Names]
  BY <1>3 DEF IInv, IdsOK
<1>6. Call = [call |-> "update", id |-> id, user |-> user] /\ Tail(todo) = <<>>
  BY <1>4, RenamingCalls DEF Renamed, CallUpdate
<1>7. Call.id = id /\ Call.user = user
  BY <1>6
<1>8. /\ users' = [users EXCEPT ![id] = user] /\ todo' = <<>>
      /\ UNCHANGED <<dat, indexes, next_id, saved_id, files, running, unsettled,
                     refused, crashes>>
  BY <1>6, <1>7 DEF UpdateRecord, Done
<1>9. /\ DOMAIN users' = DOMAIN users
      /\ \A b \in DOMAIN users : b # id => users'[b] = users[b]
      /\ \A g \in TheFields :
           users'[id][g] = IF g = f THEN name ELSE users[id][g]
  BY <1>3, <1>5, <1>8
<1>10. Sound' = Sound
  BY <1>8, <1>9 DEF Sound
<1>11. LeavesOK'
  BY <1>8, <1>9 DEF IInv, LeavesOK, TheFields
<1>12. IdsOK'
  BY <1>5, <1>8, <1>9 DEF IInv, IdsOK, TheFields
<1>13. UsersFit'
  BY <1>9 DEF IInv, UsersFit
<1>14. NamesFree'
  <2>1. SUFFICES ASSUME NEW b \in Sound', NEW g \in TheFields
                 PROVE  Free(g, users[b][g], b)'
    BY DEF NamesFree, TheFields
  <2>2. b \in Sound /\ b \in DOMAIN users
    BY <1>10 DEF Sound
  <2>3. Free(g, users[b][g], b)
    BY <2>2 DEF IInv, NamesFree
  <2>4. indexes' = indexes /\ unsettled' = unsettled /\ crashes' = crashes
    BY <1>8
  <2>5. ASSUME g \in indexes /\ Cardinality(unsettled) < MAX_CANDIDATES,
               NEW c \in Sound \ {b}
        PROVE  users'[c][g] # users'[b][g]
    <3>1. c \in DOMAIN users
      BY DEF Sound
    <3>2. users[c][g] # users[b][g]
      BY <2>3, <2>5 DEF Free
    <3>3. CASE b = id /\ g = f
      BY <1>4, <1>9, <2>2, <2>5, <3>1, <3>3 DEF Free
    <3>4. CASE c = id /\ g = f
      BY <1>4, <1>9, <2>2, <2>5, <3>1, <3>4 DEF Free
    <3>5. CASE g # f \/ (b # id /\ c # id)
      BY <1>9, <2>2, <3>1, <3>2, <3>5
    <3> QED BY <3>3, <3>4, <3>5
  <2>6. ASSUME crashes = 0, NEW c \in DOMAIN users \ {b}
        PROVE  Key(users'[c][g]) # Key(users'[b][g])
    <3>1. id \in Sound
      BY <1>3, <2>6 DEF IInv, IdsOK, Sound
    <3>2. Key(users[c][g]) # Key(users[b][g])
      BY <2>3, <2>6 DEF Free
    <3>3. CASE b = id /\ g = f
      BY <1>4, <1>9, <2>6, <3>1, <3>3 DEF Free
    <3>4. CASE c = id /\ g = f
      BY <1>4, <1>9, <2>2, <2>6, <3>1, <3>4 DEF Free
    <3>5. CASE g # f \/ (b # id /\ c # id)
      BY <1>9, <2>2, <3>2, <3>5
    <3> QED BY <3>3, <3>4, <3>5
  <2>7. /\ g \in indexes /\ Cardinality(unsettled) < MAX_CANDIDATES =>
             \A c \in Sound' \ {b} : users'[c][g] # users'[b][g]
        /\ crashes = 0 =>
             \A c \in DOMAIN users' \ {b} : Key(users'[c][g]) # Key(users'[b][g])
    BY <1>9, <1>10, <2>5, <2>6
  <2> QED BY <2>4, <2>7 DEF Free, TheFields
<1>15. About(id)'
  <2>1. \A b \in Sound \ {id} : Normal(b)
    BY <1>3 DEF About, OthersNormal
  <2>2. \A b \in Sound' \ {id} : \A g \in TheFields :
          EntriesOf(g, b)' = {Key(users'[b][g])}
    BY <1>8, <1>9, <1>10, <2>1 DEF Normal, EntriesOf, Sound
  <2>3. OthersNormal(id)'
    BY <2>2 DEF OthersNormal, Normal, TheFields
  <2> QED BY <1>3, <1>8, <2>3 DEF About, TheFields
<1>16. (id \in Sound => Normal(id))'
  <2>1. id \in Sound => \A g \in TheFields :
          EntriesOf(g, id) = IF g = f THEN {Key(name)} ELSE {Key(users[id][g])}
    BY <1>4, EnteredBut DEF ToUpdate
  <2>2. id \in Sound' => \A g \in TheFields :
          EntriesOf(g, id)' = {Key(users'[id][g])}
    BY <1>8, <1>9, <1>10, <2>1 DEF EntriesOf
  <2> QED BY <2>2 DEF Normal, TheFields
<1>17. AtRest'
  BY <1>8, <1>15, <1>16, RestAgain
<1> QED BY <1>11, <1>12, <1>13, <1>14, <1>17 DEF IInv, Control

(* DoDeleteUser's DeleteRecord ends it: by then no index has the id, unless *)
(* an earlier operation on the user was cut off.                           *)
LEMMA DeleteRecordKeeps ==
  ASSUME IInv, DeleteRecord
  PROVE  IInv'
<1>1. todo # <<>> /\ Call.call = "delete"
  BY DEF DeleteRecord, Running
<1>2. PICK id \in Ids : Working(id)
  BY <1>1, WorkingNow
<1>3. About(id) /\ id \in DOMAIN users
  BY <1>2 DEF Working, Ids
<1>4. ToDelete(id)
  <2>1. ASSUME Creating(id) PROVE Call.call # "delete"
    BY <2>1, CreatingCalls DEF Creating, CallInsert
  <2>2. ASSUME ToRemoveBoth(id) \/ ToRemoveEmail(id) PROVE Call.call # "delete"
    BY <2>2, DeletingCalls DEF CallRemove
  <2>3. ASSUME NEW f, NEW name, ToMove(id, f, name) \/ ToReinsert(id, f, name)
                                  \/ ToUpdate(id, f, name)
        PROVE  Call.call # "delete"
    BY <2>3, RenamingCalls DEF CallReinsert, CallRemove, Renamed, CallUpdate
  <2> QED BY <1>1, <1>2, <2>1, <2>2, <2>3 DEF Working, Deleting, Renaming
<1>5. Call = [call |-> "delete", id |-> id] /\ Tail(todo) = <<>>
  BY <1>4, DeletingCalls DEF CallDelete
<1>6. /\ users' = WithoutKey(users, id) /\ todo' = <<>> /\ SaveHeader
      /\ UNCHANGED <<dat, indexes, files, running, unsettled, refused, crashes>>
  BY <1>5 DEF DeleteRecord, Done
<1>7. /\ DOMAIN users' = DOMAIN users \ {id}
      /\ \A b \in DOMAIN users' : users'[b] = users[b]
      /\ Sound' = Sound \ {id}
  BY <1>6 DEF WithoutKey, Sound
<1>8. id \in Sound => \A g \in TheFields : EntriesOf(g, id) = {}
  BY <1>4, EnteredNone DEF ToDelete
<1>9. LeavesOK'
  <2>1. ASSUME NEW g \in DOMAIN files, NEW k, NEW b, LeafHolds(files[g], k, b)
        PROVE  b \in DOMAIN users' \cup unsettled
    <3>1. g \in TheFields /\ b \in DOMAIN users \cup unsettled
      BY <2>1 DEF IInv, LeavesOK
    <3>2. CASE b = id
      <4>1. k \in EntriesOf(g, id)
        BY <2>1, <3>2, EntryHeld
      <4>2. id \notin Sound
        BY <1>8, <3>1, <4>1
      <4> QED BY <1>3, <3>2, <4>2 DEF Sound
    <3> QED BY <1>7, <3>1, <3>2
  <2> QED BY <1>6, <2>1 DEF IInv, LeavesOK, TheFields
<1>10. IdsOK'
  <2>1. 1 .. saved_id - 1 \subseteq 1 .. saved_id' - 1
    BY <1>6 DEF IInv, IdsOK, SaveHeader
  <2> QED BY <1>6, <1>7, <2>1 DEF IInv, IdsOK, SaveHeader, TheFields
<1>11. UsersFit'
  <2>1. IsFiniteSet(DOMAIN users) /\ Cardinality(DOMAIN users) \in Nat
    BY IdsFinite DEF IInv, IdsOK
  <2>2. Cardinality(DOMAIN users') = Cardinality(DOMAIN users) - 1
    BY <1>3, <1>7, <2>1, FS_RemoveElement
  <2>3. /\ Cardinality(DOMAIN users) <= BT_MAX_KEYS
        /\ 7 + 14 * Cardinality(DOMAIN users) <= BT_PAGE_SIZE
    BY <1>3 DEF IInv, UsersFit
  <2>4. PICK n \in Int : n = Cardinality(DOMAIN users)
    BY <2>1
  <2>5. n - 1 <= BT_MAX_KEYS /\ 7 + 14 * (n - 1) <= BT_PAGE_SIZE
    BY <2>3, <2>4, LeafLimitsAssumption
  <2> QED BY <2>2, <2>4, <2>5 DEF UsersFit
<1>12. NamesFree'
  <2>1. SUFFICES ASSUME NEW b \in Sound', NEW g \in TheFields
                 PROVE  Free(g, users[b][g], b)'
    BY DEF NamesFree, TheFields
  <2>2. b \in Sound /\ b \in DOMAIN users' /\ users'[b] = users[b]
    BY <1>7 DEF Sound
  <2>3. Free(g, users[b][g], b)
    BY <2>2 DEF IInv, NamesFree
  <2>4. Sound \subseteq DOMAIN users /\ Sound' \subseteq DOMAIN users'
    BY DEF Sound
  <2> QED BY <1>6, <1>7, <2>2, <2>3, <2>4 DEF Free, TheFields
<1>13. About(id)'
  <2>1. \A b \in Sound' \ {id} : \A g \in TheFields :
          EntriesOf(g, b)' = {Key(users'[b][g])}
    BY <1>3, <1>6, <1>7 DEF About, OthersNormal, Normal, EntriesOf, Sound
  <2>2. OthersNormal(id)'
    BY <2>1 DEF OthersNormal, Normal, TheFields
  <2> QED BY <1>3, <1>6, <2>2 DEF About, TheFields
<1>14. AtRest'
  BY <1>6, <1>7, <1>13, RestAgain
<1> QED BY <1>9, <1>10, <1>11, <1>12, <1>14 DEF IInv, Control

-----------------------------------------------------------------------------
(* A search that finds nothing has looked at the first MAX_CANDIDATES ids  *)
(* under the key, and none of them was a record.                           *)
LEMMA NotFound ==
  ASSUME IInv, NEW f \in TheFields, f \in indexes, f \in DOMAIN files,
         NEW name, ~Taken(f, name), Key(name) \in DOMAIN files[f],
         NEW i \in 1 .. Len(files[f][Key(name)]), i <= MAX_CANDIDATES
  PROVE  files[f][Key(name)][i] \notin DOMAIN users
<1> DEFINE s == files[f][Key(name)]
           m == Min({MAX_CANDIDATES, Len(s)})
           candidates == SubSeq(s, 1, m)
           found == {j \in DOMAIN candidates : candidates[j] \in DOMAIN users}
<1>1. s \in Seq(Nat) /\ LeafOK(files[f])
  BY DEF IInv, LeavesOK, LeafOK
<1>2. MAX_CANDIDATES \in Nat /\ Len(s) \in Nat
  BY <1>1, CandidatesAssumption
<1>3. m \in {MAX_CANDIDATES, Len(s)} /\ m <= MAX_CANDIDATES /\ m <= Len(s)
  BY <1>2, LeastNatural
<1> HIDE DEF m, s
<1>4. m \in Nat /\ i \in 1 .. m
  BY <1>2, <1>3 DEF s
<1>5. /\ DOMAIN candidates = 1 .. m
      /\ \A j \in 1 .. m : candidates[j] = s[j]
  BY <1>1, <1>2, <1>3, <1>4
<1>6. FindUser(f, name) = IF found = {} THEN 0 ELSE candidates[Min(found)]
  BY DEF FindUser, LeafFind, s, m
<1> HIDE DEF candidates
<1>7. SUFFICES ASSUME s[i] \in DOMAIN users PROVE FALSE
  BY DEF s
<1>8. i \in found
  BY <1>4, <1>5, <1>7
<1>9. Min(found) \in found
  <2>1. found \subseteq Nat
    BY <1>4, <1>5
  <2> QED BY <1>8, <2>1, LeastNatural
<1>10. FindUser(f, name) \in DOMAIN users
  BY <1>6, <1>8, <1>9
<1>11. 0 \notin DOMAIN users
  BY DEF IInv, IdsOK
<1> QED BY <1>10, <1>11 DEF Taken

(* So at the menu the name is free: a settled user of that name would be   *)
(* under the key, behind as many ids that are not records as the search    *)
(* looks at, and each of these is of a user an operation was cut off on.   *)
LEMMA NotTakenIsFree ==
  ASSUME IInv, AtMenu, NEW f \in TheFields, NEW name, ~Taken(f, name), NEW id
  PROVE  Free(f, name, id)
<1> DEFINE s == files[f][Key(name)]
<1>1. AtRest
  BY AtMenuRest DEF AtMenu
<1>2. f \in DOMAIN files /\ LeafOK(files[f]) /\ dat
  BY <1>1 DEF AtRest, AtMenu, IInv, LeavesOK
<1>3. ASSUME f \in indexes, NEW b \in Sound, Key(users[b][f]) = Key(name)
      PROVE  \E j \in 1 .. Len(s) :
               Key(name) \in DOMAIN files[f] /\ s \in Seq(Nat) /\ Distinct(s)
                 /\ s[j] = b /\ MAX_CANDIDATES < j
  <2>1. EntriesOf(f, b) = {Key(name)}
    BY <1>1, <1>3 DEF AtRest, Normal
  <2>2. Key(name) \in DOMAIN files[f] /\ Contains(s, b)
    BY <2>1 DEF EntriesOf
  <2>3. s \in Seq(Nat) /\ Distinct(s)
    BY <1>2, <2>2 DEF LeafOK
  <2>4. PICK j \in 1 .. Len(s) : s[j] = b
    BY <2>2 DEF Contains
  <2>5. b \in DOMAIN users
    BY DEF Sound
  <2>6. ~(j <= MAX_CANDIDATES)
    BY <1>2, <1>3, <2>2, <2>4, <2>5, NotFound
  <2>7. MAX_CANDIDATES < j
    <3>1. j \in Int /\ MAX_CANDIDATES \in Int
      BY CandidatesAssumption
    <3> QED BY <2>6, <3>1
  <2> QED BY <2>2, <2>3, <2>4, <2>7
<1>4. ASSUME f \in indexes, Cardinality(unsettled) < MAX_CANDIDATES,
             NEW b \in Sound, Key(users[b][f]) = Key(name)
      PROVE  FALSE
  <2>1. PICK j \in 1 .. Len(s) :
               Key(name) \in DOMAIN files[f] /\ s \in Seq(Nat) /\ Distinct(s)
                 /\ s[j] = b /\ MAX_CANDIDATES < j
    BY <1>3, <1>4
  <2>2. MAX_CANDIDATES \in Nat /\ Len(s) \in Nat /\ j <= Len(s) /\ j \in Nat
    BY <2>1, CandidatesAssumption
  <2> HIDE DEF s
  <2>3. ASSUME NEW i \in 1 .. MAX_CANDIDATES
        PROVE  i \in 1 .. Len(s) /\ s[i] \in unsettled
    <3>1. i \in 1 .. Len(s) /\ i <= MAX_CANDIDATES
      BY <2>1, <2>2
    <3>2. s[i] \notin DOMAIN users
      BY <1>2, <1>4, <2>1, <3>1, NotFound DEF s
    <3>3. LeafHolds(files[f], Key(name), s[i])
      BY <2>1, <3>1 DEF LeafHolds, Contains, s
    <3>4. s[i] \in DOMAIN users \cup unsettled
      BY <1>2, <3>3 DEF IInv, LeavesOK
    <3> QED BY <3>1, <3>2, <3>4
  <2> DEFINE g == [i \in 1 .. MAX_CANDIDATES |-> s[i]]
  <2>4. g \in Injection(1 .. MAX_CANDIDATES, unsettled)
    <3>1. g \in [1 .. MAX_CANDIDATES -> unsettled]
      BY <2>3
    <3>2. \A i, k \in 1 .. MAX_CANDIDATES : g[i] = g[k] => i = k
      BY <2>1, <2>3 DEF Distinct
    <3> QED BY <3>1, <3>2 DEF Injection, IsInjective
  <2> HIDE DEF g
  <2>5. IsFiniteSet(unsettled) /\ Cardinality(unsettled) \in Nat
    BY IdsFinite DEF IInv, IdsOK
  <2>6. Cardinality(1 .. MAX_CANDIDATES) <= Cardinality(unsettled)
    BY <2>4, <2>5, FS_Injection
  <2>7. Cardinality(1 .. MAX_CANDIDATES) = MAX_CANDIDATES
    BY <2>2, FS_Interval
  <2> QED BY <1>4, <2>2, <2>5, <2>6, <2>7
<1>5. ASSUME crashes = 0
      PROVE  /\ f \in indexes /\ Cardinality(unsettled) < MAX_CANDIDATES
             /\ Sound = DOMAIN users
  <2>1. unsettled = {} /\ Sound = DOMAIN users
    BY <1>5 DEF IInv, IdsOK, Sound
  <2>2. Cardinality({}) = 0
    BY FS_EmptySet
  <2> QED BY <1>1, <1>2, <1>5, <2>1, <2>2, CandidatesAssumption DEF AtRest
<1> QED BY <1>4, <1>5 DEF Free

(* AddRecord succeeds only if the primary index has room for one more key. *)
LEMMA RoomForUser ==
  ASSUME IdsOK, AddRecordSucceeds
  PROVE  /\ Cardinality(DOMAIN users) + 1 <= BT_MAX_KEYS
         /\ 7 + 14 * (Cardinality(DOMAIN users) + 1) <= BT_PAGE_SIZE
         /\ Cardinality(DOMAIN users \cup {next_id}) = Cardinality(DOMAIN users) + 1
<1> DEFINE D == DOMAIN users
           grown == WithEntry(PrimaryIndex, next_id, Append(<<>>, next_id))
<1>1. /\ next_id \notin D /\ IsFiniteSet(D) /\ Cardinality(D) \in Nat
      /\ DOMAIN PrimaryIndex = D
  <2>1. next_id \notin D
    BY DEF IdsOK
  <2> QED BY <2>1, IdsFinite DEF IdsOK, PrimaryIndex
<1>2. ~Contains(<<>>, next_id)
  BY DEF Contains
<1>3. Cardinality(D) < BT_MAX_KEYS /\ LeafBytes(grown) <= BT_PAGE_SIZE
  <2>1. LeafInsert(PrimaryIndex, next_id, next_id).ok
    BY DEF AddRecordSucceeds
  <2> QED BY <1>1, <1>2, <2>1 DEF LeafInsert, Fits
<1>4. /\ DOMAIN grown = D \cup {next_id}
      /\ \A k \in DOMAIN grown : Len(grown[k]) = 1
  <2>1. Len(Append(<<>>, next_id)) = 1
    OBVIOUS
  <2>2. \A k \in D : Len(PrimaryIndex[k]) = 1
    BY DEF PrimaryIndex
  <2> QED BY <1>1, <2>1, <2>2 DEF WithEntry
<1> HIDE DEF grown, D
<1>5. /\ IsFiniteSet(DOMAIN grown)
      /\ Cardinality(DOMAIN grown) = Cardinality(D) + 1
  BY <1>1, <1>4, FS_AddElement
<1>6. LeafBytes(grown) = 7 + 14 * (Cardinality(D) + 1)
  BY <1>4, <1>5, SingleValuesBytes
<1>7. PICK n \in Int : n = Cardinality(D)
  BY <1>1
<1>8. n + 1 <= BT_MAX_KEYS /\ 7 + 14 * (n + 1) <= BT_PAGE_SIZE
  BY <1>3, <1>6, <1>7, LeafLimitsAssumption
<1> QED BY <1>4, <1>5, <1>7, <1>8 DEF D

(* An operation starts with every user's entries in order.                 *)
LEMMA MenuAbout ==
  ASSUME IInv, AtMenu, NEW id
  PROVE  About(id) /\ \A b \in Sound : Normal(b)
<1>1. AtRest
  BY AtMenuRest DEF AtMenu
<1> QED BY <1>1 DEF AtRest, AtMenu, About, OthersNormal

(* DoCreateUser, up to its first index call: the names are free, the id    *)
(* new.                                                                    *)
LEMMA DoCreateUserKeeps ==
  ASSUME IInv, NEW name \in Names, NEW email \in Names,
         DoCreateUser(name, email)
  PROVE  IInv'
<1> DEFINE user == User(name, email)
<1>1. AtMenu /\ ~Taken(Username, name) /\ ~Taken(Email, email)
  BY DEF DoCreateUser
<1>2. /\ next_id' = next_id + 1
      /\ saved_id' = IF AddRecordSucceeds THEN next_id' ELSE saved_id
      /\ UNCHANGED <<dat, indexes, files, running, unsettled, refused, crashes>>
  BY DEF DoCreateUser, Begin
<1> PICK id : id = next_id
  OBVIOUS
<1>3. /\ id \in Nat /\ id \notin DOMAIN users /\ id \notin unsettled
      /\ next_id' \in Nat \ {0} /\ saved_id' \in Nat \ {0} /\ saved_id' <= next_id'
      /\ 1 .. saved_id - 1 \subseteq 1 .. saved_id' - 1
      /\ AddRecordSucceeds => id \in 1 .. saved_id' - 1
  BY <1>2 DEF IInv, IdsOK
<1>4. AtRest
  BY <1>1, AtMenuRest DEF AtMenu
<1>5. CASE ~AddRecordSucceeds
  <2>1. users' = users /\ todo' = <<>>
    BY <1>5 DEF DoCreateUser, Begin
  <2>2. LeavesOK'
    BY <1>2, <2>1 DEF IInv, LeavesOK, TheFields
  <2>3. IdsOK'
    BY <1>2, <1>3, <2>1 DEF IInv, IdsOK, TheFields
  <2>4. IsFiniteSet(unsettled')
    BY <2>3, IdsFinite DEF IdsOK
  <2>5. UsersFit' /\ NamesFree'
    BY <1>2, <2>1, <2>4, UsersFitKept, NamesFreeKept DEF IInv
  <2>6. AtRest'
    BY <1>2, <1>4, <2>1 DEF AtRest, Ids, Sound, Normal, EntriesOf, TheFields
  <2> QED BY <2>2, <2>3, <2>5, <2>6 DEF IInv, Control
<1>6. CASE AddRecordSucceeds
  <2>1. /\ users' = WithEntry(users, id, user)
        /\ todo' = AddUserToIndexes(user, id)
    BY <1>6 DEF DoCreateUser, Begin
  <2>2. user \in [TheFields -> Names] /\ user[Username] = name /\ user[Email] = email
    BY UserFields, FieldsSet DEF User, Username, Email
  <2> HIDE DEF user
  <2>3. /\ DOMAIN users' = DOMAIN users \cup {id}
        /\ \A b \in DOMAIN users : users'[b] = users[b]
        /\ users'[id] = user
    BY <1>3, <2>1 DEF WithEntry
  <2>4. Sound' = Sound \cup {id}
    BY <1>2, <1>3, <2>3 DEF Sound
  <2>5. LeavesOK'
    BY <1>2, <2>3 DEF IInv, LeavesOK, TheFields
  <2>6. IdsOK'
    <3>1. DOMAIN users' \subseteq 1 .. saved_id' - 1
      BY <1>3, <1>6, <2>3 DEF IInv, IdsOK
    <3>2. \A b \in DOMAIN users' : users'[b] \in [TheFields -> Names]
      BY <2>2, <2>3 DEF IInv, IdsOK
    <3> QED BY <1>2, <1>3, <3>1, <3>2 DEF IInv, IdsOK, TheFields
  <2>7. UsersFit'
    <3>1. IdsOK
      BY DEF IInv
    <3> QED BY <1>6, <2>3, <3>1, RoomForUser DEF UsersFit
  <2>8. \A f \in TheFields : Free(f, user[f], id)
    <3>1. SUFFICES ASSUME NEW f \in TheFields, NEW n, n = user[f]
                   PROVE  Free(f, n, id)
      OBVIOUS
    <3>2. ~Taken(f, n)
      BY <1>1, <2>2, <3>1, FieldsSet
    <3> QED BY <1>1, <3>2, NotTakenIsFree
  <2>9. NamesFree'
    <3>1. SUFFICES ASSUME NEW b \in Sound', NEW g \in TheFields
                   PROVE  Free(g, users[b][g], b)'
      BY DEF NamesFree, TheFields
    <3>2. Sound \subseteq DOMAIN users /\ id \notin Sound
      BY <1>3 DEF Sound
    <3>3. Free(g, user[g], id)
      BY <2>8
    <3>4. CASE b = id
      BY <1>2, <1>3, <2>3, <2>4, <3>2, <3>3, <3>4 DEF Free, TheFields
    <3>5. CASE b # id
      <4>1. b \in Sound /\ b \in DOMAIN users
        BY <2>4, <3>2, <3>5
      <4>2. Free(g, users[b][g], b)
        BY <4>1 DEF IInv, NamesFree
      <4> QED BY <1>2, <1>3, <2>3, <2>4, <3>2, <3>3, <3>5, <4>1, <4>2
              DEF Free, TheFields
    <3> QED BY <3>4, <3>5
  <2>10. About(id)'
    <3>1. \A b \in Sound' \ {id} : \A g \in TheFields :
            EntriesOf(g, b)' = {Key(users'[b][g])}
      BY <1>2, <1>4, <2>3, <2>4 DEF AtRest, Normal, EntriesOf, Sound
    <3>2. OthersNormal(id)'
      BY <3>1 DEF OthersNormal, Normal, TheFields
    <3> QED BY <1>1, <1>2, <1>4, <3>2 DEF About, AtRest, AtMenu, TheFields
  <2>11. ToEnterBoth(id)'
    <3>1. \A g \in TheFields : EntriesOf(g, id) = {}
      <4>1. SUFFICES ASSUME NEW g \in TheFields, NEW k \in EntriesOf(g, id)
                     PROVE  FALSE
        OBVIOUS
      <4>2. g \in DOMAIN files /\ LeafHolds(files[g], k, id)
        BY <1>1, <1>4, EntryHeld DEF AtRest, AtMenu
      <4>3. id \in DOMAIN users \cup unsettled
        BY <4>2 DEF IInv, LeavesOK
      <4> QED BY <1>3, <4>3
    <3>2. \A g \in TheFields : EntriesOf(g, id)' = {}
      BY <1>2, <3>1 DEF EntriesOf
    <3>3. EnteredNone!:'
      BY EnteredNone, PTL
    <3>4. todo' = <<CallInsert(Username, users'[id].Username, id),
                    CallInsert(Email, users'[id].Email, id)>>
      BY <2>1, <2>3 DEF AddUserToIndexes
    <3> QED BY <3>2, <3>3, <3>4 DEF ToEnterBoth
  <2> QED BY <2>3, <2>5, <2>6, <2>7, <2>9, <2>10, <2>11
          DEF IInv, Control, Working, Creating, Ids
<1> QED BY <1>5, <1>6

(* DoEditUser: the new name is the user's own, or free.                    *)
LEMMA DoEditUserKeeps ==
  ASSUME IInv, NEW id \in DOMAIN users, NEW f \in TheFields, NEW name \in Names,
         DoEditUser(id, f, name)
  PROVE  IInv'
<1>1. /\ AtMenu /\ (users[id][f] # name => ~Taken(f, name))
      /\ todo' = Moves(f, id, name) \o <<Renamed(id, f, name)>>
      /\ UNCHANGED <<dat, indexes, users, next_id, saved_id, files, running,
                     unsettled, refused, crashes>>
  BY DEF DoEditUser, Begin, Renamed
<1>2. About(id) /\ \A b \in Sound : Normal(b)
  BY <1>1, MenuAbout
<1>3. /\ LeavesOK' /\ IdsOK' /\ UsersFit' /\ NamesFree' /\ About(id)'
      /\ (id \in Sound => Normal(id))' /\ id \in Ids'
  BY <1>1, <1>2 DEF IInv, LeavesOK, IdsOK, UsersFit, NamesFree, Free, About,
                    OthersNormal, Normal, EntriesOf, Sound, TheFields, Ids
<1>4. id \in Sound => Free(f, name, id)
  <2>1. CASE users[id][f] = name
    BY <2>1 DEF IInv, NamesFree
  <2>2. CASE users[id][f] # name
    BY <1>1, <2>2, NotTakenIsFree
  <2> QED BY <2>1, <2>2
<1>5. (id \in Sound => Free(f, name, id))'
  BY <1>1, <1>4 DEF Free, Sound, TheFields
<1>6. ToMove(id, f, name)' \/ ToUpdate(id, f, name)'
  <2> DEFINE c == Renamed(id, f, name)
             a == CallRemove(f, users[id][f], id)
             b == CallReinsert(f, name, id)
  <2>1. c' = c /\ a' = a
    BY <1>1 DEF Renamed
  <2> HIDE DEF a, b, c
  <2>2. CASE users[id][f] = name
    <3>1. todo' = <<c>>
      BY <1>1, <2>2 DEF Moves, c
    <3>2. id \in Sound' => \A g \in TheFields :
            EntriesOf(g, id)' = IF g = f THEN {Key(name)} ELSE {Key(users'[id][g])}
      BY <1>1, <1>3, <2>2 DEF Normal, TheFields
    <3>3. EnteredBut!:'
      BY EnteredBut, PTL
    <3> QED BY <2>1, <3>1, <3>2, <3>3 DEF ToUpdate, c
  <2>3. CASE users[id][f] # name
    <3>1. todo' = <<a, b, c>>
      <4>1. Moves(f, id, name) = <<a, b>>
        BY <2>3 DEF Moves, a, b
      <4> QED BY <1>1, <4>1, TwoAndOne DEF c
    <3>2. EnteredOwn!:'
      BY EnteredOwn, PTL
    <3> QED BY <1>3, <2>1, <3>1, <3>2 DEF ToMove, a, b, c
  <2> QED BY <2>2, <2>3
<1>7. Renaming(id, f, name)'
  BY <1>5, <1>6 DEF Renaming
<1> QED BY <1>3, <1>7 DEF IInv, Control, Working, TheFields

(* DoDeleteUser, up to its first index call.                               *)
LEMMA DoDeleteUserKeeps ==
  ASSUME IInv, NEW id \in DOMAIN users, DoDeleteUser(id)
  PROVE  IInv'
<1>1. /\ AtMenu
      /\ todo' = RemoveUserFromIndexes(users[id], id) \o <<CallDelete(id)>>
      /\ UNCHANGED <<dat, indexes, users, next_id, saved_id, files, running,
                     unsettled, refused, crashes>>
  BY DEF DoDeleteUser, Begin
<1>2. About(id) /\ \A b \in Sound : Normal(b)
  BY <1>1, MenuAbout
<1>3. /\ LeavesOK' /\ IdsOK' /\ UsersFit' /\ NamesFree' /\ About(id)'
      /\ (id \in Sound => Normal(id))' /\ id \in Ids'
  BY <1>1, <1>2 DEF IInv, LeavesOK, IdsOK, UsersFit, NamesFree, Free, About,
                    OthersNormal, Normal, EntriesOf, Sound, TheFields, Ids
<1>4. todo' = <<CallRemove(Username, users'[id].Username, id),
                CallRemove(Email, users'[id].Email, id), CallDelete(id)>>
  <2>1. RemoveUserFromIndexes(users[id], id) =
          <<CallRemove(Username, users[id].Username, id),
            CallRemove(Email, users[id].Email, id)>>
    BY DEF RemoveUserFromIndexes
  <2> QED BY <1>1, <2>1, TwoAndOne
<1>5. EnteredOwn!:'
  BY EnteredOwn, PTL
<1>6. ToRemoveBoth(id)'
  BY <1>3, <1>4, <1>5 DEF ToRemoveBoth
<1> QED BY <1>3, <1>6 DEF IInv, Control, Working, Deleting

-----------------------------------------------------------------------------
(* The calls of InitDatabase and CleanupDatabase touch no data.            *)
LEMMA DataKept ==
  ASSUME IInv, dat' \in BOOLEAN, running' \in BOOLEAN,
         UNCHANGED next_id, saved_id' = saved_id \/ saved_id' = next_id,
         UNCHANGED <<indexes, users, files, unsettled, refused, crashes>>
  PROVE  LeavesOK' /\ IdsOK' /\ UsersFit' /\ NamesFree'
<1>1. LeavesOK'
  BY DEF IInv, LeavesOK, TheFields
<1>2. IdsOK'
  <2>1. /\ saved_id' \in Nat \ {0} /\ saved_id' <= next_id'
        /\ 1 .. saved_id - 1 \subseteq 1 .. saved_id' - 1
    BY DEF IInv, IdsOK
  <2> QED BY <2>1 DEF IInv, IdsOK, TheFields
<1>3. IsFiniteSet(unsettled')
  BY <1>2, IdsFinite DEF IdsOK
<1>4. UsersFit' /\ NamesFree'
  BY <1>3, UsersFitKept, NamesFreeKept DEF IInv
<1> QED BY <1>1, <1>2, <1>4

(* A step that changes nothing.                                            *)
LEMMA StutterKeeps ==
  ASSUME IInv, UNCHANGED vars
  PROVE  IInv'
<1>1. UNCHANGED <<dat, indexes, users, next_id, saved_id, files, running, todo,
                  unsettled, refused, crashes>>
  BY DEF vars
<1>2. LeavesOK' /\ IdsOK' /\ UsersFit' /\ NamesFree'
  BY <1>1, DataKept DEF IInv, IdsOK
<1>3. Ids' = Ids /\ Sound' = Sound
  BY <1>1 DEF Ids, Sound
<1>4. CASE AtRest
  <2>1. AtRest'
    BY <1>1, <1>3, <1>4 DEF AtRest, Normal, EntriesOf, TheFields, Ids
  <2> QED BY <1>2, <2>1 DEF IInv, Control
<1>5. CASE Starting
  <2>1. Starting'
    BY <1>1, <1>3, <1>5 DEF Starting, TheFields, Ids
  <2> QED BY <1>2, <2>1 DEF IInv, Control
<1>6. ASSUME NEW id \in Ids, Working(id)
      PROVE  IInv'
  <2>1. About(id)'
    <3>1. OthersNormal(id)'
      BY <1>1, <1>3, <1>6
      DEF Working, About, OthersNormal, Normal, EntriesOf, TheFields
    <3> QED BY <1>1, <1>6, <3>1 DEF Working, About, TheFields
  <2>2. \A f \in TheFields : EntriesOf(f, id)' = EntriesOf(f, id)
    BY <1>1 DEF EntriesOf
  <2>3. (EnteredNone!:)' /\ (EnteredOwn!:)' /\ (EnteredBut!:)'
    BY EnteredNone, EnteredOwn, EnteredBut, PTL
  <2>4. Entered(id, None) => Entered(id, None)'
    BY <1>3, <2>2, <2>3, EnteredNone DEF TheFields
  <2>5. Entered(id, Own(id)) => Entered(id, Own(id))'
    <3>1. Normal(id) => Normal(id)'
      BY <1>1, <2>2 DEF Normal, TheFields
    <3> QED BY <1>3, <2>3, <3>1, EnteredOwn
  <2>6. ASSUME NEW f \in TheFields, NEW S,
               Entered(id, But(id, f, S))
        PROVE  id \in Sound' => \A g \in TheFields :
                 EntriesOf(g, id)' = IF g = f THEN S ELSE {Key(users'[id][g])}
    BY <1>1, <1>3, <2>2, <2>6, EnteredBut
  <2>7. Username \in TheFields /\ Email \in TheFields
    BY FieldsSet
  <2>8. Creating(id) => Creating(id)'
    <3>1. ToEnterBoth(id) => ToEnterBoth(id)'
      BY <1>1, <2>4 DEF ToEnterBoth
    <3>2. ASSUME ToEnterEmail(id)
          PROVE  ToEnterEmail(id)'
      <4>1. id \in Sound' => \A g \in TheFields :
              EntriesOf(g, id)' = IF g = Email THEN {} ELSE {Key(users'[id][g])}
        BY <2>6, <2>7, <3>2 DEF ToEnterEmail
      <4> QED BY <1>1, <2>3, <2>7, <3>2, <4>1 DEF ToEnterEmail
    <3> QED BY <3>1, <3>2 DEF Creating
  <2>9. Deleting(id) => Deleting(id)'
    <3>1. ToRemoveBoth(id) => ToRemoveBoth(id)'
      BY <1>1, <2>5 DEF ToRemoveBoth
    <3>2. ASSUME ToRemoveEmail(id)
          PROVE  ToRemoveEmail(id)'
      <4>1. id \in Sound' => \A g \in TheFields :
              EntriesOf(g, id)' = IF g = Username THEN {} ELSE {Key(users'[id][g])}
        BY <2>6, <2>7, <3>2 DEF ToRemoveEmail
      <4> QED BY <1>1, <2>3, <2>7, <3>2, <4>1 DEF ToRemoveEmail
    <3>3. ToDelete(id) => ToDelete(id)'
      BY <1>1, <2>4 DEF ToDelete
    <3> QED BY <3>1, <3>2, <3>3 DEF Deleting
  <2>10. ASSUME NEW f \in TheFields, NEW name \in Names, Renaming(id, f, name)
         PROVE  Renaming(id, f, name)'
    <3>1. id \in Sound' => Free(f, name, id)'
      BY <1>1, <1>3, <2>10 DEF Renaming, Free, TheFields
    <3>2. Renamed(id, f, name)' = Renamed(id, f, name)
      BY <1>1 DEF Renamed
    <3>3. ToMove(id, f, name) => ToMove(id, f, name)'
      BY <1>1, <2>5, <3>2 DEF ToMove
    <3>4. ASSUME ToReinsert(id, f, name)
          PROVE  ToReinsert(id, f, name)'
      <4>1. id \in Sound' => \A g \in TheFields :
              EntriesOf(g, id)' = IF g = f THEN {} ELSE {Key(users'[id][g])}
        BY <2>6, <2>10, <3>4 DEF ToReinsert
      <4>2. Entered(id, But(id, f, {}))'
        BY <2>3, <2>10, <4>1 DEF TheFields
      <4> QED BY <1>1, <3>2, <3>4, <4>2 DEF ToReinsert
    <3>5. ToUpdate(id, f, name) => ToUpdate(id, f, name)'
      BY <1>1, <2>3, <2>6, <3>2 DEF ToUpdate, TheFields
    <3> QED BY <2>10, <3>1, <3>3, <3>4, <3>5 DEF Renaming
  <2>11. Working(id)'
    BY <1>6, <2>1, <2>8, <2>9, <2>10 DEF Working, TheFields
  <2> QED BY <1>2, <1>3, <1>6, <2>11 DEF IInv, Control
<1> QED BY <1>4, <1>5, <1>6 DEF IInv, Control

(* The first start queues the creation of the indexes, a later one nothing. *)
LEMMA InitDatabaseKeeps ==
  ASSUME IInv, InitDatabase
  PROVE  IInv'
<1>1. /\ ~running /\ (dat => DOMAIN files = TheFields)
      /\ dat' = TRUE /\ running' = TRUE
      /\ todo' = IF dat THEN <<>> ELSE AddIndex(Username) \o AddIndex(Email)
      /\ UNCHANGED <<indexes, users, next_id, saved_id, files, unsettled, refused,
                     crashes>>
  BY DEF InitDatabase, TheFields
<1>2. AtRest
  BY <1>1 DEF IInv, Control, Starting, Working, About
<1>3. LeavesOK' /\ IdsOK' /\ UsersFit' /\ NamesFree'
  BY <1>1, DataKept
<1>4. CASE dat
  <2>1. AtRest'
    BY <1>1, <1>2, <1>4 DEF AtRest, Sound, Normal, EntriesOf, TheFields, Ids
  <2> QED BY <1>3, <2>1 DEF IInv, Control
<1>5. CASE ~dat
  <2>1. todo' = <<CallCreate(Username), CallRegister(Username),
                  CallCreate(Email), CallRegister(Email)>>
    <3>1. todo' = AddIndex(Username) \o AddIndex(Email)
      BY <1>1, <1>5
    <3> QED BY <3>1, TwoAndTwo DEF AddIndex
  <2>2. Starting'
    BY <1>1, <1>2, <1>5, <2>1 DEF AtRest, Starting, Ids
  <2> QED BY <1>3, <2>2 DEF IInv, Control
<1> QED BY <1>4, <1>5

(* A regular end leaves everything at rest.                                *)
LEMMA CleanupDatabaseKeeps ==
  ASSUME IInv, CleanupDatabase
  PROVE  IInv'
<1>1. /\ AtMenu /\ running' = FALSE /\ UNCHANGED next_id /\ saved_id' = next_id
      /\ UNCHANGED <<dat, indexes, users, files, todo, unsettled, refused, crashes>>
  BY DEF CleanupDatabase, SaveHeader
<1>2. AtRest
  BY <1>1, AtMenuRest DEF AtMenu
<1>3. LeavesOK' /\ IdsOK' /\ UsersFit' /\ NamesFree'
  BY <1>1, DataKept DEF IInv, IdsOK
<1>4. AtRest'
  BY <1>1, <1>2 DEF AtRest, AtMenu, Sound, Normal, EntriesOf, TheFields, Ids
<1> QED BY <1>3, <1>4 DEF IInv, Control

(* The first start.                                                        *)
LEMMA StartingNow ==
  ASSUME IInv, todo # <<>>, Call.call \in {"create", "register"}
  PROVE  Starting
<1>1. ASSUME NEW id, Working(id)
      PROVE  Call.call \notin {"create", "register"}
  <2>1. Creating(id) => Call.call = "insert"
    BY CreatingCalls DEF Creating, CallInsert
  <2>2. Deleting(id) => Call.call \in {"remove", "delete"}
    BY DeletingCalls DEF Deleting, CallRemove, CallDelete
  <2>3. \A f, name : Renaming(id, f, name) =>
                       Call.call \in {"remove", "insert", "update"}
    BY RenamingCalls DEF Renaming, CallReinsert, CallRemove, Renamed, CallUpdate
  <2> QED BY <1>1, <2>1, <2>2, <2>3 DEF Working
<1> QED BY <1>1 DEF IInv, Control, AtRest

(* AddIndex creates an empty file ...                                      *)
LEMMA CreateIndexFileKeeps ==
  ASSUME IInv, CreateIndexFile
  PROVE  IInv'
<1>1. todo # <<>> /\ Call.call = "create"
  BY DEF CreateIndexFile, Running
<1>2. Starting
  BY <1>1, StartingNow
<1>3. PICK f : f = Call.field
  OBVIOUS
<1>4. /\ files' = WithEntry(files, f, EmptyLeaf) /\ todo' = Tail(todo)
      /\ UNCHANGED <<dat, indexes, users, next_id, saved_id, running, unsettled,
                     refused, crashes>>
  BY <1>3 DEF CreateIndexFile, Done
<1>5. /\ DOMAIN files' = DOMAIN files \cup {f}
      /\ \A g \in DOMAIN files' : files'[g] = EmptyLeaf
  BY <1>2, <1>4 DEF WithEntry, Starting
<1>6. f \in TheFields /\ Starting'
  <2>1. /\ CallCreate(Username).field = Username
        /\ CallCreate(Email).field = Email
        /\ CallRegister(Username).call = "register"
        /\ CallRegister(Email).call = "register"
    BY DEF CallCreate, CallRegister
  <2>2. CASE /\ todo = <<CallCreate(Username), CallRegister(Username),
                         CallCreate(Email), CallRegister(Email)>>
             /\ DOMAIN files = {} /\ indexes = {}
    <3>1. /\ Call = CallCreate(Username)
          /\ Tail(todo) = <<CallRegister(Username), CallCreate(Email),
                            CallRegister(Email)>>
      BY <2>2, FourCalls DEF Call
    <3>2. f = Username /\ DOMAIN files' = {Username}
      BY <1>3, <1>5, <2>1, <2>2, <3>1
    <3> QED BY <1>2, <1>4, <1>5, <2>2, <3>1, <3>2, FieldsSet DEF Starting, Ids
  <2>3. CASE /\ todo = <<CallRegister(Username), CallCreate(Email),
                         CallRegister(Email)>>
    <3>1. Call = CallRegister(Username)
      BY <2>3, ThreeCalls DEF Call
    <3> QED BY <1>1, <2>1, <3>1
  <2>4. CASE /\ todo = <<CallCreate(Email), CallRegister(Email)>>
             /\ DOMAIN files = {Username} /\ indexes = {Username}
    <3>1. Call = CallCreate(Email) /\ Tail(todo) = <<CallRegister(Email)>>
      BY <2>4, TwoCalls DEF Call
    <3>2. f = Email /\ DOMAIN files' = TheFields
      BY <1>3, <1>5, <2>1, <2>4, <3>1, FieldsSet
    <3> QED BY <1>2, <1>4, <1>5, <2>4, <3>1, <3>2, FieldsSet
            DEF Starting, Ids, TheFields
  <2>5. CASE /\ todo = <<CallRegister(Email)>>
    <3>1. Call = CallRegister(Email)
      BY <2>5, OneCall DEF Call
    <3> QED BY <1>1, <2>1, <3>1
  <2> QED BY <1>2, <2>2, <2>3, <2>4, <2>5 DEF Starting
<1>7. LeavesOK'
  <2>1. DOMAIN files' \subseteq TheFields
    BY <1>5, <1>6 DEF IInv, LeavesOK
  <2>2. LeafOK(EmptyLeaf) /\ \A k, b : ~LeafHolds(EmptyLeaf, k, b)
    BY DEF LeafOK, LeafHolds, EmptyLeaf
  <2> QED BY <1>5, <2>1, <2>2 DEF LeavesOK, TheFields
<1>8. IdsOK' /\ UsersFit' /\ NamesFree'
  BY <1>4 DEF IInv, IdsOK, UsersFit, NamesFree, Free, Sound, TheFields
<1> QED BY <1>6, <1>7, <1>8 DEF IInv, Control

(* ... and registers it.                                                   *)
LEMMA RegisterIndexKeeps ==
  ASSUME IInv, RegisterIndex
  PROVE  IInv'
<1>1. todo # <<>> /\ Call.call = "register"
  BY DEF RegisterIndex, Running
<1>2. Starting
  BY <1>1, StartingNow
<1>3. /\ indexes' = indexes \cup {Call.field} /\ todo' = Tail(todo)
      /\ UNCHANGED next_id /\ saved_id' = next_id
      /\ UNCHANGED <<dat, users, files, running, unsettled, refused, crashes>>
  BY DEF RegisterIndex, Done, SaveHeader
<1>4. Starting' \/ AtRest'
  <2>1. /\ CallRegister(Username).field = Username
        /\ CallRegister(Email).field = Email
        /\ CallCreate(Username).call = "create"
        /\ CallCreate(Email).call = "create"
    BY DEF CallCreate, CallRegister
  <2>2. CASE /\ todo = <<CallCreate(Username), CallRegister(Username),
                         CallCreate(Email), CallRegister(Email)>>
    <3>1. Call = CallCreate(Username)
      BY <2>2, FourCalls DEF Call
    <3> QED BY <1>1, <2>1, <3>1
  <2>3. CASE /\ todo = <<CallRegister(Username), CallCreate(Email),
                         CallRegister(Email)>>
             /\ DOMAIN files = {Username} /\ indexes = {}
    <3>1. /\ Call = CallRegister(Username)
          /\ Tail(todo) = <<CallCreate(Email), CallRegister(Email)>>
      BY <2>3, ThreeCalls DEF Call
    <3>2. indexes' = {Username}
      BY <1>3, <2>1, <2>3, <3>1
    <3> QED BY <1>2, <1>3, <2>3, <3>1, <3>2 DEF Starting, Ids
  <2>4. CASE /\ todo = <<CallCreate(Email), CallRegister(Email)>>
    <3>1. Call = CallCreate(Email)
      BY <2>4, TwoCalls DEF Call
    <3> QED BY <1>1, <2>1, <3>1
  <2>5. CASE /\ todo = <<CallRegister(Email)>>
             /\ DOMAIN files = TheFields /\ indexes = {Username}
    <3>1. Call = CallRegister(Email) /\ Tail(todo) = <<>>
      BY <2>5, OneCall DEF Call
    <3>2. indexes' = TheFields
      BY <1>3, <2>1, <2>5, <3>1, FieldsSet
    <3> QED BY <1>2, <1>3, <2>5, <3>1, <3>2 DEF Starting, AtRest, Ids, Sound, TheFields
  <2> QED BY <1>2, <2>2, <2>3, <2>4, <2>5 DEF Starting
<1>5. LeavesOK' /\ IdsOK' /\ UsersFit'
  <2>1. 1 .. saved_id - 1 \subseteq 1 .. saved_id' - 1
    BY <1>3 DEF IInv, IdsOK
  <2> QED BY <1>3, <2>1 DEF IInv, LeavesOK, IdsOK, UsersFit, TheFields
<1>6. NamesFree'
  BY <1>2, <1>3 DEF Starting, Ids, NamesFree, Sound
<1> QED BY <1>4, <1>5, <1>6 DEF IInv, Control

(* A crash ends what was in progress, and its user is no longer settled.   *)
LEMMA CrashKeeps ==
  ASSUME IInv, Crash
  PROVE  IInv'
<1>1. /\ running /\ crashes' = crashes + 1 /\ running' = FALSE /\ todo' = <<>>
      /\ unsettled' = unsettled \cup InProgress
      /\ next_id' = saved_id
      /\ UNCHANGED <<dat, indexes, users, saved_id, files, refused>>
  BY DEF Crash
<1>2. crashes' \in Nat /\ crashes' # 0 /\ crashes \in Nat
  BY <1>1 DEF IInv, IdsOK
<1>3. /\ InProgress \subseteq DOMAIN users /\ AtRest'
  <2>1. CASE AtRest
    <3>1. InProgress = {}
      BY <2>1 DEF AtRest, InProgress, ToSet
    <3> QED BY <1>1, <1>2, <2>1, <3>1
            DEF AtRest, Sound, Normal, EntriesOf, TheFields, Ids
  <2>2. CASE Starting
    <3>1. InProgress = {}
      BY <2>2, StartingCalls
    <3>2. indexes \subseteq DOMAIN files
      BY <2>2, FieldsSet DEF Starting
    <3> QED BY <1>1, <1>2, <2>2, <3>1, <3>2
            DEF Starting, AtRest, Sound, TheFields, Ids
  <2>3. ASSUME NEW id \in Ids, Working(id)
        PROVE  InProgress \subseteq DOMAIN users /\ AtRest'
    <3>1. InProgress = {id}
      BY <2>3, WorkingOn
    <3>2. /\ running /\ dat /\ DOMAIN files = TheFields
          /\ indexes \subseteq TheFields
          /\ \A b \in Sound \ {id} : Normal(b)
      BY <2>3 DEF Working, About, OthersNormal
    <3>3. Sound' = Sound \ {id}
      BY <1>1, <3>1 DEF Sound
    <3>4. \A b \in Sound' : Normal(b)'
      BY <1>1, <3>2, <3>3 DEF Normal, EntriesOf, TheFields
    <3>5. (\A b \in Sound : Normal(b))'
      BY <3>4
    <3> QED BY <1>1, <1>2, <3>1, <3>2, <3>5 DEF AtRest, TheFields, Ids
  <2> QED BY <2>1, <2>2, <2>3 DEF IInv, Control
<1>4. LeavesOK'
  BY <1>1 DEF IInv, LeavesOK, TheFields
<1>5. IdsOK'
  <2>1. next_id' \in Nat \ {0} /\ saved_id' \in Nat \ {0} /\ saved_id' <= next_id'
    BY <1>1 DEF IInv, IdsOK
  <2>2. unsettled' \subseteq 1 .. saved_id' - 1
    BY <1>1, <1>3 DEF IInv, IdsOK
  <2> QED BY <1>1, <1>2, <2>1, <2>2 DEF IInv, IdsOK, TheFields
<1>6. IsFiniteSet(unsettled')
  BY <1>5, IdsFinite DEF IdsOK
<1>7. UsersFit' /\ NamesFree'
  BY <1>1, <1>2, <1>6, UsersFitKept, NamesFreeKept DEF IInv
<1> QED BY <1>3, <1>4, <1>5, <1>7 DEF IInv, Control

(* There is nothing before the first start.                                *)
LEMMA InitIInv == Init => IInv
<1> SUFFICES ASSUME Init PROVE IInv
  OBVIOUS
<1>1. /\ dat = FALSE /\ indexes = {} /\ DOMAIN users = {}
      /\ next_id = 1 /\ saved_id = 1
      /\ DOMAIN files = {} /\ running = FALSE /\ todo = <<>>
      /\ unsettled = {} /\ refused = FALSE /\ crashes = 0
  BY DEF Init
<1>2. LeavesOK /\ IdsOK /\ UsersFit /\ NamesFree
  <2>1. LeavesOK
    BY <1>1 DEF LeavesOK
  <2>2. IdsOK
    <3>1. /\ dat \in BOOLEAN /\ running \in BOOLEAN /\ refused \in BOOLEAN
          /\ ~refused
      BY <1>1, Zenon
    <3>2. /\ next_id \in Nat \ {0} /\ saved_id \in Nat \ {0} /\ saved_id <= next_id
          /\ crashes \in Nat
          /\ DOMAIN users \subseteq 1 .. saved_id - 1
          /\ unsettled \subseteq 1 .. saved_id - 1
          /\ \A id \in DOMAIN users : users[id] \in [TheFields -> Names]
      BY <1>1
    <3> QED BY <1>1, <3>1, <3>2, Zenon DEF IdsOK
  <2>3. UsersFit
    BY <1>1 DEF UsersFit
  <2>4. NamesFree
    BY <1>1 DEF NamesFree, Sound
  <2> QED BY <2>1, <2>2, <2>3, <2>4
<1>3. AtRest
  BY <1>1 DEF AtRest, Ids, Sound
<1> QED BY <1>2, <1>3 DEF IInv, Control

(* Every step keeps the invariant.                                         *)
LEMMA NextIInv == IInv /\ [Next]_vars => IInv'
<1> SUFFICES ASSUME IInv, [Next]_vars PROVE IInv'
  OBVIOUS
<1>1. ASSUME NEW name \in Names, NEW email \in Names, DoCreateUser(name, email)
      PROVE  IInv'
  BY <1>1, DoCreateUserKeeps
<1>2. ASSUME NEW id \in DOMAIN users, DoDeleteUser(id) PROVE IInv'
  BY <1>2, DoDeleteUserKeeps
<1>3. ASSUME NEW id \in DOMAIN users, NEW f \in TheFields, NEW name \in Names,
             DoEditUser(id, f, name)
      PROVE  IInv'
  BY <1>3, DoEditUserKeeps
<1>4. CASE UNCHANGED vars
  BY <1>4, StutterKeeps
<1> QED
  BY <1>1, <1>2, <1>3, <1>4, InitDatabaseKeeps, CleanupDatabaseKeeps,
     CreateIndexFileKeeps, RegisterIndexKeeps, InsertEntryKeeps,
     RemoveEntryKeeps, UpdateRecordKeeps, DeleteRecordKeeps, CrashKeeps
  DEF Next, TheFields

(* In every behaviour the indexes hold of the user in progress what the    *)
(* call about to be made expects, and of every other user what its record  *)
(* says.                                                                   *)
THEOREM Inductive == Spec => []IInv
BY InitIInv, NextIInv, PTL DEF Spec

-----------------------------------------------------------------------------
(* The properties the runs check, for every value of the constants.        *)

(* At most one user is in progress, and only that one's entries differ     *)
(* from what its record says; even they are under a free name.             *)
LEMMA OneKey ==
  ASSUME IInv, NEW b \in Sound, NEW f \in TheFields
  PROVE  /\ DOMAIN files = TheFields
         /\ crashes = 0 => indexes = TheFields
         /\ \E m : /\ Free(f, m, b)
                   /\ EntriesOf(f, b) \subseteq {Key(m)}
                   /\ b \notin InProgress =>
                        m = users[b][f] /\ EntriesOf(f, b) = {Key(m)}
<1>1. Free(f, users[b][f], b) /\ b \in Ids
  BY DEF IInv, NamesFree, Sound, Ids
<1>2. Normal(b) => EntriesOf(f, b) = {Key(users[b][f])}
  BY DEF Normal
<1>3. CASE AtRest
  BY <1>1, <1>2, <1>3 DEF AtRest
<1>4. ~Starting
  BY <1>1 DEF Starting
<1>5. ASSUME NEW id \in Ids, Working(id), id # b
      PROVE  /\ Normal(b) /\ DOMAIN files = TheFields
             /\ crashes = 0 => indexes = TheFields
  BY <1>5 DEF Working, About, OthersNormal
<1>6. ASSUME Working(b)
      PROVE  /\ DOMAIN files = TheFields
             /\ crashes = 0 => indexes = TheFields
             /\ b \in InProgress
             /\ \E m : Free(f, m, b) /\ EntriesOf(f, b) \subseteq {Key(m)}
  <2>1. /\ DOMAIN files = TheFields
        /\ crashes = 0 => indexes = TheFields
        /\ b \in InProgress
    BY <1>6, WorkingOn DEF Working, About
  <2>2. Username \in TheFields /\ Email \in TheFields
    BY FieldsSet
  <2>3. CASE Creating(b) \/ Deleting(b)
    <3>1. EntriesOf(f, b) \subseteq {Key(users[b][f])}
      <4>1. Entered(b, None) => EntriesOf(f, b) = {}
        BY EnteredNone
      <4>2. Entered(b, Own(b)) => EntriesOf(f, b) = {Key(users[b][f])}
        BY <1>2, EnteredOwn
      <4>3. ASSUME NEW g \in TheFields, Entered(b, But(b, g, {}))
            PROVE  EntriesOf(f, b) \subseteq {Key(users[b][f])}
        <5>1. EntriesOf(f, b) = IF f = g THEN {} ELSE {Key(users[b][f])}
          BY <4>3, EnteredBut
        <5> QED BY <5>1
      <4> QED
        BY <2>2, <2>3, <4>1, <4>2, <4>3
        DEF Creating, Deleting, ToEnterBoth, ToEnterEmail, ToRemoveBoth,
            ToRemoveEmail, ToDelete
    <3> QED BY <1>1, <2>1, <3>1
  <2>4. ASSUME NEW g \in TheFields, NEW name \in Names, Renaming(b, g, name)
        PROVE  \E m : Free(f, m, b) /\ EntriesOf(f, b) \subseteq {Key(m)}
    <3>1. Free(g, name, b)
      BY <2>4 DEF Renaming
    <3>2. CASE ToMove(b, g, name)
      BY <1>1, <1>2, <3>2, EnteredOwn DEF ToMove
    <3>3. CASE ToReinsert(b, g, name)
      <4>1. EntriesOf(f, b) = IF f = g THEN {} ELSE {Key(users[b][f])}
        BY <3>3, EnteredBut DEF ToReinsert
      <4> QED BY <1>1, <4>1
    <3>4. CASE ToUpdate(b, g, name)
      <4>1. EntriesOf(f, b) = IF f = g THEN {Key(name)} ELSE {Key(users[b][f])}
        BY <3>4, EnteredBut DEF ToUpdate
      <4> QED BY <1>1, <3>1, <4>1
    <3> QED BY <2>4, <3>2, <3>3, <3>4 DEF Renaming
  <2> QED BY <1>6, <2>1, <2>3, <2>4 DEF Working
<1>7. CASE \E id \in Ids : Working(id) /\ id # b
  BY <1>1, <1>2, <1>5, <1>7
<1>8. CASE Working(b)
  BY <1>6, <1>8
<1>9. AtRest => DOMAIN files = TheFields /\ (crashes = 0 => indexes = TheFields)
  BY <1>1 DEF AtRest
<1> QED BY <1>3, <1>4, <1>7, <1>8, <1>9 DEF IInv, Control

(* The types follow from what the invariant says of leaves and ids.        *)
LEMMA IInvTypeOK == IInv => TypeOK
<1> SUFFICES ASSUME IInv PROVE TypeOK
  OBVIOUS
<1>1. indexes \subseteq DOMAIN files
  <2>1. Starting => indexes \subseteq DOMAIN files
    BY FieldsSet DEF Starting
  <2>2. \A id : Working(id) => indexes \subseteq DOMAIN files
    BY DEF Working, About
  <2> QED BY <2>1, <2>2 DEF IInv, Control, AtRest
<1>2. ASSUME NEW f \in DOMAIN files, NEW k \in DOMAIN files[f]
      PROVE  /\ k \in {Key(name) : name \in Names}
             /\ ToSet(files[f][k]) \subseteq 1 .. saved_id - 1
  <2> DEFINE s == files[f][k]
  <2>1. s \in Seq(Nat) /\ s # <<>>
    BY DEF IInv, LeavesOK, LeafOK
  <2>2. ASSUME NEW i \in 1 .. Len(s)
        PROVE  /\ k \in {Key(name) : name \in Names}
               /\ s[i] \in DOMAIN users \cup unsettled
    <3>1. LeafHolds(files[f], k, s[i])
      BY DEF LeafHolds, Contains
    <3> QED BY <3>1 DEF IInv, LeavesOK
  <2>3. 1 \in 1 .. Len(s)
    <3> HIDE DEF s
    <3> QED BY <2>1
  <2>4. ToSet(s) \subseteq DOMAIN users \cup unsettled
    <3>1. DOMAIN s = 1 .. Len(s)
      BY <2>1
    <3> HIDE DEF s
    <3> QED BY <2>2, <3>1 DEF ToSet
  <2> QED BY <2>2, <2>3, <2>4 DEF IInv, IdsOK
<1> QED BY <1>1, <1>2 DEF IInv, IdsOK, LeavesOK, TypeOK, TheFields

(* A user that is not in progress has its normal entries.                  *)
LEMMA IInvSettledIndexed == IInv => SettledIndexed
<1> SUFFICES ASSUME IInv, NEW id \in Settled, NEW f \in TheFields
             PROVE  EntriesOf(f, id) = {Key(users[id][f])}
  BY DEF SettledIndexed, TheFields
<1>1. id \in Sound /\ id \notin InProgress
  BY DEF Settled, Sound
<1> QED BY <1>1, OneKey

(* A user's name is free of every other sound user.                        *)
LEMMA IInvNamesUnique == IInv => NamesUnique
<1> SUFFICES ASSUME IInv, Cardinality(unsettled) < MAX_CANDIDATES,
                    NEW f \in indexes, NEW a \in Settled, NEW b \in Settled,
                    users[a][f] = users[b][f], a # b
             PROVE  FALSE
  BY DEF NamesUnique
<1> f \in TheFields
  BY IInvTypeOK DEF TypeOK, TheFields
<1>1. a \in Sound /\ b \in Sound
  BY DEF Settled, Sound
<1>2. Free(f, users[a][f], a)
  BY <1>1 DEF IInv, NamesFree
<1> QED BY <1>1, <1>2 DEF Free

(* Two ids in one list would be two users whose names share the key.       *)
LEMMA IInvNoStaleEntries == IInv => NoStaleEntries
<1> SUFFICES ASSUME IInv, crashes = 0 PROVE NoStaleEntries
  BY DEF NoStaleEntries
<1>1. ~refused /\ unsettled = {} /\ Sound = DOMAIN users
  BY DEF IInv, IdsOK, Sound
<1>2. ASSUME NEW f \in DOMAIN files, NEW k \in DOMAIN files[f]
      PROVE  Len(files[f][k]) <= 1 /\ ToSet(files[f][k]) \subseteq DOMAIN users
  <2> DEFINE s == files[f][k]
  <2>1. s \in Seq(Nat) /\ Distinct(s) /\ f \in TheFields
    BY DEF IInv, LeavesOK, LeafOK
  <2>2. ASSUME NEW i \in 1 .. Len(s)
        PROVE  s[i] \in DOMAIN users /\ k \in EntriesOf(f, s[i])
    <3>1. LeafHolds(files[f], k, s[i]) /\ k \in EntriesOf(f, s[i])
      BY DEF LeafHolds, Contains, EntriesOf
    <3>2. s[i] \in DOMAIN users \cup unsettled
      BY <3>1 DEF IInv, LeavesOK
    <3> QED BY <1>1, <3>1, <3>2
  <2>3. ASSUME 1 \in 1 .. Len(s), 2 \in 1 .. Len(s) PROVE FALSE
    <3>1. PICK b : b = s[1]
      OBVIOUS
    <3>2. PICK c : c = s[2]
      OBVIOUS
    <3>3. b # c
      BY <2>1, <2>3, <3>1, <3>2 DEF Distinct
    <3>4. /\ b \in Sound /\ k \in EntriesOf(f, b)
          /\ c \in Sound /\ k \in EntriesOf(f, c)
      BY <1>1, <2>2, <2>3, <3>1, <3>2
    <3> HIDE DEF s
    <3>5. PICK m : /\ Free(f, m, b) /\ k = Key(m)
                   /\ b \notin InProgress => m = users[b][f]
      BY <2>1, <3>4, OneKey
    <3>6. PICK n : /\ Free(f, n, c) /\ k = Key(n)
                   /\ c \notin InProgress => n = users[c][f]
      BY <2>1, <3>4, OneKey
    <3>7. b \notin InProgress \/ c \notin InProgress
      BY <3>3, OneInProgress
    <3>8. CASE b \notin InProgress
      BY <1>1, <3>3, <3>4, <3>5, <3>6, <3>8 DEF Free
    <3>9. CASE c \notin InProgress
      BY <1>1, <3>3, <3>4, <3>5, <3>6, <3>9 DEF Free
    <3> QED BY <3>7, <3>8, <3>9
  <2>4. Len(s) <= 1
    <3> HIDE DEF s
    <3> QED BY <2>1, <2>3
  <2>5. ToSet(s) \subseteq DOMAIN users
    <3>1. DOMAIN s = 1 .. Len(s)
      BY <2>1
    <3> HIDE DEF s
    <3> QED BY <2>2, <3>1 DEF ToSet
  <2> QED BY <2>4, <2>5
<1> QED BY <1>1, <1>2 DEF NoStaleEntries

(* The list under a name's key is then the one user's id.                  *)
LEMMA IInvFoundByOwnName == IInv => FoundByOwnName
<1> SUFFICES ASSUME IInv, crashes = 0, NEW id \in Settled, NEW f \in TheFields
             PROVE  FindUser(f, users[id][f]) = id
  BY DEF FoundByOwnName, TheFields
<1>1. /\ id \in Sound /\ id \in DOMAIN users
      /\ f \in indexes /\ f \in DOMAIN files
      /\ EntriesOf(f, id) = {Key(users[id][f])}
  <2>1. id \in Sound /\ id \notin InProgress /\ id \in DOMAIN users
    BY DEF Settled, Sound
  <2> QED BY <2>1, OneKey
<1> DEFINE k == Key(users[id][f])
           s == files[f][k]
<1>2. k \in DOMAIN files[f] /\ Contains(s, id)
  BY <1>1 DEF EntriesOf
<1>3. s \in Seq(Nat) /\ Len(s) <= 1
  BY <1>1, <1>2, IInvNoStaleEntries DEF NoStaleEntries, IInv, LeavesOK, LeafOK
<1>4. Len(s) = 1 /\ s[1] = id
  <2>1. PICK i \in 1 .. Len(s) : s[i] = id
    BY <1>2 DEF Contains
  <2> HIDE DEF s
  <2>2. PICK n \in Nat : n = Len(s)
    BY <1>3
  <2>3. n = 1 /\ i = 1
    <3>1. \A j, l \in Int : l <= 1 /\ j \in 1 .. l => l = 1 /\ j = 1
      OBVIOUS
    <3> QED BY <1>3, <2>1, <2>2, <3>1
  <2> QED BY <2>1, <2>2, <2>3
<1> DEFINE m == Min({MAX_CANDIDATES, Len(s)})
           candidates == SubSeq(s, 1, m)
           found == {i \in DOMAIN candidates : candidates[i] \in DOMAIN users}
<1>5. m = 1
  <2>1. MAX_CANDIDATES \in Nat /\ MAX_CANDIDATES >= 1
    BY CandidatesAssumption
  <2>2. {MAX_CANDIDATES, 1} \subseteq Nat /\ {MAX_CANDIDATES, 1} # {}
    BY <2>1
  <2>3. /\ Min({MAX_CANDIDATES, 1}) \in {MAX_CANDIDATES, 1}
        /\ Min({MAX_CANDIDATES, 1}) <= 1
    BY <2>2, LeastNatural
  <2>4. Min({MAX_CANDIDATES, 1}) = 1
    BY <2>1, <2>3
  <2> HIDE DEF s
  <2> QED BY <1>4, <2>4
<1>6. DOMAIN candidates = {1} /\ candidates[1] = id
  <2> HIDE DEF s, m
  <2>1. candidates = SubSeq(s, 1, 1)
    BY <1>5
  <2>2. /\ SubSeq(s, 1, 1) \in Seq(Nat) /\ Len(SubSeq(s, 1, 1)) = 1
        /\ \A i \in 1 .. 1 : SubSeq(s, 1, 1)[i] = s[i]
    BY <1>3, <1>4
  <2> HIDE DEF candidates
  <2> QED BY <1>4, <2>1, <2>2
<1>7. found = {1}
  <2> HIDE DEF candidates
  <2> QED BY <1>1, <1>6
<1>8. Min({1}) = 1
  BY LeastNatural
<1>9. LeafFind(files[f], k, MAX_CANDIDATES) = candidates
  BY <1>2 DEF LeafFind
<1>10. FindUser(f, users[id][f]) = IF found = {} THEN 0 ELSE candidates[Min(found)]
  <2> HIDE DEF candidates
  <2> QED BY <1>1, <1>9 DEF FindUser
<1> HIDE DEF found, candidates
<1> QED BY <1>6, <1>7, <1>8, <1>10

(* TypeOK: ids are below next_record_id in the file, in the records and in *)
(* the indexes, and an index only holds keys of names.                     *)
THEOREM UserAdminTypeOK == Spec => []TypeOK
BY Inductive, IInvTypeOK, PTL

(* Each completed user is in both indexes under its own name and nowhere   *)
(* else, whatever create, rename, delete or crash hit the others.          *)
THEOREM UsersIndexed == Spec => []SettledIndexed
BY Inductive, IInvSettledIndexed, PTL

(* No two completed users share a user name or an email address, as far as *)
(* its index is registered, though DoCreateUser and DoEditUser look only   *)
(* at the first candidates.                                                *)
THEOREM UserNamesUnique == Spec => []NamesUnique
BY Inductive, IInvNamesUnique, PTL

(* Without a crash no entry outlives its user and no index ever refuses    *)
(* an entry: each has room as long as the primary index has.               *)
THEOREM NoEntryStale == Spec => []NoStaleEntries
BY Inductive, IInvNoStaleEntries, PTL

(* Without a crash FindUserByUsername and FindUserByEmail find every       *)
(* completed user.                                                         *)
THEOREM UsersFound == Spec => []FoundByOwnName
BY Inductive, IInvFoundByOwnName, PTL
=============================================================================
