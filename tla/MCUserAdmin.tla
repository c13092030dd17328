---------------------------- MODULE MCUserAdmin ----------------------------
(* Small instances of UserAdmin, and what the repository says of it that   *)
(* does not hold.                                                          *)
EXTENDS UserAdmin

(* Three names of which two have the same key.                             *)
ThreeNames == 1 .. 3
CollidingKey(name) == IF name = 3 THEN 1 ELSE name

(* "Both usernames and email addresses should be unique.  Two users should *)
(* not have the same email address or username." (useradm.md)  At the      *)
(* menu, no two users that have an entry in each of the two registered     *)
(* indexes have one user name or one address.                              *)
EnteredNamesUnique ==
  AtMenu /\ indexes = ToSet(Fields) =>
    LET entered == {id \in DOMAIN users :
                      \A f \in ToSet(Fields) : EntriesOf(f, id) # {}}
    IN  \A f \in ToSet(Fields) : \A a, b \in entered :
          users[a][f] = users[b][f] => a = b
=============================================================================
