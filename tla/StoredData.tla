----------------------------- MODULE StoredData -----------------------------
(***************************************************************************)
(* What the start of the program promises about the stored data, without   *)
(* log, copies or intermediate steps: a plaintext database becomes an      *)
(* encrypted one at once and with all its rows; a plaintext database is    *)
(* never set aside, only an encrypted or damaged one (whether it is one    *)
(* the root key opens is not promised), and no row of it is lost; a root   *)
(* key is made only where none is stored and no database needs another.    *)
(***************************************************************************)
CONSTANTS Rows, Keys, NoKey

VARIABLES
    db,         \* the database: kind, key, rows
    aside,      \* the rows in files set aside
    rootKey     \* the keychain's entry

vars == <<db, aside, rootKey>>

Absent == [kind |-> "absent", key |-> NoKey, rows |-> {}]
Readable == db.kind = "crypt" /\ db.key = rootKey

Init ==
    /\ db \in [kind : {"absent", "plain", "crypt", "damaged"}, key : Keys \cup {NoKey},
               rows : SUBSET Rows]
    /\ aside = {}

NewKey ==
    /\ rootKey \notin Keys /\ db.kind \in {"absent", "plain"}
    /\ rootKey' \in Keys
    /\ UNCHANGED <<db, aside>>

Create ==
    /\ db.kind = "absent" /\ rootKey \in Keys
    /\ db' = [kind |-> "crypt", key |-> rootKey, rows |-> {}]
    /\ UNCHANGED <<aside, rootKey>>

Encrypt ==
    /\ db.kind = "plain" /\ rootKey \in Keys
    /\ db' = [kind |-> "crypt", key |-> rootKey, rows |-> db.rows]
    /\ UNCHANGED <<aside, rootKey>>

Commit(r) ==
    /\ Readable
    /\ db' = [db EXCEPT !.rows = @ \cup {r}]
    /\ UNCHANGED <<aside, rootKey>>

SetAside(moved, rest) ==
    /\ db.kind \in {"crypt", "damaged"}
    /\ db.rows = moved \cup rest
    /\ db' = [db EXCEPT !.rows = rest] \/ (rest = {} /\ db' = Absent)
    /\ aside' = aside \cup moved
    /\ UNCHANGED rootKey

Next ==
    \/ NewKey \/ Create \/ Encrypt
    \/ \E r \in Rows : Commit(r)
    \/ \E moved, rest \in SUBSET Rows : SetAside(moved, rest)

Spec == Init /\ [][Next]_vars
=============================================================================
