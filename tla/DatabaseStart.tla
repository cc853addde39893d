--------------------------- MODULE DatabaseStart ---------------------------
(***************************************************************************)
(* Opening the database at program start: the decision by the state of the *)
(* file and of the root key, the questions to the user, starting over, and *)
(* the key in the keychain (app-logic, database_startup.rs; core,          *)
(* crypto/key.rs), the conversion of a plaintext database into an          *)
(* encrypted one and opening it (persistence-sqlite, encryption.rs and     *)
(* store.rs).                                                              *)
(*                                                                         *)
(* The program may end between any two accesses to disk or keychain; what  *)
(* the running program writes may then still lie in the write-ahead log.   *)
(* -shm and -journal go with the log.  One program has the files at a      *)
(* time, as spec 0101, section 1, takes for given: nothing in the code     *)
(* keeps a second instance from starting.                                  *)
(***************************************************************************)
EXTENDS Naturals

CONSTANTS
    Rows,           \* what users have stored
    Keys,           \* root keys; bounds how many are generated
    NoKey,
    MaxStarts       \* bound

ASSUME DatabaseAssumption == NoKey \notin Keys /\ MaxStarts \in Nat

Kinds == {"absent", "plain", "crypt", "damaged"}
File == [kind : Kinds, key : Keys \cup {NoKey}, rows : SUBSET Rows]

VARIABLES
    main,       \* smart-ssh.db
    wal,        \* its write-ahead log
    tmp,        \* smart-ssh.db.sqlcipher-new
    kept,       \* the files renamed to .unreadable-...
    linked,     \* smart-ssh.db is a symbolic link
    stored,     \* the keychain's entry for the root key
    reachable,  \* the keychain answers
    used,       \* the keys there ever were
    pc,
    probed,     \* the keychain answered when the program started
    key,        \* the root key in memory
    goal,       \* what a new key is for: "open" or "convert"
    asks,       \* a failed probe is a question, not yet fatal
    expected,   \* the rows counted before the conversion
    starts,
    saved       \* history variable: the rows ever committed to a database

vars == <<main, wal, tmp, kept, linked, stored, reachable, used, pc, probed, key, goal, asks,
          expected, starts, saved>>
disk == <<main, wal, tmp, kept, linked>>
keychain == <<stored, used>>
memory == <<probed, key, goal, asks, expected>>

Entries == {"none", "invalid"} \cup Keys

Absent == [kind |-> "absent", key |-> NoKey, rows |-> {}]
Plain(r) == [kind |-> "plain", key |-> NoKey, rows |-> r]
Crypt(k, r) == [kind |-> "crypt", key |-> k, rows |-> r]
Damaged == [kind |-> "damaged", key |-> NoKey, rows |-> {}]

(* The log holds changes to the database it lies beside.                   *)
SameDatabase(f, g) == f.kind = g.kind /\ f.key = g.key
FitsMain(w) == w.kind = "absent" \/ SameDatabase(w, main)

(* Reading the database: its pages, and what the log adds to them.         *)
Contents == main.rows \cup wal.rows
Readable(k) == main.kind = "crypt" /\ main.key = k /\ FitsMain(wal)

FileState == CASE main.kind = "absent" -> "missing"
               [] main.kind = "plain" -> "plaintext"
               [] OTHER -> "other"

UnreachableIsNotFound == IF ~probed \/ ~reachable THEN "not_found"
    ELSE IF stored \in Keys THEN "present"
    ELSE IF stored = "none" THEN "not_found" ELSE "invalid"

KeyState == IF ~probed \/ ~reachable THEN "unreachable"
    ELSE IF stored \in Keys THEN "present"
    ELSE IF stored = "none" THEN "not_found" ELSE "invalid"

(* Where the table of spec 0101, A3, leads: to an action or to a dialog.   *)
DecideStartup(f, k) ==
    CASE k = "unreachable" -> "d1"
      [] k = "invalid" -> IF f = "plaintext" THEN "d4" ELSE "start_over"
      [] k = "not_found" -> IF f = "other" THEN "start_over" ELSE "generate"
      [] OTHER -> IF f = "plaintext" THEN "convert" ELSE "open"

Places == {"off", "look", "again", "d1", "d4", "start_over", "rename_wal", "rename_main",
           "generate", "open", "convert", "checkpoint", "export", "copying", "verify", "swap",
           "install", "discard", "running"}

Converting == {"convert", "checkpoint", "export", "copying", "verify", "swap", "install", "discard"}

TypeOK ==
    /\ main \in File /\ wal \in File /\ tmp \in File /\ kept \in SUBSET File
    /\ linked \in BOOLEAN /\ stored \in Entries /\ reachable \in BOOLEAN
    /\ used \in SUBSET Keys /\ ({stored, main.key, tmp.key} \cap Keys) \subseteq used
    /\ pc \in Places /\ probed \in BOOLEAN /\ key \in Keys \cup {NoKey}
    /\ goal \in {"open", "convert"} /\ asks \in BOOLEAN
    /\ expected \in SUBSET Rows /\ saved \in SUBSET Rows /\ starts \in 0..MaxStarts
    /\ pc \in Converting => main.kind = "plain"

(* A first start, an installation from before the encryption, one whose    *)
(* key was lost or exchanged, a damaged file; and anything at all in the   *)
(* place of the intermediate file.                                         *)
Init ==
    /\ main \in {Absent, Damaged} \cup {Plain(r) : r \in SUBSET Rows}
                    \cup {Crypt(k, r) : k \in Keys, r \in SUBSET Rows}
    /\ wal \in {Absent} \cup (IF main.kind \in {"absent", "damaged"} THEN {}
                                ELSE {[main EXCEPT !.rows = r] : r \in SUBSET Rows})
    /\ tmp \in {Absent, Damaged}
    /\ kept = {}
    /\ linked \in BOOLEAN
    /\ stored \in Entries
    /\ used = {stored, main.key} \cap Keys
    /\ reachable \in BOOLEAN
    /\ pc = "off" /\ probed = FALSE /\ key = NoKey /\ goal = "open" /\ asks = FALSE
    /\ expected = {} /\ starts = 0
    /\ saved = Contents

Goto(from, to) == pc = from /\ pc' = to

(* The start is given up: the user quits, or a message ends the program.   *)
Abort(from) == Goto(from, "off")

----------------------------------------------------------------------------

(* The probe of the keychain: store_status(), once for the whole run.      *)
Start ==
    /\ Goto("off", "look") /\ starts < MaxStarts
    /\ starts' = starts + 1
    /\ probed' = reachable
    /\ key' = NoKey /\ goal' = "open" /\ asks' = FALSE /\ expected' = {}
    /\ UNCHANGED <<disk, keychain, reachable, saved>>

Refused == linked /\ FileState \in {"missing", "plaintext"}

Look ==
    /\ pc \in {"look", "again"}
    /\ ~Refused
    /\ pc' = DecideStartup(FileState, KeyState)
    /\ key' = IF KeyState = "present" THEN stored ELSE NoKey
    /\ goal' = IF FileState = "plaintext" THEN "convert" ELSE "open"
    /\ asks' = (pc' = "open")
    /\ UNCHANGED <<disk, keychain, reachable, probed, expected, starts, saved>>

(* The file is a link, or its state cannot be read.                        *)
LookFails ==
    /\ \E at \in {"look", "again"} : Abort(at)
    /\ UNCHANGED <<disk, keychain, reachable, memory, starts, saved>>

AnswerD1 ==
    /\ Goto("d1", "again") \/ Abort("d1")
    /\ UNCHANGED <<disk, keychain, reachable, memory, starts, saved>>

(* Every choice that changes something is confirmed a second time.         *)
AnswerD4 ==
    /\ Goto("d4", "generate") \/ Abort("d4")
    /\ UNCHANGED <<disk, keychain, reachable, memory, starts, saved>>

AnswerStartOver ==
    /\ Goto("start_over", "rename_wal") \/ Abort("start_over")
    /\ UNCHANGED <<disk, keychain, reachable, memory, starts, saved>>

Setting(f) == IF f.kind = "absent" THEN {} ELSE {f}

MainSetAsideFirst ==
    /\ Goto("rename_wal", "rename_main")
    /\ kept' = kept \cup Setting(main) /\ main' = Absent
    /\ linked' = FALSE
    /\ UNCHANGED <<wal, tmp, keychain, reachable, memory, starts, saved>>

(* The main file is renamed last.                                          *)
SetWalAside ==
    /\ Goto("rename_wal", "rename_main")
    /\ kept' = kept \cup Setting(wal) /\ wal' = Absent
    /\ UNCHANGED <<main, tmp, linked, keychain, reachable, memory, starts, saved>>

SetMainAside ==
    /\ Goto("rename_main", IF key \in Keys THEN "open" ELSE "generate")
    /\ kept' = kept \cup Setting(main) /\ main' = Absent
    /\ linked' = FALSE
    /\ asks' = FALSE
    /\ UNCHANGED <<wal, tmp, keychain, reachable, probed, key, goal, expected, starts, saved>>

RenameFails ==
    /\ Abort("rename_wal") \/ Abort("rename_main")
    /\ UNCHANGED <<disk, keychain, reachable, memory, starts, saved>>

GenerateKey ==
    /\ Goto("generate", goal)
    /\ reachable
    /\ key' \in Keys \ used
    /\ used' = used \cup {key'}
    /\ stored' = key'
    /\ UNCHANGED <<disk, reachable, probed, goal, asks, expected, starts, saved>>

GenerateFails ==
    /\ Abort("generate")
    /\ UNCHANGED <<disk, keychain, reachable, memory, starts, saved>>

----------------------------------------------------------------------------
(* Opening with a key.                                                     *)

(* A database that is not there is created by the connection; what follows *)
(* may still fail.                                                         *)
CreateFresh ==
    /\ Goto("open", "open")
    /\ main.kind = "absent"
    /\ main' = Crypt(key, {})
    /\ UNCHANGED <<wal, tmp, kept, linked, keychain, reachable, memory, starts, saved>>

(* The log goes into the file.                                             *)
LogWritten == main' = [main EXCEPT !.rows = Contents] /\ wal' = Absent

(* Closing a connection that could read the database may write the log.    *)
ConnectionClosed == UNCHANGED <<main, wal>> \/ (Readable(key) /\ LogWritten)

OpenReadable ==
    /\ Goto("open", "running")
    /\ Readable(key)
    /\ UNCHANGED <<disk, keychain, reachable, memory, starts, saved>>

(* Whatever makes the probe fail counts as not readable with the key: a    *)
(* wrong key and a damaged file always do, and so do a busy database or a  *)
(* read error, although the key fits.                                      *)
OpenUnreadable ==
    /\ \/ asks /\ Goto("open", "start_over")
       \/ ~asks /\ Abort("open")
    /\ ConnectionClosed
    /\ UNCHANGED <<tmp, kept, linked, keychain, reachable, memory, starts, saved>>

(* Any other error, of the connection or of a migration.                   *)
OpenFails ==
    /\ Abort("open")
    /\ ConnectionClosed
    /\ UNCHANGED <<tmp, kept, linked, keychain, reachable, memory, starts, saved>>

----------------------------------------------------------------------------
(* Converting a plaintext database.                                        *)

(* Errors of this removal are ignored.                                     *)
Removed(f) == {Absent, f}

DiscardLeftover ==
    /\ Goto("convert", "checkpoint")
    /\ tmp' \in Removed(tmp)
    /\ UNCHANGED <<main, wal, kept, linked, keychain, reachable, memory, starts, saved>>

BusyIgnored ==
    /\ Goto("checkpoint", "export")
    /\ \/ main' = Plain(Contents) /\ wal' = Absent
       \/ UNCHANGED <<main, wal>>
    /\ expected' = Contents
    /\ UNCHANGED <<tmp, kept, linked, keychain, reachable, probed, key, goal, asks, starts, saved>>

(* The log is written into the file; closing the connection removes it.    *)
Checkpoint ==
    /\ Goto("checkpoint", "export")
    /\ main' = Plain(Contents) /\ wal' = Absent
    /\ expected' = Contents
    /\ UNCHANGED <<tmp, kept, linked, keychain, reachable, probed, key, goal, asks, starts, saved>>

(* An error, or the file is busy.                                          *)
CheckpointFails ==
    /\ Goto("checkpoint", "discard")
    /\ UNCHANGED <<disk, keychain, reachable, memory, starts, saved>>

(* A file already in the place of the copy makes the export fail.          *)
Export ==
    /\ Goto("export", "copying")
    /\ tmp.kind = "absent"
    /\ \E r \in SUBSET Contents : tmp' = Crypt(key, r)
    /\ UNCHANGED <<main, wal, kept, linked, keychain, reachable, memory, starts, saved>>

Copied ==
    /\ Goto("copying", "verify")
    /\ \E r \in SUBSET Contents : tmp.rows \subseteq r /\ tmp' = Crypt(key, r)
    /\ UNCHANGED <<main, wal, kept, linked, keychain, reachable, memory, starts, saved>>

CopyFails ==
    /\ \E at \in {"export", "copying"} : Goto(at, "discard")
    /\ UNCHANGED <<disk, keychain, reachable, memory, starts, saved>>

Verify ==
    /\ Goto("verify", IF tmp = Crypt(key, expected) THEN "swap" ELSE "discard")
    /\ UNCHANGED <<disk, keychain, reachable, memory, starts, saved>>

RemoveWal ==
    /\ Goto("swap", "install")
    /\ wal' = Absent
    /\ UNCHANGED <<main, tmp, kept, linked, keychain, reachable, memory, starts, saved>>

Install ==
    /\ Goto("install", "open")
    /\ main' = tmp /\ tmp' = Absent
    /\ UNCHANGED <<wal, kept, linked, keychain, reachable, memory, starts, saved>>

ConvertFails ==
    /\ \E at \in {"verify", "swap", "install"} : Goto(at, "discard")
    /\ UNCHANGED <<disk, keychain, reachable, memory, starts, saved>>

DiscardCopy ==
    /\ Abort("discard")
    /\ tmp' \in Removed(tmp)
    /\ UNCHANGED <<main, wal, kept, linked, keychain, reachable, memory, starts, saved>>

----------------------------------------------------------------------------
(* The running program, the end of the program, and the keychain.          *)

Store ==
    /\ pc = "running"
    /\ \E r \in Rows \ saved :
          /\ wal' = Crypt(main.key, wal.rows \cup {r})
          /\ saved' = saved \cup {r}
    /\ UNCHANGED <<main, tmp, kept, linked, keychain, reachable, pc, memory, starts>>

Close ==
    /\ Goto("running", "off")
    /\ LogWritten
    /\ UNCHANGED <<tmp, kept, linked, keychain, reachable, memory, starts, saved>>

Crash ==
    /\ pc # "off" /\ pc' = "off"
    /\ UNCHANGED <<disk, keychain, reachable, memory, starts, saved>>

KeychainTurns ==
    /\ reachable' = ~reachable
    /\ UNCHANGED <<disk, keychain, pc, memory, starts, saved>>

Next ==
    \/ Start \/ Look \/ LookFails \/ AnswerD1 \/ AnswerD4 \/ AnswerStartOver
    \/ SetWalAside \/ SetMainAside \/ RenameFails \/ GenerateKey \/ GenerateFails
    \/ CreateFresh \/ OpenReadable \/ OpenUnreadable \/ OpenFails
    \/ DiscardLeftover \/ Checkpoint \/ CheckpointFails \/ Export \/ Copied \/ CopyFails
    \/ Verify \/ RemoveWal \/ Install \/ ConvertFails \/ DiscardCopy
    \/ Store \/ Close \/ Crash \/ KeychainTurns

Spec == Init /\ [][Next]_vars

----------------------------------------------------------------------------

(* Nothing is deleted (spec 0101, A5 and A6): wherever the program ends,   *)
(* every row committed so far lies in the database, in a log that belongs  *)
(* to it, or in a file set aside.  An unfinished copy does not count.      *)
NothingLost ==
    saved \subseteq main.rows \cup (IF FitsMain(wal) THEN wal.rows ELSE {})
                    \cup UNION {f.rows : f \in kept}

(* A log never lies beside a database it was not written for, to which     *)
(* SQLite would apply it.                                                  *)
NoForeignWal == FitsMain(wal)

(* Once the root key in the keychain fits the database it goes on fitting, *)
(* in whatever order key and files are written and wherever that breaks    *)
(* off.                                                                    *)
Fits == main.kind = "crypt" => main.key = stored
KeyGoesOnFitting == [][Fits => Fits']_vars

(* A usable root key is never overwritten: the files set aside and the     *)
(* encrypted fields of the history would be lost with it.                  *)
KeyNeverOverwritten == [][(stored \in Keys) => (stored' = stored)]_vars

(* The promise to the user, see StoredData, read off the files: the        *)
(* database is its file with the log applied.  Conversion, with its copy   *)
(* that is checked and renamed into place, and starting over, with its two *)
(* renamings, appear as steps that happen or do not.                       *)
Abstract == INSTANCE StoredData WITH
    db <- [main EXCEPT !.rows = Contents],
    aside <- UNION {f.rows : f \in kept},
    rootKey <- stored

ImplementsStoredData == Abstract!Spec
=============================================================================
