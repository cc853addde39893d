----------------------- MODULE DatabaseStart_proofs -----------------------
(***************************************************************************)
(* Proofs about the start of the database, for any rows, any number of     *)
(* keys and of starts: no row is lost, no log lies beside a foreign        *)
(* database, a key once fitting goes on fitting and is never overwritten.  *)
(***************************************************************************)
EXTENDS DatabaseStart, TLAPS

(* The key in memory is the one in the keychain; where a new one is about  *)
(* to be generated there is none worth keeping and no database that needs  *)
(* it.                                                                     *)
KeyInv ==
    /\ pc \in {"open", "running"} \cup (Converting \ {"discard"}) => key = stored /\ key \in Keys
    /\ pc \in {"start_over", "rename_wal", "rename_main"} =>
          \/ key \in Keys /\ key = stored
          \/ key = NoKey /\ stored \notin Keys
    /\ pc \in {"d4", "generate"} => stored \notin Keys
    /\ pc = "d4" => goal = "convert"
    /\ pc \in {"d4", "generate"} /\ goal = "convert" => main.kind = "plain"
    /\ pc = "generate" /\ goal = "open" => main.kind = "absent"
    /\ pc \in {"start_over", "rename_wal", "rename_main"} => goal = "open"
    /\ pc = "open" /\ asks => goal = "open"
    /\ pc \in {"d4", "generate"} \cup Converting => asks = FALSE

(* Nothing hides in absent files, and before the copy takes the place of   *)
(* the original it is complete and no log is left.                         *)
DiskInv ==
    /\ main.kind = "absent" => main.rows = {}
    /\ wal.kind = "absent" => wal.rows = {}
    /\ pc = "rename_main" => wal.kind = "absent"
    /\ pc \in {"export", "copying", "verify", "swap", "install"} =>
          wal = Absent /\ expected = main.rows
    /\ pc \in {"swap", "install"} => tmp = Crypt(key, expected)
    /\ pc = "running" => main.kind = "crypt" /\ main.key = key

SavedInv == NothingLost /\ NoForeignWal

IInv == TypeOK /\ KeyInv /\ DiskInv /\ SavedInv

LEMMA Initially == Init => IInv
<1> SUFFICES ASSUME Init PROVE IInv
  OBVIOUS
<1> USE DatabaseAssumption
<1>1. main \in File /\ wal \in File /\ tmp \in File
  BY DEF Init, File, Kinds, Absent, Damaged, Plain, Crypt
<1>2. TypeOK
  <2>1. ({stored, main.key, tmp.key} \cap Keys) \subseteq used
    BY DEF Init, Absent, Damaged
  <2>2. saved \in SUBSET Rows /\ expected \in SUBSET Rows
    BY <1>1 DEF Init, Contents, File
  <2>3. used \in SUBSET Keys /\ kept \in SUBSET File /\ starts \in 0..MaxStarts
    BY DEF Init
  <2>4. pc \in Places /\ pc \notin Converting /\ goal \in {"open", "convert"}
    BY DEF Init, Places, Converting
  <2>5. linked \in BOOLEAN /\ reachable \in BOOLEAN
    BY DEF Init
  <2>7. probed = FALSE /\ asks = FALSE
    BY DEF Init
  <2>6. stored \in Entries /\ key \in Keys \cup {NoKey}
    BY DEF Init, Entries
  <2> QED
    BY <1>1, <2>1, <2>2, <2>3, <2>4, <2>5, <2>6, <2>7 DEF TypeOK
<1>3. KeyInv
  BY DEF Init, KeyInv, Converting
<1>4. DiskInv
  BY <1>1 DEF Init, DiskInv, Absent, Damaged, Plain, Crypt, File, Kinds
<1>5. SavedInv
  <2>1. FitsMain(wal)
    BY <1>1 DEF Init, FitsMain, SameDatabase, Absent, File
  <2> QED
    BY <2>1 DEF Init, SavedInv, NothingLost, NoForeignWal, Contents
<1> QED
  BY <1>2, <1>3, <1>4, <1>5 DEF IInv

(* A step that writes no file keeps what the files hold.                   *)
LEMMA DiskUntouched ==
    ASSUME SavedInv, UNCHANGED <<disk, saved>> PROVE SavedInv'
  BY DEF SavedInv, NothingLost, NoForeignWal, FitsMain, SameDatabase, disk

LEMMA Stepwise == IInv /\ [Next]_vars => IInv'
<1> SUFFICES ASSUME IInv, [Next]_vars PROVE IInv'
  OBVIOUS
<1> USE DatabaseAssumption
<1>1. CASE Start
  <2>1. starts' \in 0..MaxStarts
    BY <1>1 DEF IInv, TypeOK, Start
  <2>2. TypeOK'
    BY <1>1, <2>1 DEF IInv, TypeOK, Converting, Places, Start, Goto, vars, disk, keychain, memory
  <2>3. KeyInv'
    BY <1>1 DEF IInv, TypeOK, KeyInv, DiskInv, Converting, Entries, Start, Goto, vars, disk,
       keychain, memory, Absent
  <2>4. DiskInv'
    BY <1>1 DEF IInv, TypeOK, KeyInv, DiskInv, Converting, Start, Goto, vars, disk, keychain,
       memory, Absent, Crypt
  <2>5. SavedInv'
    BY <1>1, DiskUntouched DEF IInv, Start, vars, disk, keychain, memory
  <2> QED
    BY <2>2, <2>3, <2>4, <2>5 DEF IInv
<1>2. CASE Look
  <2>2. TypeOK'
    BY <1>2 DEF IInv, TypeOK, KeyInv, Converting, Places, Entries, Look, FileState, KeyState,
       DecideStartup, vars, disk, keychain, memory
  <2>3. KeyInv'
    <3>1. CASE KeyState = "present"
      <4>1. stored \in Keys /\ key' = stored /\ stored' = stored /\ main' = main
        BY <1>2, <3>1 DEF Look, KeyState, disk, keychain
      <4>2. (pc' = "open" /\ goal' = "open") \/ (pc' = "convert" /\ asks' = FALSE)
        BY <1>2, <3>1 DEF Look, DecideStartup, FileState
      <4> QED
        BY <4>1, <4>2 DEF KeyInv, Converting
    <3>2. CASE KeyState # "present"
      <4>1. stored' = stored /\ main' = main /\ key' = NoKey
        BY <1>2, <3>2 DEF Look, disk, keychain
      <4>2. pc' = "d1" \/ (stored \notin Keys /\ pc' \in {"d4", "start_over", "generate"})
        BY <1>2, <3>2 DEF Look, KeyState, DecideStartup
      <4>3. pc' = "d4" => FileState = "plaintext"
        BY <1>2, <3>2 DEF Look, DecideStartup
      <4>4. pc' = "start_over" => FileState # "plaintext"
        BY <1>2, <3>2 DEF Look, DecideStartup, FileState
      <4>5. pc' = "generate" => FileState # "other"
        BY <1>2, <3>2 DEF Look, DecideStartup, FileState
      <4> QED
        BY <1>2, <4>1, <4>2, <4>3, <4>4, <4>5 DEF Look, FileState, KeyInv, Converting
    <3> QED
      BY <3>1, <3>2
  <2>4. DiskInv'
    BY <1>2 DEF IInv, TypeOK, KeyInv, DiskInv, Converting, Look, FileState, KeyState,
       DecideStartup, vars, disk, keychain, memory, Absent, Crypt
  <2>5. SavedInv'
    BY <1>2, DiskUntouched DEF IInv, Look, vars, disk, keychain, memory
  <2> QED
    BY <2>2, <2>3, <2>4, <2>5 DEF IInv
<1>3. CASE LookFails
  <2>2. TypeOK'
    BY <1>3 DEF IInv, TypeOK, KeyInv, Converting, Places, Entries, LookFails, Goto, Abort,
       vars, disk, keychain, memory
  <2>3. KeyInv'
    BY <1>3 DEF IInv, TypeOK, KeyInv, DiskInv, Converting, Entries, LookFails, Goto, Abort,
       vars, disk, keychain, memory, Absent
  <2>4. DiskInv'
    BY <1>3 DEF IInv, TypeOK, KeyInv, DiskInv, Converting, LookFails, Goto, Abort, vars, disk,
       keychain, memory, Absent, Crypt
  <2>5. SavedInv'
    BY <1>3, DiskUntouched DEF IInv, LookFails, vars, disk, keychain, memory
  <2> QED
    BY <2>2, <2>3, <2>4, <2>5 DEF IInv
<1>4. CASE AnswerD1
  <2>2. TypeOK'
    BY <1>4 DEF IInv, TypeOK, KeyInv, Converting, Places, Entries, AnswerD1, Goto, Abort, vars,
       disk, keychain, memory
  <2>3. KeyInv'
    BY <1>4 DEF IInv, TypeOK, KeyInv, DiskInv, Converting, Entries, AnswerD1, Goto, Abort,
       vars, disk, keychain, memory, Absent
  <2>4. DiskInv'
    BY <1>4 DEF IInv, TypeOK, KeyInv, DiskInv, Converting, AnswerD1, Goto, Abort, vars, disk,
       keychain, memory, Absent, Crypt
  <2>5. SavedInv'
    BY <1>4, DiskUntouched DEF IInv, AnswerD1, vars, disk, keychain, memory
  <2> QED
    BY <2>2, <2>3, <2>4, <2>5 DEF IInv
<1>5. CASE AnswerD4
  <2>2. TypeOK'
    BY <1>5 DEF IInv, TypeOK, KeyInv, Converting, Places, Entries, AnswerD4, Goto, Abort, vars,
       disk, keychain, memory
  <2>3. KeyInv'
    BY <1>5 DEF IInv, TypeOK, KeyInv, DiskInv, Converting, Entries, AnswerD4, Goto, Abort,
       vars, disk, keychain, memory, Absent
  <2>4. DiskInv'
    BY <1>5 DEF IInv, TypeOK, KeyInv, DiskInv, Converting, AnswerD4, Goto, Abort, vars, disk,
       keychain, memory, Absent, Crypt
  <2>5. SavedInv'
    BY <1>5, DiskUntouched DEF IInv, AnswerD4, vars, disk, keychain, memory
  <2> QED
    BY <2>2, <2>3, <2>4, <2>5 DEF IInv
<1>6. CASE AnswerStartOver
  <2>2. TypeOK'
    BY <1>6 DEF IInv, TypeOK, KeyInv, Converting, Places, Entries, AnswerStartOver, Goto,
       Abort, vars, disk, keychain, memory
  <2>3. KeyInv'
    BY <1>6 DEF IInv, TypeOK, KeyInv, DiskInv, Converting, Entries, AnswerStartOver, Goto,
       Abort, vars, disk, keychain, memory, Absent
  <2>4. DiskInv'
    BY <1>6 DEF IInv, TypeOK, KeyInv, DiskInv, Converting, AnswerStartOver, Goto, Abort, vars,
       disk, keychain, memory, Absent, Crypt
  <2>5. SavedInv'
    BY <1>6, DiskUntouched DEF IInv, AnswerStartOver, vars, disk, keychain, memory
  <2> QED
    BY <2>2, <2>3, <2>4, <2>5 DEF IInv
<1>7. CASE SetWalAside
  <2>1. main' \in File /\ wal' \in File /\ tmp' \in File /\ kept' \in SUBSET File
    BY <1>7 DEF IInv, TypeOK, KeyInv, DiskInv, Converting, SetWalAside, Goto, Setting, vars,
       disk, keychain, memory, File, Kinds, Absent
  <2>2. TypeOK'
    BY <1>7, <2>1 DEF IInv, TypeOK, KeyInv, DiskInv, Converting, Places, Entries, SetWalAside,
       Goto, Setting, vars, disk, keychain, memory, Absent
  <2>3. KeyInv'
    BY <1>7 DEF IInv, TypeOK, KeyInv, DiskInv, Converting, Entries, SetWalAside, Goto, Setting,
       vars, disk, keychain, memory, Absent
  <2>4. DiskInv'
    BY <1>7, <2>1 DEF IInv, TypeOK, KeyInv, DiskInv, Converting, SetWalAside, Goto, Setting,
       vars, disk, keychain, memory, Absent, Crypt
  <2>5. SavedInv'
    BY <1>7, <2>1 DEF IInv, TypeOK, KeyInv, DiskInv, SavedInv, NothingLost, NoForeignWal,
       FitsMain, SameDatabase, Contents, SetWalAside, Goto, Setting, vars, disk, keychain,
       memory, Absent, Crypt, File
  <2> QED
    BY <2>2, <2>3, <2>4, <2>5 DEF IInv
<1>8. CASE SetMainAside
  <2>1. main' \in File /\ wal' \in File /\ tmp' \in File /\ kept' \in SUBSET File
    BY <1>8 DEF IInv, TypeOK, KeyInv, DiskInv, Converting, SetMainAside, Goto, Setting, vars,
       disk, keychain, memory, File, Kinds, Absent
  <2>2. TypeOK'
    BY <1>8, <2>1 DEF IInv, TypeOK, KeyInv, DiskInv, Converting, Places, Entries, SetMainAside,
       Goto, Setting, vars, disk, keychain, memory, Absent
  <2>3. KeyInv'
    BY <1>8 DEF IInv, TypeOK, KeyInv, DiskInv, Converting, Entries, SetMainAside, Goto,
       Setting, vars, disk, keychain, memory, Absent
  <2>4. DiskInv'
    BY <1>8, <2>1 DEF IInv, TypeOK, KeyInv, DiskInv, Converting, SetMainAside, Goto, Setting,
       vars, disk, keychain, memory, Absent, Crypt
  <2>5. SavedInv'
    BY <1>8, <2>1 DEF IInv, TypeOK, KeyInv, DiskInv, SavedInv, NothingLost, NoForeignWal,
       FitsMain, SameDatabase, Contents, SetMainAside, Goto, Setting, vars, disk, keychain,
       memory, Absent, Crypt, File
  <2> QED
    BY <2>2, <2>3, <2>4, <2>5 DEF IInv
<1>9. CASE RenameFails
  <2>2. TypeOK'
    BY <1>9 DEF IInv, TypeOK, KeyInv, Converting, Places, Entries, RenameFails, Goto, Abort,
       vars, disk, keychain, memory
  <2>3. KeyInv'
    BY <1>9 DEF IInv, TypeOK, KeyInv, DiskInv, Converting, Entries, RenameFails, Goto, Abort,
       vars, disk, keychain, memory, Absent
  <2>4. DiskInv'
    BY <1>9 DEF IInv, TypeOK, KeyInv, DiskInv, Converting, RenameFails, Goto, Abort, vars,
       disk, keychain, memory, Absent, Crypt
  <2>5. SavedInv'
    BY <1>9, DiskUntouched DEF IInv, RenameFails, vars, disk, keychain, memory
  <2> QED
    BY <2>2, <2>3, <2>4, <2>5 DEF IInv
<1>10. CASE GenerateKey
  <2>2. TypeOK'
    BY <1>10 DEF IInv, TypeOK, KeyInv, Converting, Places, Entries, GenerateKey, Goto, vars,
       disk, keychain, memory
  <2>3. KeyInv'
    BY <1>10 DEF IInv, TypeOK, KeyInv, DiskInv, Converting, Entries, GenerateKey, Goto, vars,
       disk, keychain, memory, Absent
  <2>4. DiskInv'
    BY <1>10 DEF IInv, TypeOK, KeyInv, DiskInv, Converting, GenerateKey, Goto, vars, disk,
       keychain, memory, Absent, Crypt
  <2>5. SavedInv'
    BY <1>10, DiskUntouched DEF IInv, GenerateKey, vars, disk, keychain, memory
  <2> QED
    BY <2>2, <2>3, <2>4, <2>5 DEF IInv
<1>11. CASE GenerateFails
  <2>2. TypeOK'
    BY <1>11 DEF IInv, TypeOK, KeyInv, Converting, Places, Entries, GenerateFails, Goto, Abort,
       vars, disk, keychain, memory
  <2>3. KeyInv'
    BY <1>11 DEF IInv, TypeOK, KeyInv, DiskInv, Converting, Entries, GenerateFails, Goto,
       Abort, vars, disk, keychain, memory, Absent
  <2>4. DiskInv'
    BY <1>11 DEF IInv, TypeOK, KeyInv, DiskInv, Converting, GenerateFails, Goto, Abort, vars,
       disk, keychain, memory, Absent, Crypt
  <2>5. SavedInv'
    BY <1>11, DiskUntouched DEF IInv, GenerateFails, vars, disk, keychain, memory
  <2> QED
    BY <2>2, <2>3, <2>4, <2>5 DEF IInv
<1>12. CASE CreateFresh
  <2>1. main' \in File /\ wal' \in File /\ tmp' \in File /\ kept' \in SUBSET File
    BY <1>12 DEF IInv, TypeOK, KeyInv, DiskInv, Converting, CreateFresh, Goto, Crypt, vars,
       disk, keychain, memory, File, Kinds, Absent
  <2>2. TypeOK'
    BY <1>12, <2>1 DEF IInv, TypeOK, KeyInv, DiskInv, Converting, Places, Entries, CreateFresh,
       Goto, Crypt, vars, disk, keychain, memory, Absent
  <2>3. KeyInv'
    BY <1>12 DEF IInv, TypeOK, KeyInv, DiskInv, Converting, Entries, CreateFresh, Goto, Crypt,
       vars, disk, keychain, memory, Absent
  <2>4. DiskInv'
    BY <1>12, <2>1 DEF IInv, TypeOK, KeyInv, DiskInv, Converting, CreateFresh, Goto, Crypt,
       vars, disk, keychain, memory, Absent, Crypt
  <2>5. SavedInv'
    BY <1>12, <2>1 DEF IInv, TypeOK, KeyInv, DiskInv, SavedInv, NothingLost, NoForeignWal,
       FitsMain, SameDatabase, Contents, CreateFresh, Goto, Crypt, vars, disk, keychain,
       memory, Absent, Crypt, File
  <2> QED
    BY <2>2, <2>3, <2>4, <2>5 DEF IInv
<1>13. CASE OpenReadable
  <2>2. TypeOK'
    BY <1>13 DEF IInv, TypeOK, KeyInv, Converting, Places, Entries, OpenReadable, Goto,
       Readable, vars, disk, keychain, memory
  <2>3. KeyInv'
    BY <1>13 DEF IInv, TypeOK, KeyInv, DiskInv, Converting, Entries, OpenReadable, Goto,
       Readable, vars, disk, keychain, memory, Absent
  <2>4. DiskInv'
    BY <1>13 DEF IInv, TypeOK, KeyInv, DiskInv, Converting, OpenReadable, Goto, Readable, vars,
       disk, keychain, memory, Absent, Crypt
  <2>5. SavedInv'
    BY <1>13, DiskUntouched DEF IInv, OpenReadable, vars, disk, keychain, memory
  <2> QED
    BY <2>2, <2>3, <2>4, <2>5 DEF IInv
<1>14. CASE OpenUnreadable \/ OpenFails
  <2>1. /\ pc = "open" /\ pc' \in {"off", "start_over"} /\ (pc' = "start_over" => asks)
        /\ ConnectionClosed
        /\ UNCHANGED <<tmp, kept, linked, keychain, reachable, memory, starts, saved>>
    BY <1>14 DEF OpenUnreadable, OpenFails, Goto, Abort
  <2>2. KeyInv'
    BY <2>1 DEF IInv, KeyInv, Converting, keychain, memory
  <2>3. CASE UNCHANGED <<main, wal>>
    <3>1. TypeOK'
      BY <2>1, <2>3 DEF IInv, TypeOK, Converting, Places, keychain, memory
    <3>2. DiskInv'
      BY <2>1, <2>3 DEF IInv, DiskInv, keychain, memory
    <3>3. SavedInv'
      BY <2>1, <2>3, DiskUntouched DEF IInv, disk
    <3> QED
      BY <2>2, <3>1, <3>2, <3>3 DEF IInv
  <2>4. CASE Readable(key) /\ LogWritten
    <3>1. /\ main' \in File /\ main'.kind = "crypt" /\ main'.key = main.key
          /\ main'.rows = main.rows \cup wal.rows /\ wal' = Absent
      BY <2>4 DEF IInv, TypeOK, Readable, LogWritten, Contents, File
    <3>2. TypeOK'
      <4>1. wal' \in File
        BY <3>1 DEF Absent, File, Kinds
      <4>2. pc' \in Places /\ pc' \notin Converting
        BY <2>1 DEF Places, Converting
      <4> QED
        BY <2>1, <3>1, <4>1, <4>2 DEF IInv, TypeOK, keychain, memory
    <3>3. DiskInv'
      BY <2>1, <3>1 DEF DiskInv, Absent
    <3>4. SavedInv'
      BY <2>1, <3>1 DEF IInv, SavedInv, NothingLost, NoForeignWal, FitsMain, Absent
    <3> QED
      BY <2>2, <3>2, <3>3, <3>4 DEF IInv
  <2> QED
    BY <2>1, <2>3, <2>4 DEF ConnectionClosed
<1>16. CASE DiscardLeftover
  <2>1. main' \in File /\ wal' \in File /\ tmp' \in File /\ kept' \in SUBSET File
    BY <1>16 DEF IInv, TypeOK, KeyInv, DiskInv, Converting, DiscardLeftover, Goto, Removed,
       vars, disk, keychain, memory, File, Kinds, Absent
  <2>2. TypeOK'
    BY <1>16, <2>1 DEF IInv, TypeOK, KeyInv, DiskInv, Converting, Places, Entries,
       DiscardLeftover, Goto, Removed, vars, disk, keychain, memory, Absent
  <2>3. KeyInv'
    BY <1>16 DEF IInv, TypeOK, KeyInv, DiskInv, Converting, Entries, DiscardLeftover, Goto,
       Removed, vars, disk, keychain, memory, Absent
  <2>4. DiskInv'
    BY <1>16, <2>1 DEF IInv, TypeOK, KeyInv, DiskInv, Converting, DiscardLeftover, Goto,
       Removed, vars, disk, keychain, memory, Absent, Crypt
  <2>5. SavedInv'
    BY <1>16, <2>1 DEF IInv, TypeOK, KeyInv, DiskInv, SavedInv, NothingLost, NoForeignWal,
       FitsMain, SameDatabase, Contents, DiscardLeftover, Goto, Removed, vars, disk, keychain,
       memory, Absent, Crypt, File
  <2> QED
    BY <2>2, <2>3, <2>4, <2>5 DEF IInv
<1>17. CASE Checkpoint
  <2>1. main' \in File /\ wal' \in File /\ tmp' \in File /\ kept' \in SUBSET File
    BY <1>17 DEF IInv, TypeOK, KeyInv, DiskInv, Converting, Checkpoint, Goto, Contents, Plain,
       vars, disk, keychain, memory, File, Kinds, Absent
  <2>2. TypeOK'
    BY <1>17, <2>1 DEF IInv, TypeOK, KeyInv, DiskInv, Converting, Places, Entries, Checkpoint,
       Goto, Contents, Plain, vars, disk, keychain, memory, Absent, Plain, File
  <2>3. KeyInv'
    BY <1>17 DEF IInv, TypeOK, KeyInv, DiskInv, Converting, Entries, Checkpoint, Goto,
       Contents, Plain, vars, disk, keychain, memory, Absent
  <2>4. DiskInv'
    BY <1>17, <2>1 DEF IInv, TypeOK, KeyInv, DiskInv, Converting, Checkpoint, Goto, Contents,
       Plain, vars, disk, keychain, memory, Absent, Crypt
  <2>5. SavedInv'
    BY <1>17, <2>1 DEF IInv, TypeOK, KeyInv, DiskInv, SavedInv, NothingLost, NoForeignWal,
       FitsMain, SameDatabase, Contents, Checkpoint, Goto, Contents, Plain, vars, disk,
       keychain, memory, Absent, Crypt, File
  <2> QED
    BY <2>2, <2>3, <2>4, <2>5 DEF IInv
<1>18. CASE CheckpointFails
  <2>2. TypeOK'
    BY <1>18 DEF IInv, TypeOK, KeyInv, Converting, Places, Entries, CheckpointFails, Goto,
       vars, disk, keychain, memory
  <2>3. KeyInv'
    BY <1>18 DEF IInv, TypeOK, KeyInv, DiskInv, Converting, Entries, CheckpointFails, Goto,
       vars, disk, keychain, memory, Absent
  <2>4. DiskInv'
    BY <1>18 DEF IInv, TypeOK, KeyInv, DiskInv, Converting, CheckpointFails, Goto, vars, disk,
       keychain, memory, Absent, Crypt
  <2>5. SavedInv'
    BY <1>18, DiskUntouched DEF IInv, CheckpointFails, vars, disk, keychain, memory
  <2> QED
    BY <2>2, <2>3, <2>4, <2>5 DEF IInv
<1>19. CASE Export
  <2>1. main' \in File /\ wal' \in File /\ tmp' \in File /\ kept' \in SUBSET File
    BY <1>19 DEF IInv, TypeOK, KeyInv, DiskInv, Converting, Export, Goto, Crypt, Contents,
       vars, disk, keychain, memory, File, Kinds, Absent
  <2>2. TypeOK'
    BY <1>19, <2>1 DEF IInv, TypeOK, KeyInv, DiskInv, Converting, Places, Entries, Export,
       Goto, Crypt, Contents, vars, disk, keychain, memory, Absent
  <2>3. KeyInv'
    BY <1>19 DEF IInv, TypeOK, KeyInv, DiskInv, Converting, Entries, Export, Goto, Crypt,
       Contents, vars, disk, keychain, memory, Absent
  <2>4. DiskInv'
    BY <1>19, <2>1 DEF IInv, TypeOK, KeyInv, DiskInv, Converting, Export, Goto, Crypt,
       Contents, vars, disk, keychain, memory, Absent, Crypt
  <2>5. SavedInv'
    BY <1>19, <2>1 DEF IInv, TypeOK, KeyInv, DiskInv, SavedInv, NothingLost, NoForeignWal,
       FitsMain, SameDatabase, Contents, Export, Goto, Crypt, Contents, vars, disk, keychain,
       memory, Absent, Crypt, File
  <2> QED
    BY <2>2, <2>3, <2>4, <2>5 DEF IInv
<1>20. CASE Copied
  <2>1. main' \in File /\ wal' \in File /\ tmp' \in File /\ kept' \in SUBSET File
    BY <1>20 DEF IInv, TypeOK, KeyInv, DiskInv, Converting, Copied, Goto, Crypt, Contents,
       vars, disk, keychain, memory, File, Kinds, Absent
  <2>2. TypeOK'
    BY <1>20, <2>1 DEF IInv, TypeOK, KeyInv, DiskInv, Converting, Places, Entries, Copied,
       Goto, Crypt, Contents, vars, disk, keychain, memory, Absent
  <2>3. KeyInv'
    BY <1>20 DEF IInv, TypeOK, KeyInv, DiskInv, Converting, Entries, Copied, Goto, Crypt,
       Contents, vars, disk, keychain, memory, Absent
  <2>4. DiskInv'
    BY <1>20, <2>1 DEF IInv, TypeOK, KeyInv, DiskInv, Converting, Copied, Goto, Crypt,
       Contents, vars, disk, keychain, memory, Absent, Crypt
  <2>5. SavedInv'
    BY <1>20, <2>1 DEF IInv, TypeOK, KeyInv, DiskInv, SavedInv, NothingLost, NoForeignWal,
       FitsMain, SameDatabase, Contents, Copied, Goto, Crypt, Contents, vars, disk, keychain,
       memory, Absent, Crypt, File
  <2> QED
    BY <2>2, <2>3, <2>4, <2>5 DEF IInv
<1>21. CASE CopyFails
  <2>2. TypeOK'
    BY <1>21 DEF IInv, TypeOK, KeyInv, Converting, Places, Entries, CopyFails, Goto, vars,
       disk, keychain, memory
  <2>3. KeyInv'
    BY <1>21 DEF IInv, TypeOK, KeyInv, DiskInv, Converting, Entries, CopyFails, Goto, vars,
       disk, keychain, memory, Absent
  <2>4. DiskInv'
    BY <1>21 DEF IInv, TypeOK, KeyInv, DiskInv, Converting, CopyFails, Goto, vars, disk,
       keychain, memory, Absent, Crypt
  <2>5. SavedInv'
    BY <1>21, DiskUntouched DEF IInv, CopyFails, vars, disk, keychain, memory
  <2> QED
    BY <2>2, <2>3, <2>4, <2>5 DEF IInv
<1>22. CASE Verify
  <2>2. TypeOK'
    BY <1>22 DEF IInv, TypeOK, KeyInv, Converting, Places, Entries, Verify, Goto, Crypt, vars,
       disk, keychain, memory
  <2>3. KeyInv'
    BY <1>22 DEF IInv, TypeOK, KeyInv, DiskInv, Converting, Entries, Verify, Goto, Crypt, vars,
       disk, keychain, memory, Absent
  <2>4. DiskInv'
    BY <1>22 DEF IInv, TypeOK, KeyInv, DiskInv, Converting, Verify, Goto, Crypt, vars, disk,
       keychain, memory, Absent, Crypt
  <2>5. SavedInv'
    BY <1>22, DiskUntouched DEF IInv, Verify, vars, disk, keychain, memory
  <2> QED
    BY <2>2, <2>3, <2>4, <2>5 DEF IInv
<1>23. CASE RemoveWal
  <2>1. main' \in File /\ wal' \in File /\ tmp' \in File /\ kept' \in SUBSET File
    BY <1>23 DEF IInv, TypeOK, KeyInv, DiskInv, Converting, RemoveWal, Goto, vars, disk,
       keychain, memory, File, Kinds, Absent
  <2>2. TypeOK'
    BY <1>23, <2>1 DEF IInv, TypeOK, KeyInv, DiskInv, Converting, Places, Entries, RemoveWal,
       Goto, vars, disk, keychain, memory, Absent
  <2>3. KeyInv'
    BY <1>23 DEF IInv, TypeOK, KeyInv, DiskInv, Converting, Entries, RemoveWal, Goto, vars,
       disk, keychain, memory, Absent
  <2>4. DiskInv'
    BY <1>23, <2>1 DEF IInv, TypeOK, KeyInv, DiskInv, Converting, RemoveWal, Goto, vars, disk,
       keychain, memory, Absent, Crypt
  <2>5. SavedInv'
    BY <1>23, <2>1 DEF IInv, TypeOK, KeyInv, DiskInv, SavedInv, NothingLost, NoForeignWal,
       FitsMain, SameDatabase, Contents, RemoveWal, Goto, vars, disk, keychain, memory, Absent,
       Crypt, File
  <2> QED
    BY <2>2, <2>3, <2>4, <2>5 DEF IInv
<1>24. CASE Install
  <2>1. main' \in File /\ wal' \in File /\ tmp' \in File /\ kept' \in SUBSET File
    BY <1>24 DEF IInv, TypeOK, KeyInv, DiskInv, Converting, Install, Goto, vars, disk,
       keychain, memory, File, Kinds, Absent
  <2>2. TypeOK'
    BY <1>24, <2>1 DEF IInv, TypeOK, KeyInv, DiskInv, Converting, Places, Entries, Install,
       Goto, vars, disk, keychain, memory, Absent
  <2>3. KeyInv'
    BY <1>24 DEF IInv, TypeOK, KeyInv, DiskInv, Converting, Entries, Install, Goto, vars, disk,
       keychain, memory, Absent
  <2>4. DiskInv'
    BY <1>24, <2>1 DEF IInv, TypeOK, KeyInv, DiskInv, Converting, Install, Goto, vars, disk,
       keychain, memory, Absent, Crypt
  <2>5. SavedInv'
    BY <1>24, <2>1 DEF IInv, TypeOK, KeyInv, DiskInv, SavedInv, NothingLost, NoForeignWal,
       FitsMain, SameDatabase, Contents, Install, Goto, vars, disk, keychain, memory, Absent,
       Crypt, File
  <2> QED
    BY <2>2, <2>3, <2>4, <2>5 DEF IInv
<1>25. CASE ConvertFails
  <2>2. TypeOK'
    BY <1>25 DEF IInv, TypeOK, KeyInv, Converting, Places, Entries, ConvertFails, Goto, vars,
       disk, keychain, memory
  <2>3. KeyInv'
    BY <1>25 DEF IInv, TypeOK, KeyInv, DiskInv, Converting, Entries, ConvertFails, Goto, vars,
       disk, keychain, memory, Absent
  <2>4. DiskInv'
    BY <1>25 DEF IInv, TypeOK, KeyInv, DiskInv, Converting, ConvertFails, Goto, vars, disk,
       keychain, memory, Absent, Crypt
  <2>5. SavedInv'
    BY <1>25, DiskUntouched DEF IInv, ConvertFails, vars, disk, keychain, memory
  <2> QED
    BY <2>2, <2>3, <2>4, <2>5 DEF IInv
<1>26. CASE DiscardCopy
  <2>1. main' \in File /\ wal' \in File /\ tmp' \in File /\ kept' \in SUBSET File
    BY <1>26 DEF IInv, TypeOK, KeyInv, DiskInv, Converting, DiscardCopy, Goto, Abort, Removed,
       vars, disk, keychain, memory, File, Kinds, Absent
  <2>2. TypeOK'
    BY <1>26, <2>1 DEF IInv, TypeOK, KeyInv, DiskInv, Converting, Places, Entries, DiscardCopy,
       Goto, Abort, Removed, vars, disk, keychain, memory, Absent
  <2>3. KeyInv'
    BY <1>26 DEF IInv, TypeOK, KeyInv, DiskInv, Converting, Entries, DiscardCopy, Goto, Abort,
       Removed, vars, disk, keychain, memory, Absent
  <2>4. DiskInv'
    BY <1>26, <2>1 DEF IInv, TypeOK, KeyInv, DiskInv, Converting, DiscardCopy, Goto, Abort,
       Removed, vars, disk, keychain, memory, Absent, Crypt
  <2>5. SavedInv'
    BY <1>26, <2>1 DEF IInv, TypeOK, KeyInv, DiskInv, SavedInv, NothingLost, NoForeignWal,
       FitsMain, SameDatabase, Contents, DiscardCopy, Goto, Abort, Removed, vars, disk,
       keychain, memory, Absent, Crypt, File
  <2> QED
    BY <2>2, <2>3, <2>4, <2>5 DEF IInv
<1>27. CASE Store
  <2>1. main' \in File /\ wal' \in File /\ tmp' \in File /\ kept' \in SUBSET File
    BY <1>27 DEF IInv, TypeOK, KeyInv, DiskInv, Converting, Store, Crypt, vars, disk, keychain,
       memory, File, Kinds, Absent
  <2>2. TypeOK'
    BY <1>27, <2>1 DEF IInv, TypeOK, KeyInv, DiskInv, Converting, Places, Entries, Store,
       Crypt, vars, disk, keychain, memory, Absent
  <2>3. KeyInv'
    BY <1>27 DEF IInv, TypeOK, KeyInv, DiskInv, Converting, Entries, Store, Crypt, vars, disk,
       keychain, memory, Absent
  <2>4. DiskInv'
    BY <1>27, <2>1 DEF IInv, TypeOK, KeyInv, DiskInv, Converting, Store, Crypt, vars, disk,
       keychain, memory, Absent, Crypt
  <2>5. SavedInv'
    BY <1>27, <2>1 DEF IInv, TypeOK, KeyInv, DiskInv, SavedInv, NothingLost, NoForeignWal,
       FitsMain, SameDatabase, Contents, Store, Crypt, vars, disk, keychain, memory, Absent,
       Crypt, File
  <2> QED
    BY <2>2, <2>3, <2>4, <2>5 DEF IInv
<1>28. CASE Close
  <2>1. main' \in File /\ wal' \in File /\ tmp' \in File /\ kept' \in SUBSET File
    BY <1>28 DEF IInv, TypeOK, KeyInv, DiskInv, Converting, Close, LogWritten, Goto, Abort, Contents, vars,
       disk, keychain, memory, File, Kinds, Absent
  <2>2. TypeOK'
    BY <1>28, <2>1 DEF IInv, TypeOK, KeyInv, DiskInv, Converting, Places, Entries, Close, LogWritten,
       Goto, Abort, Contents, vars, disk, keychain, memory, Absent
  <2>3. KeyInv'
    BY <1>28 DEF IInv, TypeOK, KeyInv, DiskInv, Converting, Entries, Close, LogWritten, Goto, Abort,
       Contents, vars, disk, keychain, memory, Absent
  <2>4. DiskInv'
    BY <1>28, <2>1 DEF IInv, TypeOK, KeyInv, DiskInv, Converting, Close, LogWritten, Goto, Abort, Contents,
       vars, disk, keychain, memory, Absent, Crypt
  <2>5. SavedInv'
    BY <1>28, <2>1 DEF IInv, TypeOK, KeyInv, DiskInv, SavedInv, NothingLost, NoForeignWal,
       FitsMain, SameDatabase, Contents, Close, LogWritten, Goto, Abort, Contents, vars, disk, keychain,
       memory, Absent, Crypt, File
  <2> QED
    BY <2>2, <2>3, <2>4, <2>5 DEF IInv
<1>29. CASE Crash
  <2>2. TypeOK'
    BY <1>29 DEF IInv, TypeOK, KeyInv, Converting, Places, Entries, Crash, vars, disk,
       keychain, memory
  <2>3. KeyInv'
    BY <1>29 DEF IInv, TypeOK, KeyInv, DiskInv, Converting, Entries, Crash, vars, disk,
       keychain, memory, Absent
  <2>4. DiskInv'
    BY <1>29 DEF IInv, TypeOK, KeyInv, DiskInv, Converting, Crash, vars, disk, keychain,
       memory, Absent, Crypt
  <2>5. SavedInv'
    BY <1>29, DiskUntouched DEF IInv, Crash, vars, disk, keychain, memory
  <2> QED
    BY <2>2, <2>3, <2>4, <2>5 DEF IInv
<1>30. CASE KeychainTurns
  <2>2. TypeOK'
    BY <1>30 DEF IInv, TypeOK, KeyInv, Converting, Places, Entries, KeychainTurns, vars, disk,
       keychain, memory
  <2>3. KeyInv'
    BY <1>30 DEF IInv, TypeOK, KeyInv, DiskInv, Converting, Entries, KeychainTurns, vars, disk,
       keychain, memory, Absent
  <2>4. DiskInv'
    BY <1>30 DEF IInv, TypeOK, KeyInv, DiskInv, Converting, KeychainTurns, vars, disk,
       keychain, memory, Absent, Crypt
  <2>5. SavedInv'
    BY <1>30, DiskUntouched DEF IInv, KeychainTurns, vars, disk, keychain, memory
  <2> QED
    BY <2>2, <2>3, <2>4, <2>5 DEF IInv
<1>31. CASE UNCHANGED vars
  <2>1. TypeOK' /\ KeyInv' /\ DiskInv'
    BY <1>31 DEF IInv, TypeOK, KeyInv, DiskInv, vars, disk, keychain, memory
  <2>2. SavedInv'
    BY <1>31, DiskUntouched DEF IInv, vars, disk, keychain, memory
  <2> QED
    BY <2>1, <2>2 DEF IInv
<1> QED
  BY <1>1, <1>2, <1>3, <1>4, <1>5, <1>6, <1>7, <1>8, <1>9, <1>10, <1>11, <1>12, <1>13, <1>14,
     <1>16, <1>17, <1>18, <1>19, <1>20, <1>21, <1>22, <1>23, <1>24, <1>25, <1>26, <1>27,
     <1>28, <1>29, <1>30, <1>31 DEF Next

LEMMA Inductive == Spec => []IInv
  BY Initially, Stepwise, PTL DEF Spec

(* Every variable has its type, and the conversion works on a plaintext    *)
(* file only.                                                              *)
THEOREM TypeCorrect == Spec => []TypeOK
<1>1. IInv => TypeOK
  BY DEF IInv
<1> QED
  BY <1>1, Inductive, PTL

(* Wherever the program ends, every committed row is in the database, in   *)
(* its log or in a file set aside.                                         *)
THEOREM NoRowLost == Spec => []NothingLost
<1>1. IInv => NothingLost
  BY DEF IInv, SavedInv
<1> QED
  BY <1>1, Inductive, PTL

(* No log lies beside a database it was not written for.                   *)
THEOREM LogsFit == Spec => []NoForeignWal
<1>1. IInv => NoForeignWal
  BY DEF IInv, SavedInv
<1> QED
  BY <1>1, Inductive, PTL

(* A root key that fits the database goes on fitting it.                   *)
THEOREM KeyFits == Spec => KeyGoesOnFitting
<1>1. IInv /\ [Next]_vars => (Fits => Fits')
  <2> SUFFICES ASSUME IInv, [Next]_vars, Fits PROVE Fits'
    OBVIOUS
  <2>1. CASE main' = main /\ stored' = stored
    BY <2>1 DEF Fits
  <2>2. CASE GenerateKey
    BY <2>2 DEF IInv, TypeOK, KeyInv, Fits, GenerateKey, Goto, disk
  <2>3. CASE CreateFresh
    BY <2>3 DEF IInv, KeyInv, Fits, CreateFresh, Goto, Crypt, keychain
  <2>4. CASE Install
    BY <2>4 DEF IInv, KeyInv, DiskInv, Converting, Fits, Install, Goto, Crypt, keychain
  <2>5. CASE SetMainAside \/ Checkpoint
    BY <2>5 DEF Fits, SetMainAside, Checkpoint, Absent, Plain
  <2>6. CASE Close \/ ((OpenUnreadable \/ OpenFails) /\ LogWritten)
    BY <2>6 DEF IInv, TypeOK, File, Fits, Close, OpenUnreadable, OpenFails, LogWritten, keychain
  <2> QED
    BY <2>1, <2>2, <2>3, <2>4, <2>5, <2>6 DEF Next, vars, disk, keychain, Start, Look, LookFails,
       AnswerD1, AnswerD4, AnswerStartOver, SetWalAside, RenameFails, GenerateFails, OpenReadable,
       OpenUnreadable, OpenFails, ConnectionClosed, DiscardLeftover, CheckpointFails, Export,
       Copied, CopyFails, Verify, RemoveWal, ConvertFails, DiscardCopy, Store, Crash,
       KeychainTurns
<1> QED
  BY <1>1, Inductive, PTL DEF Spec, KeyGoesOnFitting

(* A usable root key in the keychain is never overwritten.                 *)
THEOREM KeyKept == Spec => KeyNeverOverwritten
<1>1. IInv /\ [Next]_vars => (stored \in Keys => stored' = stored)
  <2> SUFFICES ASSUME IInv, [Next]_vars, stored \in Keys PROVE stored' = stored
    OBVIOUS
  <2>1. ~GenerateKey
    BY DEF IInv, KeyInv, GenerateKey, Goto
  <2> QED
    BY <2>1 DEF Next, vars, keychain, Start, Look, LookFails, AnswerD1, AnswerD4,
       AnswerStartOver, SetWalAside, SetMainAside, RenameFails, GenerateFails, CreateFresh,
       OpenReadable, OpenUnreadable, OpenFails, DiscardLeftover, Checkpoint, CheckpointFails,
       Export, Copied, CopyFails, Verify, RemoveWal, Install, ConvertFails, DiscardCopy, Store,
       Close, Crash, KeychainTurns
<1> QED
  BY <1>1, Inductive, PTL DEF Spec, KeyNeverOverwritten
-----------------------------------------------------------------------------
(* What is about to be set aside is not plaintext; an encrypted file has a *)
(* key, a plaintext file has none.                                         *)
AsideInv ==
    /\ pc \in {"start_over", "rename_wal", "rename_main"} => main.kind # "plain"
    /\ pc = "open" /\ asks => main.kind # "plain"
    /\ main.kind \in {"absent", "plain"} => main.key = NoKey
    /\ main.kind = "crypt" => main.key \in Keys

LEMMA AsideInitially == Init => AsideInv
  BY DEF Init, AsideInv, Absent, Damaged, Plain, Crypt

(* The places from which the program gets to where files are set aside.    *)
LEMMA AsideStep == IInv /\ AsideInv /\ [Next]_vars => AsideInv'
<1> SUFFICES ASSUME IInv, AsideInv, [Next]_vars PROVE AsideInv'
  OBVIOUS
<1>1. CASE Look
  <2>1. main' = main /\ stored' = stored
    BY <1>1 DEF Look, disk, keychain
  <2>2. pc' \notin {"rename_wal", "rename_main"}
    BY <1>1 DEF Look, DecideStartup
  <2>3. pc' \in {"start_over", "open"} => FileState # "plaintext"
    BY <1>1 DEF Look, DecideStartup, FileState
  <2> QED
    BY <2>1, <2>2, <2>3 DEF AsideInv, FileState
<1>2. CASE OpenUnreadable \/ OpenFails
  <2>1. /\ stored' = stored /\ asks' = asks
        /\ pc' = "off" \/ (pc' = "start_over" /\ pc = "open" /\ asks)
    BY <1>2 DEF OpenUnreadable, OpenFails, Goto, Abort, keychain, memory
  <2>2. main'.kind = main.kind /\ main'.key = main.key
    BY <1>2 DEF OpenUnreadable, OpenFails, ConnectionClosed, LogWritten, IInv, TypeOK, File
  <2> QED
    BY <2>1, <2>2 DEF AsideInv
<1>3. CASE SetMainAside
  BY <1>3 DEF SetMainAside, Goto, AsideInv, Absent
<1>4. CASE GenerateKey
  <2>1. main' = main /\ asks' = FALSE /\ pc' \in {"open", "convert"}
    BY <1>4 DEF IInv, TypeOK, KeyInv, GenerateKey, Goto, disk
  <2> QED
    BY <2>1 DEF AsideInv
<1>5. CASE CreateFresh \/ Close
  BY <1>5 DEF CreateFresh, Close, LogWritten, Goto, Crypt, AsideInv, IInv, TypeOK, KeyInv, File
<1>6. CASE Checkpoint
  BY <1>6 DEF Checkpoint, Goto, Plain, AsideInv
<1>7. CASE Install
  <2>1. main'.kind = "crypt" /\ main'.key \in Keys /\ pc' = "open" /\ asks' = FALSE
    BY <1>7 DEF IInv, KeyInv, DiskInv, Converting, Install, Goto, Crypt, memory
  <2> QED
    BY <2>1 DEF AsideInv
<1>8. CASE OpenReadable \/ KeychainTurns \/ Store \/ Crash \/ UNCHANGED vars
  BY <1>8 DEF OpenReadable, KeychainTurns, Store, Crash, Goto, Abort, vars, disk,
     keychain, memory, AsideInv
<1>9. CASE Start \/ LookFails \/ AnswerD1 \/ AnswerD4 \/ AnswerStartOver \/ SetWalAside
           \/ RenameFails \/ GenerateFails
  BY <1>9 DEF Start, LookFails, AnswerD1, AnswerD4, AnswerStartOver, SetWalAside, RenameFails,
     GenerateFails, Goto, Abort, disk, keychain, memory, AsideInv
<1>10. CASE DiscardLeftover \/ CheckpointFails \/ Export \/ Copied \/ CopyFails \/ Verify
            \/ RemoveWal \/ ConvertFails \/ DiscardCopy
  BY <1>10 DEF DiscardLeftover, CheckpointFails, Export, Copied, CopyFails, Verify, RemoveWal,
     ConvertFails, DiscardCopy, Goto, Abort, disk, keychain, memory, AsideInv
<1> QED
  BY <1>1, <1>2, <1>3, <1>4, <1>5, <1>6, <1>7, <1>8, <1>9, <1>10 DEF Next

LEMMA RefinementInit == Init => Abstract!Init
<1> SUFFICES ASSUME Init PROVE Abstract!Init
  OBVIOUS
<1>1. IInv
  BY Initially
<1>2. [main EXCEPT !.rows = Contents] \in
        [kind : {"absent", "plain", "crypt", "damaged"}, key : Keys \cup {NoKey}, rows : SUBSET Rows]
  BY <1>1 DEF IInv, TypeOK, File, Kinds, Contents
<1>3. UNION {f.rows : f \in kept} = {}
  BY DEF Init
<1> QED
  BY <1>2, <1>3 DEF Abstract!Init

(* Most steps change nothing the user would notice; the others are one     *)
(* step of the promise each.                                               *)
LEMMA RefinementStep == IInv /\ AsideInv /\ [Next]_vars => [Abstract!Next]_(Abstract!vars)
<1> SUFFICES ASSUME IInv, AsideInv, [Next]_vars PROVE [Abstract!Next]_(Abstract!vars)
  OBVIOUS
<1> DEFINE Db == [main EXCEPT !.rows = Contents]
<1> DEFINE Aside == UNION {f.rows : f \in kept}
<1>1. main \in File /\ wal \in File /\ kept \in SUBSET File
  BY DEF IInv, TypeOK
<1>2. /\ wal.kind = "absent" => wal.rows = {}
      /\ main.kind = "absent" => main.rows = {} /\ wal.rows = {}
  BY DEF IInv, DiskInv, SavedInv, NoForeignWal, FitsMain, SameDatabase
<1>3. Absent = [kind |-> "absent", key |-> NoKey, rows |-> {}] /\ Abstract!Absent = Absent
  BY DEF Absent, Abstract!Absent
<1>4. ASSUME Db' = Db, Aside' = Aside, stored' = stored
      PROVE  [Abstract!Next]_(Abstract!vars)
  BY <1>4 DEF Abstract!vars
<1>5. ASSUME main' = main, wal' = wal, kept' = kept, stored' = stored
      PROVE  [Abstract!Next]_(Abstract!vars)
  BY <1>4, <1>5 DEF Contents
<1>6. CASE SetWalAside
  <2>1. /\ pc = "rename_wal" /\ wal' = Absent /\ main' = main /\ stored' = stored
        /\ kept' = kept \cup Setting(wal)
    BY <1>6 DEF SetWalAside, Goto, keychain
  <2>2. Aside' = Aside \cup wal.rows
    BY <1>2, <2>1 DEF Setting
  <2>3. Db' = [Db EXCEPT !.rows = main.rows]
    BY <1>1, <2>1 DEF Contents, Absent, File
  <2>4. Db.kind = main.kind /\ Db.key = main.key /\ Db.rows = wal.rows \cup main.rows
    BY <1>1 DEF Contents, File
  <2>5. PICK moved, rest \in SUBSET Rows : moved = wal.rows /\ rest = main.rows
    BY <1>1 DEF File
  <2>6. CASE main.kind = "absent"
    <3>1. Db' = Db /\ Aside' = Aside
      BY <1>1, <1>2, <2>2, <2>3, <2>4, <2>6 DEF Contents
    <3> QED
      BY <1>4, <2>1, <3>1
  <2>7. CASE main.kind # "absent"
    <3>1. main.kind \in {"crypt", "damaged"}
      BY <1>1, <2>1, <2>7 DEF AsideInv, File, Kinds
    <3>2. Abstract!SetAside(moved, rest)
      BY <2>1, <2>2, <2>3, <2>4, <2>5, <3>1 DEF Abstract!SetAside
    <3> QED
      BY <3>2 DEF Abstract!Next
  <2> QED
    BY <2>6, <2>7
<1>7. CASE SetMainAside
  <2>1. /\ pc = "rename_main" /\ main' = Absent /\ wal' = wal /\ stored' = stored
        /\ kept' = kept \cup Setting(main)
    BY <1>7 DEF SetMainAside, Goto, keychain
  <2>2. wal.rows = {}
    BY <1>2, <2>1 DEF IInv, DiskInv
  <2>3. Aside' = Aside \cup main.rows
    BY <1>2, <2>1 DEF Setting
  <2>4. Db' = Absent
    BY <2>1, <2>2 DEF Contents, Absent
  <2>5. Db.kind = main.kind /\ Db.key = main.key /\ Db.rows = main.rows \cup {}
    BY <1>1, <2>2 DEF Contents, File
  <2>6. main.rows \in SUBSET Rows
    BY <1>1 DEF File
  <2>7. CASE main.kind = "absent"
    <3>1. Db' = Db /\ Aside' = Aside
      <4>1. main.key = NoKey /\ main.rows = {} /\ Contents = {}
        BY <1>2, <2>2, <2>7 DEF AsideInv, Contents
      <4>2. Db = Absent
        BY <1>1, <2>7, <4>1 DEF Absent, File
      <4> QED
        BY <2>3, <2>4, <4>1, <4>2
    <3> QED
      BY <1>4, <2>1, <3>1
  <2>8. CASE main.kind # "absent"
    <3>1. main.kind \in {"crypt", "damaged"}
      BY <1>1, <2>1, <2>8 DEF AsideInv, File, Kinds
    <3>2. Abstract!SetAside(main.rows, {})
      BY <1>3, <2>1, <2>3, <2>4, <2>5, <3>1 DEF Abstract!SetAside
    <3> QED
      BY <2>6, <3>2 DEF Abstract!Next
  <2> QED
    BY <2>7, <2>8
<1>8. CASE GenerateKey
  <2>1. /\ pc = "generate" /\ main' = main /\ wal' = wal /\ kept' = kept
        /\ stored' = key' /\ key' \in Keys
    BY <1>8 DEF GenerateKey, Goto, disk
  <2>2. stored \notin Keys /\ main.kind \in {"absent", "plain"}
    BY <2>1 DEF IInv, TypeOK, KeyInv
  <2>3. Db' = Db /\ Aside' = Aside /\ Db.kind = main.kind
    BY <1>1, <2>1 DEF Contents, File
  <2>4. Abstract!NewKey
    BY <2>1, <2>2, <2>3 DEF Abstract!NewKey
  <2> QED
    BY <2>4 DEF Abstract!Next
<1>9. CASE CreateFresh
  <2>1. /\ main.kind = "absent" /\ main' = Crypt(key, {}) /\ wal' = wal /\ kept' = kept
        /\ stored' = stored /\ key = stored /\ key \in Keys
    BY <1>9 DEF CreateFresh, Goto, IInv, KeyInv, keychain
  <2>2. Db' = [kind |-> "crypt", key |-> stored, rows |-> {}] /\ Db.kind = "absent"
    BY <1>1, <1>2, <2>1 DEF Contents, Crypt, File
  <2>3. Abstract!Create
    BY <2>1, <2>2 DEF Abstract!Create
  <2> QED
    BY <2>3 DEF Abstract!Next
<1>10. CASE Install
  <2>1. /\ main' = Crypt(key, main.rows) /\ wal' = wal /\ wal = Absent /\ kept' = kept
        /\ stored' = stored /\ key = stored /\ key \in Keys /\ main.kind = "plain"
    BY <1>10 DEF Install, Goto, IInv, TypeOK, KeyInv, DiskInv, Converting, keychain
  <2>2. /\ Db.kind = "plain" /\ Db.rows = main.rows
        /\ Db' = [kind |-> "crypt", key |-> stored, rows |-> main.rows]
    <3>1. Contents' = main.rows /\ Contents = main.rows
      BY <2>1 DEF Contents, Crypt, Absent
    <3> QED
      BY <1>1, <2>1, <3>1 DEF Crypt, File
  <2>3. Abstract!Encrypt
    BY <2>1, <2>2 DEF Abstract!Encrypt
  <2> QED
    BY <2>3 DEF Abstract!Next
<1>11. CASE Store
  <2>1. /\ main' = main /\ kept' = kept /\ stored' = stored
        /\ main.kind = "crypt" /\ main.key = stored
    BY <1>11 DEF Store, IInv, KeyInv, DiskInv, keychain
  <2>2. PICK r \in Rows : wal' = Crypt(main.key, wal.rows \cup {r})
    BY <1>11 DEF Store
  <2>3. Db' = [Db EXCEPT !.rows = @ \cup {r}] /\ Db.kind = "crypt" /\ Db.key = stored
    <3>1. Contents' = Contents \cup {r}
      BY <2>1, <2>2 DEF Contents, Crypt
    <3> QED
      BY <1>1, <2>1, <3>1 DEF File
  <2>4. Abstract!Commit(r)
    BY <2>1, <2>3 DEF Abstract!Commit, Abstract!Readable
  <2> QED
    BY <2>4 DEF Abstract!Next
<1>12. CASE Checkpoint
  <2>1. /\ main' = Plain(Contents) /\ wal' = Absent /\ kept' = kept /\ stored' = stored
        /\ main.kind = "plain" /\ main.key = NoKey
    BY <1>12 DEF Checkpoint, Goto, IInv, TypeOK, Converting, AsideInv, keychain
  <2>2. Contents' = Contents
    BY <2>1 DEF Contents, Plain, Absent
  <2>3. Db' = Db
    BY <1>1, <2>1, <2>2 DEF Plain, File
  <2> QED
    BY <1>4, <2>1, <2>3
<1>13. CASE Close \/ ((OpenUnreadable \/ OpenFails) /\ LogWritten)
  <2>1. /\ main' = [main EXCEPT !.rows = Contents] /\ wal' = Absent /\ kept' = kept
        /\ stored' = stored
    BY <1>13 DEF Close, OpenUnreadable, OpenFails, LogWritten, keychain
  <2>2. Contents' = Contents
    BY <1>1, <2>1 DEF Contents, Absent, File
  <2>3. Db' = Db
    BY <1>1, <2>1, <2>2 DEF File
  <2> QED
    BY <1>4, <2>1, <2>3
<1>14. CASE RemoveWal
  BY <1>5, <1>14 DEF RemoveWal, Goto, IInv, DiskInv, keychain
<1>15. CASE \/ Start \/ Look \/ LookFails \/ AnswerD1 \/ AnswerD4 \/ AnswerStartOver
            \/ RenameFails \/ GenerateFails \/ OpenReadable \/ Crash \/ KeychainTurns
            \/ UNCHANGED vars
  BY <1>5, <1>15 DEF Start, Look, LookFails, AnswerD1, AnswerD4, AnswerStartOver, RenameFails,
     GenerateFails, OpenReadable, Crash, KeychainTurns, vars, disk, keychain
<1>16. CASE \/ DiscardLeftover \/ CheckpointFails \/ Export \/ Copied \/ CopyFails \/ Verify
            \/ ConvertFails \/ DiscardCopy
  BY <1>5, <1>16 DEF DiscardLeftover, CheckpointFails, Export, Copied, CopyFails, Verify,
     ConvertFails, DiscardCopy, disk, keychain
<1>17. CASE (OpenUnreadable \/ OpenFails) /\ UNCHANGED <<main, wal>>
  BY <1>5, <1>17 DEF OpenUnreadable, OpenFails, keychain
<1> QED
  BY <1>6, <1>7, <1>8, <1>9, <1>10, <1>11, <1>12, <1>13, <1>14, <1>15, <1>16, <1>17
     DEF Next, OpenUnreadable, OpenFails, ConnectionClosed

(* The start keeps its promise: a conversion happens as a whole or not at  *)
(* all, wherever it breaks off, no plaintext database is set aside, and no *)
(* key is made over another or over a database that needs one, whatever    *)
(* state the keychain was found in.                                        *)
THEOREM Refinement == Spec => ImplementsStoredData
<1>1. Spec => []AsideInv
  BY Inductive, AsideInitially, AsideStep, PTL DEF Spec
<1> QED
  BY <1>1, Inductive, RefinementInit, RefinementStep, PTL
     DEF Spec, ImplementsStoredData, Abstract!Spec
=============================================================================
