--------------------------- MODULE ServerProfiles ---------------------------
(* Server profiles and their secrets (app-logic/servers.rs,                *)
(* server_credentials.rs, identity_file.rs, persistence-sqlite/store.rs,   *)
(* app-shell/ssh_config_apply.rs, commands/notes.rs).                      *)
(*                                                                         *)
(* The database and the keychain are changed one after the other, and each *)
(* change may fail.  One server, Edited, is edited, converted, annotated   *)
(* and deleted, while an import creates the servers of a plan; the program *)
(* may be killed at any point.  A secret is in its slot or not: the value  *)
(* overwritten by a failed edit is not restored (spec 0082, R1) and not    *)
(* modelled.  Two saves of one server do not run at once: both come from   *)
(* the one form (spec 0082, R2).                                           *)
EXTENDS Integers, Sequences, FiniteSets, SequencesExt

CONSTANTS
    Saves,        \* calls of update_server and convert_identity_file_to_keychain
    Deletes,      \* calls of delete_server
    Notes,        \* texts saved as notes of Edited
    Edited,       \* the server that exists at the start
    Entries,      \* the servers an import may create
    Auths,        \* how Edited may log in at the start
    Inputs,       \* what the form may send
    Plans,        \* what may be imported: sequences of [id, input, jump]
    None

VARIABLES
    servers,      \* rows of servers: login, notes, jump host
    groups,       \* whether the group of the import exists
    keychain,     \* the slots filled, for each server
    history,      \* note_revisions of Edited, the contents in order
    save,         \* update_server and convert: state, snapshot, what was written
    removal,      \* delete_server: state, snapshot, result
    import,       \* apply_import: state, plan, servers made
    faulty        \* history: servers about which the keychain, the database or the
                  \* program failed, or that were saved and deleted at once

vars == <<servers, groups, keychain, history, save, removal, import, faulty>>

Ids == {Edited} \cup Entries

-----------------------------------------------------------------------------
(* The slots of a login: those it must have, and those it may have.        *)

Required(kind) ==
    CASE kind = "password" -> <<"password">>
      [] kind = "private_key" -> <<"private_key">>
      [] kind = "certificate" -> <<"certificate", "certificate_key">>
      [] OTHER -> <<>>

Optional(kind) == IF kind \in {"private_key", "identity_file"} THEN <<"passphrase">> ELSE <<>>

Slots == {"password", "private_key", "passphrase", "certificate", "certificate_key",
          "sudo_password"}

(* What resolve_auth_method and resolve_sudo_password go through.          *)
Fields(kind) == Required(kind) \o Optional(kind) \o <<"sudo_password">>

Kinds == {"password", "private_key", "certificate", "identity_file", "agent"}

(* AuthMethod, AuthMethodInput, a row of servers and an entry of a plan.   *)
Login ==
    {auth \in [kind : Kinds, refs : SUBSET Slots] :
        /\ Range(Required(auth.kind)) \subseteq auth.refs
        /\ auth.refs \subseteq Range(Required(auth.kind)) \cup Range(Optional(auth.kind))}

Input == {input \in [kind : Kinds, given : SUBSET Slots] :
             input.given \subseteq Range(Fields(input.kind))}

Row == [auth : Login, notes : Notes \cup {None}, jump : Ids \cup {None}]

Planned == [id : Entries, input : Input, jump : Ids \cup {None}]

(* order_entries: each entry once, after the one that is its jump host.    *)
ASSUME ProfilesAssumption ==
    /\ Edited \notin Entries /\ None \notin Ids /\ None \notin Row
    /\ Auths \subseteq Login /\ Inputs \subseteq Input
    /\ \A plan \in Plans :
        /\ plan # <<>> /\ plan \in Seq(Planned)
        /\ \A i, j \in DOMAIN plan : plan[i].id = plan[j].id => i = j
        /\ \A i \in DOMAIN plan :
            plan[i].jump \in Entries => \E j \in 1..(i - 1) : plan[j].id = plan[i].jump

(* An empty field reuses what there is; a login of the same kind is there. *)
Missing(input, before, slot) ==
    /\ slot \in Range(Required(input.kind))
    /\ slot \notin input.given
    /\ before.kind # input.kind

(* The AuthMethod resolved from an input and the one before.               *)
Resolved(input, before) ==
    [kind |-> input.kind,
     refs |-> Range(Required(input.kind)) \cup
              (Range(Optional(input.kind)) \cap
               (input.given \cup IF before.kind = input.kind THEN before.refs ELSE {}))]

NoLogin == [kind |-> "none", refs |-> {}]

-----------------------------------------------------------------------------
Idle == [pc |-> "new", before |-> None, input |-> None, todo |-> <<>>, written |-> {}]

Init ==
    /\ \E auth \in Auths, sudo \in SUBSET {"sudo_password"} :
        /\ servers = [id \in Ids |->
                        IF id = Edited THEN [auth |-> auth, notes |-> None, jump |-> None]
                        ELSE None]
        /\ keychain = [id \in Ids |-> IF id = Edited THEN auth.refs \cup sudo ELSE {}]
    /\ groups = FALSE
    /\ history = <<>>
    /\ save = [c \in Saves |-> Idle]
    /\ removal = [d \in Deletes |-> [pc |-> "new", id |-> None, before |-> None, left |-> {}]]
    /\ import = [pc |-> "new", plan |-> <<>>, next |-> 1, made |-> <<>>]
    /\ faulty = {}

Ended(c) == [save EXCEPT ![c] = [Idle EXCEPT !.pc = "done"]]

Running(c) == save[c].pc \notin {"new", "done"}
Deleting(d) == removal[d].pc \notin {"new", "done", "refused"}

(* A keychain or database that fails, or calls that meet.                  *)
Fault(id, failed) == faulty' = IF failed THEN faulty \cup {id} ELSE faulty

(* Entries that the keychain refuses to delete stay.                       *)
DeleteRefs(id, refs) ==
    \E kept \in SUBSET (refs \cap keychain[id]) :
        /\ keychain' = [keychain EXCEPT ![id] = (@ \ refs) \cup kept]
        /\ Fault(id, kept # {})

-----------------------------------------------------------------------------
(* update_server.                                                          *)

BeginEdit(c, input) ==
    /\ save[c].pc = "new"
    /\ \A other \in Saves : ~Running(other)
    /\ servers[Edited] # None
    /\ save' = [save EXCEPT ![c] =
                  [pc |-> "write", before |-> servers[Edited], input |-> input,
                   todo |-> Fields(input.kind), written |-> {}]]
    /\ Fault(Edited, \E d \in Deletes : Deleting(d) /\ removal[d].id = Edited)
    /\ UNCHANGED <<servers, groups, keychain, history, removal, import>>

(* A required field without a value: what was written is taken back.       *)
FieldMissing(c) ==
    /\ save[c].pc = "write"
    /\ save[c].todo # <<>>
    /\ Missing(save[c].input, save[c].before.auth, Head(save[c].todo))
    /\ save' = [save EXCEPT ![c].pc = "undo"]
    /\ UNCHANGED <<servers, groups, keychain, history, removal, import, faulty>>

KeepField(c) ==
    /\ save[c].pc = "write"
    /\ save[c].todo # <<>>
    /\ Head(save[c].todo) \notin save[c].input.given
    /\ ~Missing(save[c].input, save[c].before.auth, Head(save[c].todo))
    /\ save' = [save EXCEPT ![c].todo = Tail(@)]
    /\ UNCHANGED <<servers, groups, keychain, history, removal, import, faulty>>

(* The slot is noted before the keychain is asked.                         *)
WriteField(c) ==
    /\ save[c].pc = "write"
    /\ save[c].todo # <<>>
    /\ LET slot == Head(save[c].todo)
       IN  /\ slot \in save[c].input.given
           /\ keychain' = [keychain EXCEPT ![Edited] = @ \cup {slot}]
           /\ save' = [save EXCEPT ![c].todo = Tail(@), ![c].written = @ \cup {slot}]
    /\ UNCHANGED <<servers, groups, history, removal, import, faulty>>

(* A set that fails may have left something behind all the same.           *)
WriteFails(c) ==
    /\ save[c].pc = "write"
    /\ save[c].todo # <<>>
    /\ LET slot == Head(save[c].todo)
       IN  /\ slot \in save[c].input.given
           /\ \E stored \in SUBSET {slot} :
                  keychain' = [keychain EXCEPT ![Edited] = @ \cup stored]
           /\ save' = [save EXCEPT ![c].pc = "undo", ![c].written = @ \cup {slot}]
    /\ UNCHANGED <<servers, groups, history, removal, import, faulty>>

(* The row is written whole, with the notes as they were read.             *)
StoreEdit(c) ==
    /\ save[c].pc = "write"
    /\ save[c].todo = <<>>
    /\ servers[Edited] # None
    /\ servers' = [servers EXCEPT ![Edited] =
                     [save[c].before EXCEPT !.auth = Resolved(save[c].input, save[c].before.auth)]]
    /\ save' = [save EXCEPT ![c].pc = "clean"]
    /\ UNCHANGED <<groups, keychain, history, removal, import, faulty>>

(* The row is gone, or the database fails.                                 *)
StoreEditFails(c) ==
    /\ save[c].pc = "write"
    /\ save[c].todo = <<>>
    /\ save' = [save EXCEPT ![c].pc = "undo"]
    /\ UNCHANGED <<servers, groups, keychain, history, removal, import, faulty>>

(* Mutant: the secrets of the login replaced stay.                         *)
CleanUpNothing(c) ==
    /\ save[c].pc = "clean"
    /\ save' = Ended(c)
    /\ UNCHANGED <<servers, groups, keychain, history, removal, import, faulty>>

(* cleanup_replaced_auth_method_secrets.                                   *)
CleanUp(c) ==
    /\ save[c].pc = "clean"
    /\ DeleteRefs(Edited, save[c].before.auth.refs
                      \ Resolved(save[c].input, save[c].before.auth).refs)
    /\ save' = Ended(c)
    /\ UNCHANGED <<servers, groups, history, removal, import>>

(* Mutant: everything this call has written is taken back.                 *)
RollBackAll(c) ==
    /\ save[c].pc = "undo"
    /\ DeleteRefs(Edited, save[c].written)
    /\ save' = Ended(c)
    /\ UNCHANGED <<servers, groups, history, removal, import>>

(* roll_back_failed_edit.                                                  *)
RollBack(c) ==
    /\ save[c].pc = "undo"
    /\ DeleteRefs(Edited, save[c].written \ (save[c].before.auth.refs \cup {"sudo_password"}))
    /\ save' = Ended(c)
    /\ UNCHANGED <<servers, groups, history, removal, import>>

-----------------------------------------------------------------------------
(* convert_identity_file_to_keychain: `written` holds what was in the slot *)
(* before.                                                                 *)

BeginConvert(c) ==
    /\ save[c].pc = "new"
    /\ \A other \in Saves : ~Running(other)
    /\ servers[Edited] # None
    /\ servers[Edited].auth.kind = "identity_file"
    /\ save' = [save EXCEPT ![c] =
                  [Idle EXCEPT !.pc = "key", !.before = servers[Edited],
                               !.written = keychain[Edited] \cap {"private_key"}]]
    /\ Fault(Edited, \E d \in Deletes : Deleting(d) /\ removal[d].id = Edited)
    /\ UNCHANGED <<servers, groups, keychain, history, removal, import>>

(* The file or the slot cannot be read, or the slot cannot be written: the *)
(* call gives up, and nothing is taken back.                               *)
ConvertRefused(c) ==
    /\ save[c].pc = "key"
    /\ \E stored \in SUBSET {"private_key"} :
        /\ keychain' = [keychain EXCEPT ![Edited] = @ \cup stored]
        /\ Fault(Edited, stored # {})
    /\ save' = Ended(c)
    /\ UNCHANGED <<servers, groups, history, removal, import>>

WriteKey(c) ==
    /\ save[c].pc = "key"
    /\ keychain' = [keychain EXCEPT ![Edited] = @ \cup {"private_key"}]
    /\ save' = [save EXCEPT ![c].pc = "convert"]
    /\ UNCHANGED <<servers, groups, history, removal, import, faulty>>

StoreConverted(c) ==
    /\ save[c].pc = "convert"
    /\ servers[Edited] # None
    /\ servers' = [servers EXCEPT ![Edited] =
                     [save[c].before EXCEPT
                        !.auth = [kind |-> "private_key", refs |-> @.refs \cup {"private_key"}]]]
    /\ save' = Ended(c)
    /\ UNCHANGED <<groups, keychain, history, removal, import, faulty>>

(* The slot gets back what it held, roll_back_key_slot.                    *)
StoreConvertedFails(c) ==
    /\ save[c].pc = "convert"
    /\ \/ /\ save[c].written = {}
          /\ DeleteRefs(Edited, {"private_key"})
       \/ /\ save[c].written # {}
          /\ keychain' = [keychain EXCEPT ![Edited] = @ \cup {"private_key"}]
          /\ UNCHANGED faulty
    /\ save' = Ended(c)
    /\ UNCHANGED <<servers, groups, history, removal, import>>

-----------------------------------------------------------------------------
(* Notes.                                                                  *)

(* record_note_revision: the revision and the row in one transaction.      *)
RecordNoteRevision(note) ==
    /\ servers[Edited] # None
    /\ note \notin Range(history)
    /\ history' = Append(history, note)
    /\ servers' = [servers EXCEPT ![Edited].notes = note]
    /\ UNCHANGED <<groups, keychain, save, removal, import, faulty>>

-----------------------------------------------------------------------------
(* delete_server.                                                          *)

BeginDelete(d, id) ==
    /\ removal[d].pc = "new"
    /\ servers[id] # None
    /\ removal' = [removal EXCEPT ![d] =
                     [pc |-> "secrets", id |-> id, before |-> servers[id], left |-> {}]]
    /\ Fault(id, \/ id = Edited /\ \E c \in Saves : Running(c)
                 \/ \E other \in Deletes : Deleting(other) /\ removal[other].id = id)
    /\ UNCHANGED <<servers, groups, keychain, history, save, import>>

(* Mutant: the result keeps quiet about what stays.                        *)
DeleteSecretsSilently(d) ==
    /\ removal[d].pc = "secrets"
    /\ LET id == removal[d].id
           refs == removal[d].before.auth.refs \cup {"sudo_password"}
       IN  \E kept \in SUBSET (refs \cap keychain[id]) :
            keychain' = [keychain EXCEPT ![id] = (@ \ refs) \cup kept]
    /\ removal' = [removal EXCEPT ![d].pc = "row"]
    /\ UNCHANGED <<servers, groups, history, save, import, faulty>>

(* Whatever the keychain refuses to delete is named in the result.         *)
DeleteSecrets(d) ==
    /\ removal[d].pc = "secrets"
    /\ LET id == removal[d].id
           refs == removal[d].before.auth.refs \cup {"sudo_password"}
       IN  \E kept \in SUBSET (refs \cap keychain[id]) :
            /\ keychain' = [keychain EXCEPT ![id] = (@ \ refs) \cup kept]
            /\ removal' = [removal EXCEPT ![d].pc = "row", ![d].left = kept]
    /\ UNCHANGED <<servers, groups, history, save, import, faulty>>

(* ON DELETE SET NULL clears the jump hosts that led here.                 *)
DeleteRow(d) ==
    /\ removal[d].pc = "row"
    /\ servers[removal[d].id] # None
    /\ servers' = [id \in Ids |->
                     IF id = removal[d].id THEN None
                     ELSE IF servers[id] = None THEN None
                     ELSE IF servers[id].jump = removal[d].id
                     THEN [servers[id] EXCEPT !.jump = None] ELSE servers[id]]
    /\ removal' = [removal EXCEPT ![d].pc = "done"]
    /\ UNCHANGED <<groups, keychain, history, save, import, faulty>>

(* Gone already, or the database fails: the caller hears of no secret.     *)
DeleteRowFails(d) ==
    /\ removal[d].pc = "row"
    /\ removal' = [removal EXCEPT ![d].pc = "refused"]
    /\ Fault(removal[d].id, TRUE)
    /\ UNCHANGED <<servers, groups, keychain, history, save, import>>

-----------------------------------------------------------------------------
(* apply_import, which calls create_server for each entry.  Nobody else    *)
(* knows the id of a server before its row is there.                       *)

Entry == import.plan[import.next]

BeginImport(plan) ==
    /\ import.pc = "new"
    /\ import' = [pc |-> "group", plan |-> plan, next |-> 1, made |-> <<>>]
    /\ UNCHANGED <<servers, groups, keychain, history, save, removal, faulty>>

CreateGroup ==
    /\ import.pc = "group"
    /\ groups' = TRUE
    /\ import' = [import EXCEPT !.pc = "create"]
    /\ UNCHANGED <<servers, keychain, history, save, removal, faulty>>

CreateGroupFails ==
    /\ import.pc = "group"
    /\ import' = [import EXCEPT !.pc = "failed"]
    /\ UNCHANGED <<servers, groups, keychain, history, save, removal, faulty>>

StoreSecrets ==
    /\ import.pc = "create"
    /\ \A slot \in Range(Required(Entry.input.kind)) : slot \in Entry.input.given
    /\ keychain' = [keychain EXCEPT ![Entry.id] = Entry.input.given]
    /\ import' = [import EXCEPT !.pc = "insert"]
    /\ UNCHANGED <<servers, groups, history, save, removal, faulty>>

(* A value is missing or the keychain fails: every slot is cleared.        *)
StoreSecretsFails ==
    /\ import.pc = "create"
    /\ \E kept \in SUBSET Entry.input.given :
        /\ keychain' = [keychain EXCEPT ![Entry.id] = kept]
        /\ Fault(Entry.id, kept # {})
    /\ import' = [import EXCEPT !.pc = "rollback"]
    /\ UNCHANGED <<servers, groups, history, save, removal>>

(* A planned jump host that was not created counts for none.               *)
JumpHost ==
    IF Entry.jump \in Entries /\ Entry.jump \notin Range(import.made) THEN None ELSE Entry.jump

Insert ==
    /\ import.pc = "insert"
    /\ JumpHost # None => servers[JumpHost] # None
    /\ servers' = [servers EXCEPT ![Entry.id] =
                     [auth |-> Resolved(Entry.input, NoLogin), notes |-> None, jump |-> JumpHost]]
    /\ import' = [import EXCEPT !.pc = IF import.next = Len(import.plan) THEN "created" ELSE "create",
                                !.next = @ + 1, !.made = Append(@, Entry.id)]
    /\ UNCHANGED <<groups, keychain, history, save, removal, faulty>>

(* Mutant: the secrets stay when the row cannot be inserted.               *)
InsertFailsAlone ==
    /\ import.pc = "insert"
    /\ import' = [import EXCEPT !.pc = "rollback"]
    /\ UNCHANGED <<servers, groups, keychain, history, save, removal, faulty>>

(* The database fails, or the foreign key of the jump host does.           *)
InsertFails ==
    /\ import.pc = "insert"
    /\ DeleteRefs(Entry.id, Slots)
    /\ import' = [import EXCEPT !.pc = "rollback"]
    /\ UNCHANGED <<servers, groups, history, save, removal>>

(* rollback(): the servers made, last one first, and then the group.       *)
RollBackServer ==
    /\ import.pc = "rollback"
    /\ import.made # <<>>
    /\ LET id == Last(import.made)
       IN  \E kept \in SUBSET keychain[id], deleted \in BOOLEAN :
            /\ keychain' = [keychain EXCEPT ![id] = kept]
            /\ servers' = IF ~deleted THEN servers
                          ELSE [other \in Ids |->
                                  IF other = id THEN None
                                  ELSE IF servers[other] # None /\ servers[other].jump = id
                                  THEN [servers[other] EXCEPT !.jump = None] ELSE servers[other]]
            /\ Fault(id, kept # {} \/ ~deleted)
    /\ import' = [import EXCEPT !.made = Front(@)]
    /\ UNCHANGED <<groups, history, save, removal>>

RollBackGroup ==
    /\ import.pc = "rollback"
    /\ import.made = <<>>
    /\ groups' = FALSE
    /\ import' = [import EXCEPT !.pc = "failed"]
    /\ UNCHANGED <<servers, keychain, history, save, removal, faulty>>

RollBackGroupFails ==
    /\ import.pc = "rollback"
    /\ import.made = <<>>
    /\ import' = [import EXCEPT !.pc = "failed"]
    /\ faulty' = faulty \cup Entries
    /\ UNCHANGED <<servers, groups, keychain, history, save, removal>>

-----------------------------------------------------------------------------
(* The program is killed: calls end where they are.                        *)
Busy ==
    {Edited : c \in {c \in Saves : Running(c)}}
        \cup {removal[d].id : d \in {d \in Deletes : Deleting(d)}}
        \cup IF import.pc \in {"new", "created", "failed"} THEN {} ELSE Entries

Crash ==
    /\ Busy # {}
    /\ save' = [c \in Saves |-> IF Running(c) THEN [Idle EXCEPT !.pc = "done"] ELSE save[c]]
    /\ removal' = [d \in Deletes |->
                     IF Deleting(d) THEN [removal[d] EXCEPT !.pc = "refused"] ELSE removal[d]]
    /\ import' = IF import.pc \in {"new", "created", "failed"} THEN import
                 ELSE [import EXCEPT !.pc = "failed"]
    /\ faulty' = faulty \cup Busy
    /\ UNCHANGED <<servers, groups, keychain, history>>

(* clear_sudo_password.                                                    *)
ClearSudoPassword ==
    /\ servers[Edited] # None
    /\ "sudo_password" \in keychain[Edited]
    /\ keychain' = [keychain EXCEPT ![Edited] = @ \ {"sudo_password"}]
    /\ UNCHANGED <<servers, groups, history, save, removal, import, faulty>>

Edit(c) ==
    \/ FieldMissing(c) \/ KeepField(c) \/ WriteField(c) \/ WriteFails(c)
    \/ StoreEdit(c) \/ StoreEditFails(c) \/ CleanUp(c) \/ RollBack(c)

Convert(c) ==
    \/ BeginConvert(c) \/ ConvertRefused(c) \/ WriteKey(c) \/ StoreConverted(c)
    \/ StoreConvertedFails(c)

Delete(d) == DeleteSecrets(d) \/ DeleteRow(d) \/ DeleteRowFails(d)

Import ==
    \/ CreateGroup \/ CreateGroupFails \/ StoreSecrets \/ StoreSecretsFails \/ Insert
    \/ InsertFails \/ RollBackServer \/ RollBackGroup \/ RollBackGroupFails

Next ==
    \/ \E c \in Saves : Edit(c) \/ Convert(c) \/ \E input \in Inputs : BeginEdit(c, input)
    \/ \E d \in Deletes : Delete(d) \/ \E id \in Ids : BeginDelete(d, id)
    \/ \E note \in Notes : RecordNoteRevision(note)
    \/ \E plan \in Plans : BeginImport(plan)
    \/ Import
    \/ ClearSudoPassword
    \/ Crash

Spec == Init /\ [][Next]_vars

-----------------------------------------------------------------------------
Idling(id) ==
    /\ id = Edited => \A c \in Saves : ~Running(c)
    /\ \A d \in Deletes : Deleting(d) => removal[d].id # id
    /\ id \in Entries => import.pc \in {"new", "created", "failed"}

(* The way into a server is never lost: what its row refers to is in the   *)
(* keychain, before, during and after an edit, whatever fails, and when    *)
(* the program is killed; until it is deleted, or an import taken back.    *)
LoginKept ==
    \A id \in Ids :
        /\ servers[id] # None
        /\ \A d \in Deletes : removal[d].id # id
        /\ id \in Entries => import.pc \notin {"rollback", "failed"}
        => servers[id].auth.refs \subseteq keychain[id]

(* No secret is left behind that no server uses, once the calls are over   *)
(* and nothing has failed to be deleted.                                   *)
NothingOrphaned ==
    \A id \in Ids \ faulty :
        Idling(id) =>
            keychain[id] \ {"sudo_password"} \subseteq
                IF servers[id] = None
                THEN UNION {removal[d].left : d \in {d \in Deletes : removal[d].id = id}}
                ELSE servers[id].auth.refs

(* An import that fails leaves nothing: no server, no group, no secret; one *)
(* that succeeds has created every server of its plan, behind its jump     *)
(* host.                                                                   *)
ImportAllOrNothing ==
    LET deleted == {removal[d].id : d \in Deletes}
    IN  Entries \cap faulty = {} =>
        /\ import.pc = "failed" =>
            /\ ~groups
            /\ \A id \in Entries : servers[id] = None /\ (id \notin deleted => keychain[id] = {})
        /\ import.pc = "created" =>
            \A i \in DOMAIN import.plan :
                LET e == import.plan[i]
                IN  e.id \notin deleted =>
                        /\ servers[e.id] # None
                        /\ servers[e.id].jump \in {e.jump} \cup (IF e.jump \in deleted THEN {None} ELSE {})

(* Who deletes a server hears of every secret that stays.                  *)
DeleteTells ==
    \A d \in Deletes :
        /\ removal[d].pc = "done"
        /\ removal[d].id \notin faulty
        => keychain[removal[d].id] \subseteq removal[d].left

(* The notes of a server are those of its latest revision.                 *)
NotesFollowHistory ==
    servers[Edited] # None =>
        servers[Edited].notes = IF history = <<>> THEN None ELSE Last(history)
=============================================================================
