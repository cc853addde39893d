---------------------------- MODULE RemoteWrite -----------------------------
(***************************************************************************)
(* Writing a remote file: execute_write_remote_file and what it calls      *)
(* (app-logic, orchestration/remote_files.rs).  An existing file is copied *)
(* to a backup named after the second, then overwritten through SFTP; if   *)
(* the server denies that, and only then, the same is tried with sudo, by  *)
(* way of a temporary file.                                                *)
(*                                                                         *)
(* Several writes of one session, of the chat and of MCP clients, work on  *)
(* one path.  Every operation may fail; one that fails may have had its    *)
(* effect, or, when contents are transferred, have left a torn file.  SFTP *)
(* operations are serialised by the lock of the channel, commands by the   *)
(* lock of the connection: the two do not exclude each other.              *)
(***************************************************************************)
EXTENDS Naturals

CONSTANTS
    Writes,         \* the writes, and what each of them wants to write
    LastSecond,     \* bound: the clock stops here
    None            \* no write

Original == "original"
Absent == "absent"
Torn == "torn"
Contents == {Original, Absent, Torn} \cup Writes

Seconds == 1..LastSecond

ASSUME WriteAssumption ==
    /\ LastSecond \in Nat \ {0}
    /\ Writes \cap {Original, Absent, Torn} = {}
    /\ None \notin Writes

VARIABLES
    grant,      \* what the login user may do: read, write the file, create files beside it
    sudo,       \* a sudo password is stored and was announced in the dialog
    clock,
    file,       \* content and mode of the file at the path
    backup,     \* content of the backup of each second
    temp,       \* content of the temporary file of each write
    channel,    \* who holds the lock of the SFTP channel across two operations
    pc,
    local,      \* local variables of each write
    used,       \* history variable: the seconds a write named a backup after
    rooted,     \* history variable: the writes that installed the file as root
    last        \* history variable: the last write that touched the file

vars == <<grant, sudo, clock, file, backup, temp, channel, pc, local, used, rooted, last>>
serverVars == <<file, backup, temp>>
historyVars == <<used, rooted, last>>

Modes == {"old", "default"}

(* existed, mode: what stat said; stamp: the second of the backup path;    *)
(* saved: the content on its way into the backup.                          *)
Local == [existed : BOOLEAN, mode : Modes, stamp : Seconds, saved : Contents]

Places == {"stat", "read", "backup", "write", "fallback", "copy", "temp", "install",
           "cleanup", "cleanupFailed", "written", "failed"}

Grants == [read : BOOLEAN, write : BOOLEAN, create : BOOLEAN]

TypeOK ==
    /\ grant \in Grants /\ sudo \in BOOLEAN
    /\ clock \in Seconds
    /\ file \in [content : Contents, mode : Modes]
    /\ backup \in [Seconds -> Contents] /\ temp \in [Writes -> Contents]
    /\ channel \in Writes \cup {None} /\ \A w \in Writes : channel = w <=> pc[w] = "backup"
    /\ pc \in [Writes -> Places] /\ local \in [Writes -> Local]
    /\ used \in [Writes -> SUBSET Seconds] /\ rooted \in SUBSET Writes
    /\ last \in Writes \cup {None}

Init ==
    /\ grant \in Grants /\ sudo \in BOOLEAN
    /\ clock = 1
    /\ file \in {[content |-> Original, mode |-> "old"], [content |-> Absent, mode |-> "default"]}
    /\ backup = [s \in Seconds |-> Absent] /\ temp = [w \in Writes |-> Absent]
    /\ channel = None
    /\ pc = [w \in Writes |-> "stat"]
    /\ local = [w \in Writes |->
          [existed |-> FALSE, mode |-> "default", stamp |-> 1, saved |-> Absent]]
    /\ used = [w \in Writes |-> {}] /\ rooted = {} /\ last = None

Goto(w, from, to) == pc[w] = from /\ pc' = [pc EXCEPT ![w] = to]

Exists == file.content # Absent

(* A transfer of contents that breaks off.                                 *)
Broken(content) == {content, Torn}

Tick ==
    /\ clock < LastSecond
    /\ clock' = clock + 1
    /\ UNCHANGED <<grant, sudo, serverVars, channel, pc, local, historyVars>>

(* Any operation may fail for a reason other than missing rights.          *)
Fail(w, from) ==
    /\ Goto(w, from, "failed")
    /\ channel' = IF channel = w THEN None ELSE channel
    /\ UNCHANGED <<grant, sudo, clock, local, used, rooted>>

-----------------------------------------------------------------------------
(* stat: a file that cannot be looked at counts as new.  The path of the   *)
(* backup is fixed before the channel is waited for again.                 *)
Stat(w) ==
    /\ channel = None
    /\ \E found \in (IF Exists THEN BOOLEAN ELSE {FALSE}) :
          /\ Goto(w, "stat", IF found THEN "read" ELSE "write")
          /\ local' = [local EXCEPT ![w] =
                [@ EXCEPT !.existed = found, !.stamp = clock,
                          !.mode = IF found THEN file.mode ELSE "default"]]
          /\ used' = IF found THEN [used EXCEPT ![w] = @ \cup {clock}] ELSE used
    /\ UNCHANGED <<grant, sudo, clock, serverVars, channel, rooted, last>>

ChannelLost(w) ==
    /\ channel = None
    /\ Fail(w, "stat")
    /\ UNCHANGED <<serverVars, last>>

(* write_via_sftp_with_backup: read and copy under one lock of the channel, *)
(* overwrite under another.                                                *)
ReadOld(w) ==
    /\ channel = None
    /\ Goto(w, "read", "backup")
    /\ grant.read /\ Exists
    /\ local' = [local EXCEPT ![w].saved = file.content]
    /\ channel' = w
    /\ UNCHANGED <<grant, sudo, clock, serverVars, historyVars>>

ReadFailed(w) ==
    /\ channel = None
    /\ Fail(w, "read")
    /\ UNCHANGED <<serverVars, last>>

WriteBackup(w) ==
    /\ Goto(w, "backup", "write")
    /\ grant.create
    /\ backup' = [backup EXCEPT ![local[w].stamp] = local[w].saved]
    /\ channel' = None
    /\ UNCHANGED <<grant, sudo, clock, file, temp, local, historyVars>>

BackupFailed(w) ==
    /\ Fail(w, "backup")
    /\ \E c \in Broken(backup[local[w].stamp]) : backup' = [backup EXCEPT ![local[w].stamp] = c]
    /\ UNCHANGED <<file, temp, last>>

MayWrite == IF Exists THEN grant.write ELSE grant.create

WriteFile(w) ==
    /\ channel = None
    /\ Goto(w, "write", "written")
    /\ MayWrite
    /\ file' = [file EXCEPT !.content = w]
    /\ last' = w
    /\ UNCHANGED <<grant, sudo, clock, backup, temp, channel, local, used, rooted>>

WriteFailed(w) ==
    /\ channel = None
    /\ Fail(w, "write")
    /\ \/ UNCHANGED <<file, last>>
       \/ MayWrite /\ file' = [file EXCEPT !.content = Torn] /\ last' = w
    /\ UNCHANGED <<backup, temp>>

-----------------------------------------------------------------------------
(* SftpPermissionDenied at one of the three operations.                    *)
Denied(w) ==
    \/ pc[w] = "read" /\ channel = None /\ ~grant.read
    \/ pc[w] = "backup" /\ ~grant.create
    \/ pc[w] = "write" /\ channel = None /\ ~MayWrite

(* Mutant: no second backup.                                               *)
DeniedWithSudoNoCopy(w) ==
    /\ Denied(w) /\ sudo
    /\ pc' = [pc EXCEPT ![w] = "temp"]
    /\ channel' = IF channel = w THEN None ELSE channel
    /\ UNCHANGED <<grant, sudo, clock, serverVars, local, historyVars>>

DeniedWithSudo(w) ==
    /\ Denied(w) /\ sudo
    /\ pc' = [pc EXCEPT ![w] = IF local[w].existed THEN "copy" ELSE "temp"]
    /\ channel' = IF channel = w THEN None ELSE channel
    /\ local' = [local EXCEPT ![w].stamp = clock]
    /\ used' = IF local[w].existed THEN [used EXCEPT ![w] = @ \cup {clock}] ELSE used
    /\ UNCHANGED <<grant, sudo, clock, serverVars, rooted, last>>

DeniedForGood(w) ==
    /\ Denied(w) /\ ~sudo
    /\ Fail(w, pc[w])
    /\ UNCHANGED <<serverVars, last>>

(* write_via_sudo_fallback: sudo cp -p, the temporary file, install.       *)
CopyBackup(w) ==
    /\ Goto(w, "copy", "temp")
    /\ Exists
    /\ backup' = [backup EXCEPT ![local[w].stamp] = file.content]
    /\ UNCHANGED <<grant, sudo, clock, file, temp, channel, local, historyVars>>

CopyFailed(w) ==
    /\ Fail(w, "copy")
    /\ \E c \in Broken(backup[local[w].stamp]) \cup {file.content} :
          backup' = [backup EXCEPT ![local[w].stamp] = c]
    /\ UNCHANGED <<file, temp, last>>

WriteTemp(w) ==
    /\ channel = None
    /\ Goto(w, "temp", "install")
    /\ temp' = [temp EXCEPT ![w] = w]
    /\ UNCHANGED <<grant, sudo, clock, file, backup, channel, local, historyVars>>

TempFailed(w) ==
    /\ channel = None
    /\ Fail(w, "temp")
    /\ \E c \in Broken(Absent) : temp' = [temp EXCEPT ![w] = c]
    /\ UNCHANGED <<file, backup, last>>

(* install replaces the file by one of root: the login user may lose his   *)
(* rights to it.                                                           *)
OwnedByRoot ==
    grant' \in {g \in Grants : (g.read => grant.read) /\ (g.write => grant.write)
                               /\ g.create = grant.create}

Installed(w) ==
    /\ OwnedByRoot
    /\ file' = [content |-> temp[w], mode |-> local[w].mode]
    /\ last' = w
    /\ rooted' = rooted \cup {w}

(* sudo install -m, with the mode of the file that was there.              *)
Install(w) ==
    /\ Goto(w, "install", "cleanup")
    /\ Installed(w)
    /\ UNCHANGED <<sudo, clock, backup, temp, channel, local, used>>

(* Mutant: the exit code is not looked at.                                 *)
InstallFailureIgnored(w) ==
    /\ Goto(w, "install", "cleanup")
    /\ Installed(w) \/ UNCHANGED <<grant, file, last, rooted>>
    /\ UNCHANGED <<sudo, clock, backup, temp, channel, local, used>>

(* The exit code is looked at after the temporary file has been removed.   *)
InstallFailed(w) ==
    /\ Goto(w, "install", "cleanupFailed")
    /\ Installed(w) \/ UNCHANGED <<grant, file, last, rooted>>
    /\ UNCHANGED <<sudo, clock, backup, temp, channel, local, used>>

(* The failure to remove the temporary file is ignored.                    *)
RemoveTemp(w) ==
    /\ channel = None
    /\ Goto(w, "cleanup", "written") \/ Goto(w, "cleanupFailed", "failed")
    /\ temp' \in {temp, [temp EXCEPT ![w] = Absent]}
    /\ UNCHANGED <<grant, sudo, clock, file, backup, channel, local, historyVars>>

Regular(w) ==
    \/ Stat(w) \/ ChannelLost(w) \/ ReadOld(w) \/ ReadFailed(w) \/ WriteBackup(w)
    \/ BackupFailed(w) \/ WriteFile(w) \/ WriteFailed(w)

Privileged(w) ==
    \/ DeniedWithSudo(w) \/ DeniedForGood(w) \/ CopyBackup(w) \/ CopyFailed(w) \/ WriteTemp(w)
    \/ TempFailed(w) \/ Install(w) \/ InstallFailed(w) \/ RemoveTemp(w)

Finished == (\A w \in Writes : pc[w] \in {"written", "failed"}) /\ UNCHANGED vars

Next ==
    \/ \E w \in Writes : Regular(w) \/ Privileged(w)
    \/ Tick \/ Finished

Spec == Init /\ [][Next]_vars

-----------------------------------------------------------------------------
Touched == file.content # Absent /\ last # None

Unseen == \E w \in Writes : pc[w] # "stat" /\ ~local[w].existed

SameSecond == \E v, w \in Writes : v # w /\ used[v] \cap used[w] # {}

SomeBackup(content) == \E s \in Seconds : backup[s] = content

(* Whatever is denied, fails half way or is tried again with sudo: once    *)
(* the file is overwritten, or torn, its original content lies complete in *)
(* a backup.  Left out are the two cases in which the code loses it: a     *)
(* stat that failed, and two writes that name their backups in one second. *)
OriginalSurvives ==
    Touched /\ local[last].existed /\ ~Unseen /\ ~SameSecond => SomeBackup(Original)

(* Root writes the file only if the dialog announced it, and only if the   *)
(* login user really lacks a right the write needs; a connection that      *)
(* breaks is no reason.                                                    *)
RootOnlyWhenDenied ==
    rooted # {} => sudo /\ ~(grant.read /\ grant.write /\ grant.create)

(* What is reported as written is what the file contains, until another    *)
(* write touches it: not torn, and not the content of a write whose exit   *)
(* code nobody saw.                                                        *)
SuccessMeansWritten == \A w \in Writes : pc[w] = "written" => last # None /\ (last = w => file.content = w)

(* A file that was there keeps its mode, also when root replaces it.       *)
ModeKept == Touched /\ ~Unseen => file.mode = "old"
=============================================================================
