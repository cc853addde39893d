------------------------- MODULE RemoteWrite_proofs -------------------------
(***************************************************************************)
(* Proofs about RemoteWrite, for any number of writes and any clock.       *)
(***************************************************************************)
EXTENDS RemoteWrite, TLAPS

(* Root is at work only where rights lack, and rights do not come back.    *)
RootInv ==
    \A w \in Writes :
        pc[w] \in {"copy", "temp", "install"} \/ w \in rooted =>
            sudo /\ ~(grant.read /\ grant.write /\ grant.create)

(* What was installed is what was to be written.                           *)
WrittenInv ==
    \A w \in Writes :
        /\ pc[w] = "install" => temp[w] = w
        /\ pc[w] \in {"cleanup", "written"} => last # None /\ (last = w => file.content = w)

(* As long as every write saw the file, it was there from the beginning.   *)
ModeInv ==
    ~Unseen =>
        IF Exists THEN file.mode = "old" /\ \A w \in Writes : pc[w] # "stat" => local[w].mode = "old"
        ELSE last = None /\ \A w \in Writes : pc[w] = "stat"

Saved == {"write", "temp", "install"}
Over == {"cleanup", "cleanupFailed", "written", "failed"}

(* Every write names its backups after its own seconds.  Until the file is *)
(* touched the backups of those about to touch it are complete; once it is *)
(* touched, the backup of the first one to touch it is, and that one makes *)
(* no other.                                                               *)
StampInv ==
    \A w \in Writes :
        /\ pc[w] \in {"read", "backup", "copy"} => local[w].existed
        /\ pc[w] # "stat" /\ local[w].existed => local[w].stamp \in used[w]
        /\ pc[w] = "stat" => used[w] = {} /\ ~local[w].existed

UntouchedInv ==
    last = None =>
        /\ file.content \in {Original, Absent}
        /\ \A w \in Writes : pc[w] = "backup" => local[w].saved = Original
        /\ ~Unseen /\ ~SameSecond =>
              \A w \in Writes : pc[w] \in Saved => backup[local[w].stamp] = Original

TouchedInv ==
    last # None /\ ~Unseen /\ ~SameSecond =>
        \E w \in Writes : pc[w] \in Over /\ \E s \in used[w] : backup[s] = Original

IInv ==
    TypeOK /\ RootInv /\ WrittenInv /\ ModeInv /\ StampInv /\ UntouchedInv /\ TouchedInv

LEMMA Initially == Init => IInv
<1> SUFFICES ASSUME Init PROVE IInv
  OBVIOUS
<1> USE WriteAssumption DEF Init
<1>1. TypeOK
  <2>1. backup \in [Seconds -> Contents] /\ temp \in [Writes -> Contents]
    BY DEF Contents
  <2>2. local \in [Writes -> Local] /\ used \in [Writes -> SUBSET Seconds]
    BY DEF Local, Modes, Seconds, Contents
  <2>3. file \in [content : Contents, mode : Modes] /\ clock \in Seconds
    BY DEF Contents, Modes, Seconds
  <2> QED
    BY <2>1, <2>2, <2>3 DEF TypeOK, Places
<1>2. RootInv /\ WrittenInv /\ ModeInv
  BY DEF RootInv, WrittenInv, ModeInv, Exists, Original, Absent
<1>3. StampInv /\ UntouchedInv /\ TouchedInv
  BY DEF StampInv, UntouchedInv, TouchedInv, Saved
<1> QED
  BY <1>2, <1>1, <1>3 DEF IInv

LEMMA StatStep ==
    ASSUME IInv, NEW w \in Writes, Stat(w)
    PROVE  IInv'
<1> USE WriteAssumption DEF IInv
<1>0. PICK found \in BOOLEAN :
         /\ found => Exists
         /\ pc[w] = "stat" /\ pc' = [pc EXCEPT ![w] = IF found THEN "read" ELSE "write"]
         /\ local' = [local EXCEPT ![w] =
               [@ EXCEPT !.existed = found, !.stamp = clock,
                         !.mode = IF found THEN file.mode ELSE "default"]]
         /\ used' = IF found THEN [used EXCEPT ![w] = @ \cup {clock}] ELSE used
         /\ UNCHANGED <<grant, sudo, clock, file, backup, temp, channel, rooted, last>>
  BY DEF Stat, Goto, serverVars
<1>1. TypeOK'
  <2>1. local' \in [Writes -> Local]
    <3>1. local[w] \in Local /\ clock \in Seconds /\ file.mode \in Modes /\ "default" \in Modes
      BY DEF TypeOK, Modes
    <3>2. [local[w] EXCEPT !.existed = found, !.stamp = clock,
                           !.mode = IF found THEN file.mode ELSE "default"] \in Local
      BY <3>1 DEF Local
    <3> QED
      BY <1>0, <3>2 DEF TypeOK
  <2>2. used' \in [Writes -> SUBSET Seconds] /\ pc' \in [Writes -> Places]
    BY <1>0 DEF TypeOK, Places
  <2>3. \A v \in Writes : channel = v <=> pc'[v] = "backup"
    BY <1>0 DEF TypeOK
  <2> QED
    BY <1>0, <2>1, <2>2, <2>3 DEF TypeOK
<1>2. RootInv' /\ WrittenInv'
  BY <1>0 DEF TypeOK, RootInv, WrittenInv
<1>3. /\ local'[w].existed = found /\ local'[w].stamp = clock
      /\ local'[w].mode = IF found THEN file.mode ELSE "default"
      /\ \A v \in Writes : v # w => local'[v] = local[v] /\ pc'[v] = pc[v]
  BY <1>0 DEF TypeOK, Local
<1>4. ModeInv'
  BY <1>0, <1>3 DEF ModeInv, Unseen, Exists, TypeOK
<1>5. StampInv'
  BY <1>0, <1>3 DEF StampInv, TypeOK
<1>6. UntouchedInv'
  BY <1>0, <1>3 DEF UntouchedInv, Unseen, SameSecond, Saved, Exists, TypeOK
<1>7. TouchedInv'
  BY <1>0, <1>3 DEF TouchedInv, Unseen, SameSecond, Over, TypeOK
<1> QED
  BY <1>1, <1>2, <1>4, <1>5, <1>6, <1>7

LEMMA ChannelLostStep ==
    ASSUME IInv, NEW w \in Writes, ChannelLost(w)
    PROVE  IInv'
<1> USE WriteAssumption DEF IInv
<1>1. TypeOK'
  BY DEF ChannelLost, Fail, Goto, serverVars, historyVars, TypeOK, Places, Local, Contents
<1>2. RootInv'
  BY DEF ChannelLost, Fail, Goto, serverVars, historyVars, TypeOK, RootInv, Grants
<1>3. WrittenInv'
  BY DEF ChannelLost, Fail, Goto, serverVars, historyVars, TypeOK, WrittenInv
<1>4. ModeInv'
  BY DEF ChannelLost, Fail, Goto, serverVars, historyVars, TypeOK, ModeInv, StampInv, Unseen,
     Exists, Local
<1>5. StampInv'
  BY DEF ChannelLost, Fail, Goto, serverVars, historyVars, TypeOK, StampInv, Local
<1>6. UntouchedInv'
  BY DEF ChannelLost, Fail, Goto, serverVars, historyVars, TypeOK, StampInv, UntouchedInv,
     Unseen, SameSecond, Saved, Exists, Local
<1>7. TouchedInv'
  BY DEF ChannelLost, Fail, Goto, serverVars, historyVars, TypeOK, StampInv, UntouchedInv,
     TouchedInv, Unseen, SameSecond, Saved, Over, Local
<1> QED
  BY <1>1, <1>2, <1>3, <1>4, <1>5, <1>6, <1>7

LEMMA ReadOldStep ==
    ASSUME IInv, NEW w \in Writes, ReadOld(w)
    PROVE  IInv'
<1> USE WriteAssumption DEF IInv
<1>1. TypeOK'
  BY DEF ReadOld, Goto, serverVars, historyVars, TypeOK, Places, Local, Contents
<1>2. RootInv'
  BY DEF ReadOld, Goto, serverVars, historyVars, TypeOK, RootInv, Grants
<1>3. WrittenInv'
  BY DEF ReadOld, Goto, serverVars, historyVars, TypeOK, WrittenInv
<1>4. ModeInv'
  BY DEF ReadOld, Goto, serverVars, historyVars, TypeOK, ModeInv, StampInv, Unseen, Exists,
     Local
<1>5. StampInv'
  BY DEF ReadOld, Goto, serverVars, historyVars, TypeOK, StampInv, Local
<1>6. UntouchedInv'
  BY DEF ReadOld, Goto, serverVars, historyVars, TypeOK, StampInv, UntouchedInv, Unseen,
     SameSecond, Saved, Exists, Local
<1>7. TouchedInv'
  BY DEF ReadOld, Goto, serverVars, historyVars, TypeOK, StampInv, UntouchedInv, TouchedInv,
     Unseen, SameSecond, Saved, Over, Local
<1> QED
  BY <1>1, <1>2, <1>3, <1>4, <1>5, <1>6, <1>7

LEMMA ReadFailedStep ==
    ASSUME IInv, NEW w \in Writes, ReadFailed(w)
    PROVE  IInv'
<1> USE WriteAssumption DEF IInv
<1>1. TypeOK'
  BY DEF ReadFailed, Fail, Goto, serverVars, historyVars, TypeOK, Places, Local, Contents
<1>2. RootInv'
  BY DEF ReadFailed, Fail, Goto, serverVars, historyVars, TypeOK, RootInv, Grants
<1>3. WrittenInv'
  BY DEF ReadFailed, Fail, Goto, serverVars, historyVars, TypeOK, WrittenInv
<1>4. ModeInv'
  BY DEF ReadFailed, Fail, Goto, serverVars, historyVars, TypeOK, ModeInv, StampInv, Unseen,
     Exists, Local
<1>5. StampInv'
  BY DEF ReadFailed, Fail, Goto, serverVars, historyVars, TypeOK, StampInv, Local
<1>6. UntouchedInv'
  BY DEF ReadFailed, Fail, Goto, serverVars, historyVars, TypeOK, StampInv, UntouchedInv,
     Unseen, SameSecond, Saved, Exists, Local
<1>7. TouchedInv'
  BY DEF ReadFailed, Fail, Goto, serverVars, historyVars, TypeOK, StampInv, UntouchedInv,
     TouchedInv, Unseen, SameSecond, Saved, Over, Local
<1> QED
  BY <1>1, <1>2, <1>3, <1>4, <1>5, <1>6, <1>7

LEMMA WriteBackupStep ==
    ASSUME IInv, NEW w \in Writes, WriteBackup(w)
    PROVE  IInv'
<1> USE WriteAssumption DEF IInv
<1>1. TypeOK'
  BY DEF WriteBackup, Goto, serverVars, historyVars, TypeOK, Places, Local, Contents
<1>2. RootInv'
  BY DEF WriteBackup, Goto, serverVars, historyVars, TypeOK, RootInv, Grants
<1>3. WrittenInv'
  BY DEF WriteBackup, Goto, serverVars, historyVars, TypeOK, WrittenInv
<1>4. ModeInv'
  BY DEF WriteBackup, Goto, serverVars, historyVars, TypeOK, ModeInv, StampInv, Unseen,
     Exists, Local
<1>5. StampInv'
  BY DEF WriteBackup, Goto, serverVars, historyVars, TypeOK, StampInv, Local
<1>6. UntouchedInv'
  BY DEF WriteBackup, Goto, serverVars, historyVars, TypeOK, StampInv, UntouchedInv, Unseen,
     SameSecond, Saved, Exists, Local
<1>7. TouchedInv'
  BY DEF WriteBackup, Goto, serverVars, historyVars, TypeOK, StampInv, UntouchedInv,
     TouchedInv, Unseen, SameSecond, Saved, Over, Local
<1> QED
  BY <1>1, <1>2, <1>3, <1>4, <1>5, <1>6, <1>7

LEMMA BackupFailedStep ==
    ASSUME IInv, NEW w \in Writes, BackupFailed(w)
    PROVE  IInv'
<1> USE WriteAssumption DEF IInv
<1>1. TypeOK'
  BY DEF BackupFailed, Fail, Goto, Broken, serverVars, historyVars, TypeOK, Places, Local,
     Contents
<1>2. RootInv'
  BY DEF BackupFailed, Fail, Goto, Broken, serverVars, historyVars, TypeOK, RootInv, Grants
<1>3. WrittenInv'
  BY DEF BackupFailed, Fail, Goto, Broken, serverVars, historyVars, TypeOK, WrittenInv
<1>4. ModeInv'
  BY DEF BackupFailed, Fail, Goto, Broken, serverVars, historyVars, TypeOK, ModeInv, StampInv,
     Unseen, Exists, Local
<1>5. StampInv'
  BY DEF BackupFailed, Fail, Goto, Broken, serverVars, historyVars, TypeOK, StampInv, Local
<1>6. UntouchedInv'
  BY DEF BackupFailed, Fail, Goto, Broken, serverVars, historyVars, TypeOK, StampInv,
     UntouchedInv, Unseen, SameSecond, Saved, Exists, Local
<1>7. TouchedInv'
  BY DEF BackupFailed, Fail, Goto, Broken, serverVars, historyVars, TypeOK, StampInv,
     UntouchedInv, TouchedInv, Unseen, SameSecond, Saved, Over, Local
<1> QED
  BY <1>1, <1>2, <1>3, <1>4, <1>5, <1>6, <1>7

LEMMA WriteFileStep ==
    ASSUME IInv, NEW w \in Writes, WriteFile(w)
    PROVE  IInv'
<1> USE WriteAssumption DEF IInv
<1>1. TypeOK'
  BY DEF WriteFile, Goto, MayWrite, serverVars, historyVars, TypeOK, Places, Local, Contents
<1>2. RootInv'
  BY DEF WriteFile, Goto, MayWrite, serverVars, historyVars, TypeOK, RootInv, Grants
<1>3. WrittenInv'
  BY DEF WriteFile, Goto, MayWrite, serverVars, historyVars, TypeOK, WrittenInv
<1>4. ModeInv'
  BY DEF WriteFile, Goto, MayWrite, serverVars, historyVars, TypeOK, ModeInv, StampInv,
     Unseen, Exists, Local
<1>5. StampInv'
  BY DEF WriteFile, Goto, MayWrite, serverVars, historyVars, TypeOK, StampInv, Local
<1>6. UntouchedInv'
  BY DEF WriteFile, Goto, MayWrite, serverVars, historyVars, TypeOK, StampInv, UntouchedInv,
     Unseen, SameSecond, Saved, Exists, Local
<1>7. TouchedInv'
  BY DEF WriteFile, Goto, MayWrite, serverVars, historyVars, TypeOK, StampInv, UntouchedInv,
     TouchedInv, Unseen, SameSecond, Saved, Over, Local
<1> QED
  BY <1>1, <1>2, <1>3, <1>4, <1>5, <1>6, <1>7

LEMMA WriteFailedStep ==
    ASSUME IInv, NEW w \in Writes, WriteFailed(w)
    PROVE  IInv'
<1> USE WriteAssumption DEF IInv
<1>1. TypeOK'
  BY DEF WriteFailed, Fail, Goto, MayWrite, serverVars, historyVars, TypeOK, Places, Local,
     Contents
<1>2. RootInv'
  BY DEF WriteFailed, Fail, Goto, MayWrite, serverVars, historyVars, TypeOK, RootInv, Grants
<1>3. WrittenInv'
  BY DEF WriteFailed, Fail, Goto, MayWrite, serverVars, historyVars, TypeOK, WrittenInv
<1>4. ModeInv'
  BY DEF WriteFailed, Fail, Goto, MayWrite, serverVars, historyVars, TypeOK, ModeInv,
     StampInv, Unseen, Exists, Local, Torn, Absent, Original
<1>5. StampInv'
  BY DEF WriteFailed, Fail, Goto, MayWrite, serverVars, historyVars, TypeOK, StampInv, Local
<1>6. UntouchedInv'
  BY DEF WriteFailed, Fail, Goto, MayWrite, serverVars, historyVars, TypeOK, StampInv,
     UntouchedInv, Unseen, SameSecond, Saved, Exists, Local
<1>7. TouchedInv'
  BY DEF WriteFailed, Fail, Goto, MayWrite, serverVars, historyVars, TypeOK, StampInv,
     UntouchedInv, TouchedInv, Unseen, SameSecond, Saved, Over, Local
<1> QED
  BY <1>1, <1>2, <1>3, <1>4, <1>5, <1>6, <1>7

LEMMA DeniedWithSudoStep ==
    ASSUME IInv, NEW w \in Writes, DeniedWithSudo(w)
    PROVE  IInv'
<1> USE WriteAssumption DEF IInv
<1>1. TypeOK'
  BY DEF DeniedWithSudo, Denied, MayWrite, serverVars, historyVars, TypeOK, Places, Local,
     Contents
<1>2. RootInv'
  BY DEF DeniedWithSudo, Denied, MayWrite, serverVars, historyVars, TypeOK, RootInv, Grants
<1>3. WrittenInv'
  BY DEF DeniedWithSudo, Denied, MayWrite, serverVars, historyVars, TypeOK, WrittenInv
<1>4. ModeInv'
  BY DEF DeniedWithSudo, Denied, MayWrite, serverVars, historyVars, TypeOK, ModeInv, StampInv,
     Unseen, Exists, Local
<1>5. StampInv'
  BY DEF DeniedWithSudo, Denied, MayWrite, serverVars, historyVars, TypeOK, StampInv, Local
<1>6. UntouchedInv'
  BY DEF DeniedWithSudo, Denied, MayWrite, serverVars, historyVars, TypeOK, StampInv,
     UntouchedInv, Unseen, SameSecond, Saved, Exists, Local
<1>7. TouchedInv'
  <2> SUFFICES ASSUME last # None, ~Unseen', ~SameSecond'
               PROVE  \E v \in Writes : pc'[v] \in Over /\ \E s \in used'[v] : backup[s] = Original
    BY DEF DeniedWithSudo, serverVars, TouchedInv
  <2>1. /\ pc[w] \in {"read", "backup", "write"} /\ \A v \in Writes : v # w => pc'[v] = pc[v]
        /\ \A v \in Writes : used[v] \subseteq used'[v] /\ local'[v].existed = local[v].existed
        /\ pc'[w] # "stat"
    BY DEF DeniedWithSudo, Denied, TypeOK, Local
  <2>2. ~Unseen /\ ~SameSecond
    BY <2>1 DEF Unseen, SameSecond
  <2>3. PICK v \in Writes : pc[v] \in Over /\ \E s \in used[v] : backup[s] = Original
    BY <2>2 DEF TouchedInv
  <2> QED
    BY <2>1, <2>3 DEF Over
<1> QED
  BY <1>1, <1>2, <1>3, <1>4, <1>5, <1>6, <1>7

LEMMA DeniedForGoodStep ==
    ASSUME IInv, NEW w \in Writes, DeniedForGood(w)
    PROVE  IInv'
<1> USE WriteAssumption DEF IInv
<1>1. TypeOK'
  BY DEF DeniedForGood, Fail, Goto, Denied, serverVars, historyVars, TypeOK, Places, Local,
     Contents
<1>2. RootInv'
  BY DEF DeniedForGood, Fail, Goto, Denied, serverVars, historyVars, TypeOK, RootInv, Grants
<1>3. WrittenInv'
  BY DEF DeniedForGood, Fail, Goto, Denied, serverVars, historyVars, TypeOK, WrittenInv
<1>4. ModeInv'
  BY DEF DeniedForGood, Fail, Goto, Denied, serverVars, historyVars, TypeOK, ModeInv,
     StampInv, Unseen, Exists, Local
<1>5. StampInv'
  BY DEF DeniedForGood, Fail, Goto, Denied, serverVars, historyVars, TypeOK, StampInv, Local
<1>6. UntouchedInv'
  BY DEF DeniedForGood, Fail, Goto, Denied, serverVars, historyVars, TypeOK, StampInv,
     UntouchedInv, Unseen, SameSecond, Saved, Exists, Local
<1>7. TouchedInv'
  BY DEF DeniedForGood, Fail, Goto, Denied, serverVars, historyVars, TypeOK, StampInv,
     UntouchedInv, TouchedInv, Unseen, SameSecond, Saved, Over, Local
<1> QED
  BY <1>1, <1>2, <1>3, <1>4, <1>5, <1>6, <1>7

LEMMA CopyBackupStep ==
    ASSUME IInv, NEW w \in Writes, CopyBackup(w)
    PROVE  IInv'
<1> USE WriteAssumption DEF IInv
<1>1. TypeOK'
  BY DEF CopyBackup, Goto, serverVars, historyVars, TypeOK, Places, Local, Contents
<1>2. RootInv'
  BY DEF CopyBackup, Goto, serverVars, historyVars, TypeOK, RootInv, Grants
<1>3. WrittenInv'
  BY DEF CopyBackup, Goto, serverVars, historyVars, TypeOK, WrittenInv
<1>4. ModeInv'
  BY DEF CopyBackup, Goto, serverVars, historyVars, TypeOK, ModeInv, StampInv, Unseen, Exists,
     Local
<1>5. StampInv'
  BY DEF CopyBackup, Goto, serverVars, historyVars, TypeOK, StampInv, Local
<1>6. UntouchedInv'
  BY DEF CopyBackup, Goto, serverVars, historyVars, TypeOK, StampInv, UntouchedInv, Unseen,
     SameSecond, Saved, Exists, Local
<1>7. TouchedInv'
  BY DEF CopyBackup, Goto, serverVars, historyVars, TypeOK, StampInv, UntouchedInv,
     TouchedInv, Unseen, SameSecond, Saved, Over, Local
<1> QED
  BY <1>1, <1>2, <1>3, <1>4, <1>5, <1>6, <1>7

LEMMA CopyFailedStep ==
    ASSUME IInv, NEW w \in Writes, CopyFailed(w)
    PROVE  IInv'
<1> USE WriteAssumption DEF IInv
<1>1. TypeOK'
  BY DEF CopyFailed, Fail, Goto, Broken, serverVars, historyVars, TypeOK, Places, Local,
     Contents
<1>2. RootInv'
  BY DEF CopyFailed, Fail, Goto, Broken, serverVars, historyVars, TypeOK, RootInv, Grants
<1>3. WrittenInv'
  BY DEF CopyFailed, Fail, Goto, Broken, serverVars, historyVars, TypeOK, WrittenInv
<1>4. ModeInv'
  BY DEF CopyFailed, Fail, Goto, Broken, serverVars, historyVars, TypeOK, ModeInv, StampInv,
     Unseen, Exists, Local
<1>5. StampInv'
  BY DEF CopyFailed, Fail, Goto, Broken, serverVars, historyVars, TypeOK, StampInv, Local
<1>6. UntouchedInv'
  BY DEF CopyFailed, Fail, Goto, Broken, serverVars, historyVars, TypeOK, StampInv,
     UntouchedInv, Unseen, SameSecond, Saved, Exists, Local
<1>7. TouchedInv'
  BY DEF CopyFailed, Fail, Goto, Broken, serverVars, historyVars, TypeOK, StampInv,
     UntouchedInv, TouchedInv, Unseen, SameSecond, Saved, Over, Local
<1> QED
  BY <1>1, <1>2, <1>3, <1>4, <1>5, <1>6, <1>7

LEMMA WriteTempStep ==
    ASSUME IInv, NEW w \in Writes, WriteTemp(w)
    PROVE  IInv'
<1> USE WriteAssumption DEF IInv
<1>1. TypeOK'
  BY DEF WriteTemp, Goto, serverVars, historyVars, TypeOK, Places, Local, Contents
<1>2. RootInv'
  BY DEF WriteTemp, Goto, serverVars, historyVars, TypeOK, RootInv, Grants
<1>3. WrittenInv'
  BY DEF WriteTemp, Goto, serverVars, historyVars, TypeOK, WrittenInv
<1>4. ModeInv'
  BY DEF WriteTemp, Goto, serverVars, historyVars, TypeOK, ModeInv, StampInv, Unseen, Exists,
     Local
<1>5. StampInv'
  BY DEF WriteTemp, Goto, serverVars, historyVars, TypeOK, StampInv, Local
<1>6. UntouchedInv'
  BY DEF WriteTemp, Goto, serverVars, historyVars, TypeOK, StampInv, UntouchedInv, Unseen,
     SameSecond, Saved, Exists, Local
<1>7. TouchedInv'
  BY DEF WriteTemp, Goto, serverVars, historyVars, TypeOK, StampInv, UntouchedInv, TouchedInv,
     Unseen, SameSecond, Saved, Over, Local
<1> QED
  BY <1>1, <1>2, <1>3, <1>4, <1>5, <1>6, <1>7

LEMMA TempFailedStep ==
    ASSUME IInv, NEW w \in Writes, TempFailed(w)
    PROVE  IInv'
<1> USE WriteAssumption DEF IInv
<1>1. TypeOK'
  BY DEF TempFailed, Fail, Goto, Broken, serverVars, historyVars, TypeOK, Places, Local,
     Contents
<1>2. RootInv'
  BY DEF TempFailed, Fail, Goto, Broken, serverVars, historyVars, TypeOK, RootInv, Grants
<1>3. WrittenInv'
  BY DEF TempFailed, Fail, Goto, Broken, serverVars, historyVars, TypeOK, WrittenInv
<1>4. ModeInv'
  BY DEF TempFailed, Fail, Goto, Broken, serverVars, historyVars, TypeOK, ModeInv, StampInv,
     Unseen, Exists, Local
<1>5. StampInv'
  BY DEF TempFailed, Fail, Goto, Broken, serverVars, historyVars, TypeOK, StampInv, Local
<1>6. UntouchedInv'
  BY DEF TempFailed, Fail, Goto, Broken, serverVars, historyVars, TypeOK, StampInv,
     UntouchedInv, Unseen, SameSecond, Saved, Exists, Local
<1>7. TouchedInv'
  BY DEF TempFailed, Fail, Goto, Broken, serverVars, historyVars, TypeOK, StampInv,
     UntouchedInv, TouchedInv, Unseen, SameSecond, Saved, Over, Local
<1> QED
  BY <1>1, <1>2, <1>3, <1>4, <1>5, <1>6, <1>7

LEMMA InstallStep ==
    ASSUME IInv, NEW w \in Writes, Install(w)
    PROVE  IInv'
<1> USE WriteAssumption DEF IInv
<1>1. TypeOK'
  BY DEF Install, Goto, Installed, OwnedByRoot, serverVars, historyVars, TypeOK, Places,
     Local, Contents
<1>2. RootInv'
  BY DEF Install, Goto, Installed, OwnedByRoot, serverVars, historyVars, TypeOK, RootInv, Grants
<1>3. WrittenInv'
  BY DEF Install, Goto, Installed, OwnedByRoot, serverVars, historyVars, TypeOK, WrittenInv
<1>4. ModeInv'
  BY DEF Install, Goto, Installed, OwnedByRoot, serverVars, historyVars, TypeOK, ModeInv,
     StampInv, Unseen, Exists, Local, WrittenInv
<1>5. StampInv'
  BY DEF Install, Goto, Installed, OwnedByRoot, serverVars, historyVars, TypeOK, StampInv, Local
<1>6. UntouchedInv'
  BY DEF Install, Goto, Installed, OwnedByRoot, serverVars, historyVars, TypeOK, StampInv,
     UntouchedInv, Unseen, SameSecond, Saved, Exists, Local
<1>7. TouchedInv'
  BY DEF Install, Goto, Installed, OwnedByRoot, serverVars, historyVars, TypeOK, StampInv,
     UntouchedInv, TouchedInv, Unseen, SameSecond, Saved, Over, Local
<1> QED
  BY <1>1, <1>2, <1>3, <1>4, <1>5, <1>6, <1>7

LEMMA InstallFailedStep ==
    ASSUME IInv, NEW w \in Writes, InstallFailed(w)
    PROVE  IInv'
<1> USE WriteAssumption DEF IInv
<1>1. TypeOK'
  BY DEF InstallFailed, Goto, Installed, OwnedByRoot, serverVars, historyVars, TypeOK, Places,
     Local, Contents
<1>2. RootInv'
  BY DEF InstallFailed, Goto, Installed, OwnedByRoot, serverVars, historyVars, TypeOK,
     RootInv, Grants
<1>3. WrittenInv'
  BY DEF InstallFailed, Goto, Installed, OwnedByRoot, serverVars, historyVars, TypeOK,
     WrittenInv
<1>4. ModeInv'
  BY DEF InstallFailed, Goto, Installed, OwnedByRoot, serverVars, historyVars, TypeOK,
     ModeInv, StampInv, Unseen, Exists, Local, WrittenInv
<1>5. StampInv'
  BY DEF InstallFailed, Goto, Installed, OwnedByRoot, serverVars, historyVars, TypeOK,
     StampInv, Local
<1>6. UntouchedInv'
  BY DEF InstallFailed, Goto, Installed, OwnedByRoot, serverVars, historyVars, TypeOK,
     StampInv, UntouchedInv, Unseen, SameSecond, Saved, Exists, Local
<1>7. TouchedInv'
  BY DEF InstallFailed, Goto, Installed, OwnedByRoot, serverVars, historyVars, TypeOK,
     StampInv, UntouchedInv, TouchedInv, Unseen, SameSecond, Saved, Over, Local
<1> QED
  BY <1>1, <1>2, <1>3, <1>4, <1>5, <1>6, <1>7

LEMMA RemoveTempStep ==
    ASSUME IInv, NEW w \in Writes, RemoveTemp(w)
    PROVE  IInv'
<1> USE WriteAssumption DEF IInv
<1>1. TypeOK'
  BY DEF RemoveTemp, Goto, serverVars, historyVars, TypeOK, Places, Local, Contents
<1>2. RootInv'
  BY DEF RemoveTemp, Goto, serverVars, historyVars, TypeOK, RootInv, Grants
<1>3. WrittenInv'
  BY DEF RemoveTemp, Goto, serverVars, historyVars, TypeOK, WrittenInv
<1>4. ModeInv'
  BY DEF RemoveTemp, Goto, serverVars, historyVars, TypeOK, ModeInv, StampInv, Unseen, Exists,
     Local
<1>5. StampInv'
  BY DEF RemoveTemp, Goto, serverVars, historyVars, TypeOK, StampInv, Local
<1>6. UntouchedInv'
  BY DEF RemoveTemp, Goto, serverVars, historyVars, TypeOK, StampInv, UntouchedInv, Unseen,
     SameSecond, Saved, Exists, Local
<1>7. TouchedInv'
  BY DEF RemoveTemp, Goto, serverVars, historyVars, TypeOK, StampInv, UntouchedInv,
     TouchedInv, Unseen, SameSecond, Saved, Over, Local
<1> QED
  BY <1>1, <1>2, <1>3, <1>4, <1>5, <1>6, <1>7

LEMMA TickStep == ASSUME IInv, Tick PROVE IInv'
<1> USE WriteAssumption DEF IInv
<1>1. TypeOK'
  BY DEF Tick, Seconds, serverVars, historyVars, TypeOK
<1>2. UNCHANGED <<grant, sudo, file, backup, temp, pc, local, used, rooted, last>>
  BY DEF Tick, serverVars, historyVars
<1>3. RootInv' /\ WrittenInv' /\ ModeInv' /\ StampInv'
  BY <1>2 DEF RootInv, WrittenInv, ModeInv, StampInv, Unseen, Exists
<1>4. UntouchedInv' /\ TouchedInv'
  BY <1>2 DEF UntouchedInv, TouchedInv, Unseen, SameSecond
<1> QED
  BY <1>1, <1>3, <1>4

LEMMA Stepwise == IInv /\ [Next]_vars => IInv'
<1> SUFFICES ASSUME IInv, [Next]_vars PROVE IInv'
  OBVIOUS
<1>1. ASSUME NEW w \in Writes, Regular(w) PROVE IInv'
  BY <1>1, StatStep, ChannelLostStep, ReadOldStep, ReadFailedStep, WriteBackupStep,
     BackupFailedStep, WriteFileStep, WriteFailedStep DEF Regular
<1>2. ASSUME NEW w \in Writes, Privileged(w) PROVE IInv'
  BY <1>2, DeniedWithSudoStep, DeniedForGoodStep, CopyBackupStep, CopyFailedStep, WriteTempStep,
     TempFailedStep, InstallStep, InstallFailedStep, RemoveTempStep DEF Privileged
<1>3. CASE Tick
  BY <1>3, TickStep
<1>4. CASE UNCHANGED vars
  BY <1>4 DEF vars, serverVars, historyVars, IInv, TypeOK, RootInv, WrittenInv, ModeInv,
     StampInv,
     UntouchedInv, TouchedInv, Unseen, SameSecond, Exists
<1> QED
  BY <1>1, <1>2, <1>3, <1>4 DEF Next, Finished

LEMMA Inductive == Spec => []IInv
<1> QED
  BY Initially, Stepwise, PTL DEF Spec

(* The type invariant; with it, the channel is held exactly between the    *)
(* reading of the old content and its backup.                              *)
THEOREM TypeCorrect == Spec => []TypeOK
<1>1. IInv => TypeOK
  BY DEF IInv
<1> QED
  BY <1>1, Inductive, PTL

(* A file that is touched leaves its original content in a complete        *)
(* backup, for any number of concurrent writes.                            *)
THEOREM OriginalIsKept == Spec => []OriginalSurvives
<1>1. ASSUME IInv, last # None, ~Unseen, ~SameSecond PROVE SomeBackup(Original)
  <2>1. PICK w \in Writes : \E s \in used[w] : backup[s] = Original
    BY <1>1 DEF IInv, TouchedInv
  <2>2. used[w] \subseteq Seconds
    BY <1>1 DEF IInv, TypeOK
  <2> QED
    BY <2>1, <2>2 DEF SomeBackup
<1>2. IInv => OriginalSurvives
  BY <1>1 DEF OriginalSurvives, Touched
<1> QED
  BY <1>2, Inductive, PTL

(* Root writes only what was announced, and only where a right lacks.      *)
THEOREM RootWhenDenied == Spec => []RootOnlyWhenDenied
<1>1. IInv => RootOnlyWhenDenied
  BY DEF IInv, TypeOK, RootInv, RootOnlyWhenDenied
<1> QED
  BY <1>1, Inductive, PTL

(* A write reported as done is in the file until another touches it.       *)
THEOREM SuccessIsWritten == Spec => []SuccessMeansWritten
<1>1. IInv => SuccessMeansWritten
  BY DEF IInv, WrittenInv, SuccessMeansWritten
<1> QED
  BY <1>1, Inductive, PTL

(* The mode of a file that was there is kept.                              *)
THEOREM ModeIsKept == Spec => []ModeKept
<1>1. IInv => ModeKept
  BY DEF IInv, ModeInv, ModeKept, Touched, Exists
<1> QED
  BY <1>1, Inductive, PTL

=============================================================================
