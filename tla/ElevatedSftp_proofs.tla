------------------------ MODULE ElevatedSftp_proofs -------------------------
(* Proofs about ElevatedSftp, for any number of commands, switches and     *)
(* ends of the session.                                                    *)
EXTENDS ElevatedSftp, SequenceTheorems, TLAPS

(* A command at work has passed the check of its channel under its lock;   *)
(* what it recorded before is still true of the channel.                   *)
CommandOK(c) ==
    /\ cmd[c].state \in {"start", "access", "between", "queued", "running"} =>
          cmd[c].slot \in Made /\ cmd[c].user \in Users
    /\ cmd[c].state = "resolve" /\ cmd[c].slot # None => cmd[c].slot \in Made
    /\ cmd[c].state = "access" => cmd[c].auditAs = cmd[c].user \/ Revoked(cmd[c].slot)
    /\ cmd[c].state \in {"between", "queued", "running"} =>
          cmd[c].auditAs = cmd[c].user /\ slots[cmd[c].slot].user = cmd[c].user
    /\ cmd[c].state \in {"queued", "running"} => cmd[c].ops < MaxOps
    /\ cmd[c].state = "opening" => HasLock(sftp, c)
    /\ cmd[c].state = "running" => HasLock(slots[cmd[c].slot].line, c)
    /\ cmd[c].worked =>
          /\ cmd[c].slot \in Made /\ slots[cmd[c].slot].user = cmd[c].user
          /\ cmd[c].changes => cmd[c].state \in {"between", "queued", "running", "done"}
          /\ cmd[c].changes /\ cmd[c].state = "done" => cmd[c].audited = cmd[c].user
    /\ cmd[c].stopped =>
          /\ cmd[c].refused /\ cmd[c].state # "running"
          /\ cmd[c].slot \in Made /\ Revoked(cmd[c].slot)
          /\ cmd[c].state = "done" => cmd[c].result = "inactive"
    /\ cmd[c].state \in {"idle", "resolve", "ensure", "opening", "normal", "start"} =>
          ~cmd[c].worked /\ ~cmd[c].stopped

CommandInv == \A c \in Commands : CommandOK(c)

(* A switch closes a slot that exists and is revoked already.              *)
SwitchInv ==
    \A w \in Switches :
        /\ switch[w].state \in {"probe", "open", "insert"} => switch[w].user \in Users
        /\ switch[w].state \in {"mark", "drain"} => switch[w].slot \in Made
        /\ switch[w].state = "drain" => Revoked(switch[w].slot)

(* Once the slot has been looked for, nothing is registered any more.      *)
EndInv ==
    \A d \in Ends :
        /\ end[d].state # "idle" => ~alive
        /\ end[d].state \in {"mark", "hangup", "done"} => registered = None
        /\ end[d].state = "mark" => end[d].slot \in Made
        /\ end[d].state \in {"hangup", "done"} /\ end[d].slot # None =>
              end[d].slot \in Made /\ Revoked(end[d].slot)
        /\ end[d].state \in {"idle", "unslot"} => end[d].slot = None

(* A slot that was taken from the register is about to be marked.          *)
AboutToBeMarked(s) ==
    \/ \E w \in Switches : switch[w].state = "mark" /\ switch[w].slot = s
    \/ \E d \in Ends : end[d].state = "mark" /\ end[d].slot = s

RegisterInv ==
    \A s \in Made : s = registered \/ Revoked(s) \/ AboutToBeMarked(s)

OverInv ==
    /\ \A s \in Made : ~slots[s].present => Revoked(s)
    /\ \A s \in over : Revoked(s)
    /\ \A s \in closed : ~slots[s].present
    /\ \A c \in Commands : cmd[c].state = "running" => cmd[c].slot \notin closed

IInv ==
    TypeOK /\ CommandInv /\ SwitchInv /\ EndInv /\ RegisterInv /\ OverInv

-----------------------------------------------------------------------------
(* What the calls do to the slots.                                         *)

(* Whose rights they are and whether they are revoked stays as it is.      *)
SameRights ==
    /\ slots' \in Seq(Slot) /\ Made' = Made
    /\ \A s \in Made :
        /\ slots'[s].user = slots[s].user
        /\ slots'[s].revoked = slots[s].revoked
        /\ slots'[s].present = slots[s].present

LEMMA QueueSlot ==
    ASSUME slots \in Seq(Slot), NEW s \in Made, NEW p \in Callers, slots' = Queue(s, p)
    PROVE  /\ SameRights
           /\ \A t \in Made, q \in Callers :
                 HasLock(slots[t].line, q) => HasLock(slots'[t].line, q)
<1>1. slots \in [1 .. Len(slots) -> Slot] /\ Made = 1 .. Len(slots) /\ Len(slots) \in Nat
  BY DEF Made
<1> DEFINE e == [slots[s] EXCEPT !.line = Append(@, p)]
<1>2. slots[s] \in Slot /\ slots[s].line \in Seq(Callers)
  BY <1>1 DEF Slot
<1>3. Append(slots[s].line, p) \in Seq(Callers)
  BY <1>2
<1>4. e \in Slot
  BY <1>2, <1>3 DEF Slot
<1>5. slots' = [slots EXCEPT ![s] = e]
  BY DEF Queue
<1> HIDE DEF e
<1>6. slots' \in Seq(Slot) /\ Made' = Made
  BY <1>1, <1>4, <1>5 DEF Made
<1> USE DEF e
<1>7. /\ slots'[s] = e
      /\ e.user = slots[s].user /\ e.revoked = slots[s].revoked /\ e.present = slots[s].present
      /\ e.line = Append(slots[s].line, p)
  BY <1>1, <1>2, <1>5 DEF Slot
<1>8. \A t \in Made : t # s => slots'[t] = slots[t]
  BY <1>5
<1>9. \A q \in Callers : HasLock(slots[s].line, q) => HasLock(e.line, q)
  BY <1>2, <1>7 DEF HasLock
<1> QED
  BY <1>6, <1>7, <1>8, <1>9 DEF SameRights

(* Only the holder loses the lock.                                         *)
LEMMA LeaveSlot ==
    ASSUME slots \in Seq(Slot), NEW s \in Made, NEW p \in Callers,
           HasLock(slots[s].line, p), slots' = Leave(s)
    PROVE  /\ SameRights
           /\ \A t \in Made, q \in Callers :
                 q # p /\ HasLock(slots[t].line, q) => HasLock(slots'[t].line, q)
<1>1. slots \in [1 .. Len(slots) -> Slot] /\ Made = 1 .. Len(slots) /\ Len(slots) \in Nat
  BY DEF Made
<1> DEFINE e == [slots[s] EXCEPT !.line = Tail(@)]
<1>2. slots[s] \in Slot /\ slots[s].line \in Seq(Callers) /\ slots[s].line # <<>>
  BY <1>1 DEF Slot, HasLock
<1>3. Tail(slots[s].line) \in Seq(Callers)
  BY <1>2
<1>4. e \in Slot
  BY <1>2, <1>3 DEF Slot
<1>5. slots' = [slots EXCEPT ![s] = e]
  BY DEF Leave
<1> HIDE DEF e
<1>6. slots' \in Seq(Slot) /\ Made' = Made
  BY <1>1, <1>4, <1>5 DEF Made
<1> USE DEF e
<1>7. /\ slots'[s] = e
      /\ e.user = slots[s].user /\ e.revoked = slots[s].revoked /\ e.present = slots[s].present
  BY <1>1, <1>2, <1>5 DEF Slot
<1>8. \A t \in Made : t # s => slots'[t] = slots[t]
  BY <1>5
<1>9. \A q \in Callers : HasLock(slots[s].line, q) => q = p
  BY DEF HasLock
<1> QED
  BY <1>6, <1>7, <1>8, <1>9 DEF SameRights

-----------------------------------------------------------------------------
(* What a step leaves as it was.                                           *)

Grows ==
    /\ Made \subseteq Made'
    /\ \A s \in Made : slots'[s].user = slots[s].user /\ (Revoked(s) => Revoked(s)')

(* A lock is left by its holder only.                                      *)
SftpKept(c) ==
    \A b \in Callers : b # c /\ HasLock(sftp, b) => HasLock(sftp', b)

LEMMA SftpLine ==
    ASSUME sftp \in Seq(Callers), NEW c \in Callers,
           \/ sftp' = sftp
           \/ sftp' = Append(sftp, c)
           \/ HasLock(sftp, c) /\ sftp' = Tail(sftp)
           \/ HasLock(sftp, c) /\ sftp' = Append(Tail(sftp), c)
    PROVE  sftp' \in Seq(Callers) /\ SftpKept(c)
<1>1. CASE sftp' = sftp
  BY <1>1 DEF SftpKept
<1>2. CASE sftp' = Append(sftp, c)
  BY <1>2 DEF SftpKept, HasLock
<1>3. ASSUME HasLock(sftp, c) PROVE Tail(sftp) \in Seq(Callers) /\ SftpKept(c)
  BY <1>3 DEF SftpKept, HasLock
<1>4. CASE HasLock(sftp, c) /\ sftp' = Tail(sftp)
  BY <1>3, <1>4
<1>5. CASE HasLock(sftp, c) /\ sftp' = Append(Tail(sftp), c)
  BY <1>3, <1>5
<1> QED
  BY <1>1, <1>2, <1>4, <1>5

LEMMA CommandKept ==
    ASSUME NEW c \in Commands, CommandOK(c), cmd'[c] = cmd[c], Grows,
           HasLock(sftp, c) => HasLock(sftp', c),
           cmd[c].state = "running" => HasLock(slots'[cmd[c].slot].line, c)
    PROVE  CommandOK(c)'
BY DEF CommandOK, Grows

LEMMA RightsGrow == SameRights => Grows
BY DEF SameRights, Grows, Revoked

(* A step of a command disturbs nothing but the command.                   *)
LEMMA RightsKept ==
    ASSUME IInv, SameRights, UNCHANGED <<alive, registered, switch, end, over, closed>>,
           \A c \in Commands : cmd'[c].state = "running" => cmd'[c].slot \notin closed
    PROVE  SwitchInv' /\ EndInv' /\ RegisterInv' /\ OverInv'
<1> USE DEF IInv
<1>1. SwitchInv'
  BY DEF SwitchInv, SameRights, Revoked
<1>2. EndInv'
  BY DEF EndInv, SameRights, Revoked
<1>3. RegisterInv'
  BY DEF RegisterInv, SameRights, Revoked, AboutToBeMarked
<1>4. OverInv'
  BY DEF OverInv, SameRights, Revoked, TypeOK
<1> QED
  BY <1>1, <1>2, <1>3, <1>4

LEMMA CommandStep ==
    ASSUME IInv, NEW c \in Commands, NEW r \in Command, cmd' = [cmd EXCEPT ![c] = r],
           UNCHANGED <<alive, registered, switch, end, over, closed>>,
           opened' \in BOOLEAN, transport' \in Seq(Callers), sftp' \in Seq(Callers),
           SftpKept(c),
           SameRights,
           \A s \in Made, b \in Callers :
              b # c /\ HasLock(slots[s].line, b) => HasLock(slots'[s].line, b),
           CommandOK(c)',
           r.state = "running" => r.slot \notin closed
    PROVE  IInv'
<1> USE DEF IInv
<1>1. cmd \in [Commands -> Command] /\ cmd'[c] = r
  BY DEF TypeOK
<1>2. \A b \in Commands : b # c => cmd'[b] = cmd[b]
  BY <1>1
<1>3. TypeOK'
  BY <1>1 DEF TypeOK, SameRights
<1>4. ASSUME NEW b \in Commands, b # c PROVE CommandOK(b)'
  <2>1. CommandOK(b) /\ cmd'[b] = cmd[b] /\ b \in Callers
    BY <1>2, <1>4 DEF CommandInv, Callers
  <2>2. cmd[b].state = "running" => HasLock(slots'[cmd[b].slot].line, b)
    BY <1>4, <2>1 DEF CommandOK
  <2>3. HasLock(sftp, b) => HasLock(sftp', b)
    BY <1>4, <2>1 DEF SftpKept
  <2> QED
    BY <2>1, <2>2, <2>3, CommandKept, RightsGrow
<1>5. CommandInv'
  BY <1>4 DEF CommandInv
<1>6. \A b \in Commands : cmd'[b].state = "running" => cmd'[b].slot \notin closed
  BY <1>1, <1>2 DEF OverInv
<1> QED
  BY <1>3, <1>5, <1>6, RightsKept

(* The same when the slots are not touched.                                *)
LEMMA PlainStep ==
    ASSUME IInv, NEW c \in Commands, NEW r \in Command, cmd' = [cmd EXCEPT ![c] = r],
           UNCHANGED <<alive, registered, slots, switch, end, over, closed>>,
           opened' \in BOOLEAN, transport' \in Seq(Callers), sftp' \in Seq(Callers),
           SftpKept(c),
           CommandOK(c)', r.state # "running"
    PROVE  IInv'
<1>1. SameRights
  BY DEF SameRights, Made, IInv, TypeOK
<1> QED
  BY <1>1, CommandStep

-----------------------------------------------------------------------------
(* The steps of a command.                                                 *)

(* A record whose command is through.                                      *)
LEMMA Completed ==
    ASSUME NEW r \in Command, NEW body \in {"ok", "error", "inactive"}
    PROVE  LET f == Complete(r, body) IN
           /\ f \in Command /\ f.state = "done"
           /\ f.user = r.user /\ f.slot = r.slot /\ f.changes = r.changes /\ f.worked = r.worked
           /\ f.stopped = r.stopped /\ f.refused = r.refused /\ f.audited = r.audited
           /\ r.refused => f.result = "inactive"
<1>1. 0 \in 0 .. MaxOps
  BY ElevationAssumption
<1> QED
  BY <1>1, ZenonT(60) DEF Complete, Command

LEMMA Audited ==
    ASSUME NEW r \in Command, NEW body \in {"ok", "error", "inactive"}
    PROVE  LET f == AfterOps(r, body) IN
           /\ f \in Command /\ f.state = "done"
           /\ f.user = r.user /\ f.slot = r.slot /\ f.changes = r.changes /\ f.worked = r.worked
           /\ f.stopped = r.stopped /\ f.refused = r.refused
           /\ r.changes => f.audited = r.auditAs
           /\ r.refused => f.result = "inactive"
<1> DEFINE a == [r EXCEPT !.audited = IF r.changes THEN r.auditAs ELSE None]
<1>1. /\ a \in Command
      /\ a.user = r.user /\ a.slot = r.slot /\ a.changes = r.changes /\ a.worked = r.worked
      /\ a.stopped = r.stopped /\ a.refused = r.refused
      /\ r.changes => a.audited = r.auditAs
  BY DEF Command
<1>2. AfterOps(r, body) = Complete(a, body)
  BY DEF AfterOps
<1> HIDE DEF a
<1> QED
  BY <1>1, <1>2, Completed

LEMMA NotedFacts ==
    ASSUME NEW r \in Command
    PROVE  /\ Noted(r) \in Command
           /\ Noted(r).stopped /\ Noted(r).refused
           /\ \A field \in {"state", "user", "slot", "changes", "worked", "auditAs", "ops"} :
                 Noted(r)[field] = r[field]
BY DEF Noted, Command

LEMMA DoneOK ==
    ASSUME NEW c \in Commands, CommandOK(c), NEW f \in Command, cmd'[c] = f, SameRights,
           f.state = "done", f.user = cmd[c].user, f.slot = cmd[c].slot,
           f.worked = cmd[c].worked,
           f.worked /\ f.changes => f.audited = f.user,
           f.stopped => f.refused /\ f.slot \in Made /\ Revoked(f.slot) /\ f.result = "inactive"
    PROVE  CommandOK(c)'
BY DEF CommandOK, SameRights, Revoked

LEMMA ResolveStep ==
    ASSUME IInv, NEW c \in Commands, Resolve(c)
    PROVE  IInv'
<1> USE DEF IInv
<1>1. cmd \in [Commands -> Command] /\ cmd[c] \in Command /\ CommandOK(c)
  BY DEF TypeOK, CommandInv
<1>2. /\ cmd[c].state = "resolve" /\ ~cmd[c].worked /\ ~cmd[c].stopped
      /\ UNCHANGED <<alive, registered, slots, transport, opened, switch, end, over, closed>>
  BY <1>1 DEF Resolve, CommandOK
<1>3. SameRights
  BY <1>2 DEF SameRights, Made, TypeOK
<1>7. c \in Callers /\ sftp \in Seq(Callers)
  BY DEF TypeOK, Callers
<1>4. ASSUME NEW body \in {"error", "inactive"}, cmd' = [cmd EXCEPT ![c] = Complete(@, body)],
             UNCHANGED sftp
      PROVE  IInv'
  <2> DEFINE f == Complete(cmd[c], body)
  <2>1. /\ f \in Command /\ f.state = "done" /\ f.user = cmd[c].user /\ f.slot = cmd[c].slot
        /\ f.worked = cmd[c].worked /\ f.stopped = cmd[c].stopped
    BY <1>1, Completed
  <2>2. cmd' = [cmd EXCEPT ![c] = f] /\ cmd'[c] = f
    BY <1>1, <1>4
  <2> HIDE DEF f
  <2>3. CommandOK(c)'
    BY <1>1, <1>2, <1>3, <2>1, <2>2, DoneOK
  <2> QED
    BY <1>2, <1>4, <1>7, <2>1, <2>2, <2>3, PlainStep, SftpLine DEF TypeOK
<1>5. ASSUME cmd[c].user # None, cmd[c].slot # None, To(c, "start"), UNCHANGED sftp
      PROVE  IInv'
  <2> DEFINE f == [cmd[c] EXCEPT !.state = "start"]
  <2>1. /\ f \in Command /\ f.state = "start" /\ f.user = cmd[c].user /\ f.slot = cmd[c].slot
        /\ f.worked = cmd[c].worked /\ f.stopped = cmd[c].stopped
    BY <1>1 DEF Command
  <2>2. cmd' = [cmd EXCEPT ![c] = f] /\ cmd'[c] = f
    BY <1>1, <1>5 DEF To
  <2>3. cmd[c].slot \in Made /\ cmd[c].user \in Users
    BY <1>1, <1>2, <1>5 DEF CommandOK, Command
  <2> HIDE DEF f
  <2>4. CommandOK(c)'
    BY <1>1, <1>2, <2>1, <2>2, <2>3 DEF CommandOK, Made
  <2> QED
    BY <1>2, <1>5, <1>7, <2>1, <2>2, <2>4, PlainStep, SftpLine DEF TypeOK
<1>6. ASSUME To(c, "ensure"), sftp' = Append(sftp, c)
      PROVE  IInv'
  <2> DEFINE f == [cmd[c] EXCEPT !.state = "ensure"]
  <2>1. /\ f \in Command /\ f.state = "ensure"
        /\ f.worked = cmd[c].worked /\ f.stopped = cmd[c].stopped
    BY <1>1 DEF Command
  <2>2. cmd' = [cmd EXCEPT ![c] = f] /\ cmd'[c] = f
    BY <1>1, <1>6 DEF To
  <2> HIDE DEF f
  <2>3. CommandOK(c)'
    BY <1>2, <2>1, <2>2 DEF CommandOK
  <2>4. sftp' \in Seq(Callers) /\ SftpKept(c)
    BY <1>6, <1>7, SftpLine
  <2> QED
    BY <1>2, <2>1, <2>2, <2>3, <2>4, PlainStep DEF TypeOK
<1> QED
  BY <1>4, <1>5, <1>6 DEF Resolve

LEMMA RequestStep ==
    ASSUME IInv, NEW c \in Commands, Request(c)
    PROVE  IInv'
<1> USE ElevationAssumption DEF IInv
<1>1. cmd \in [Commands -> Command] /\ cmd[c] \in Command /\ CommandOK(c)
  BY DEF TypeOK, CommandInv
<1>2. PICK q \in Requests :
        cmd' = [cmd EXCEPT ![c] = [@ EXCEPT !.state = "resolve", !.user = q.user,
                  !.changes = q.changes, !.slot = IF q.user = None THEN None ELSE registered]]
  BY ZenonT(60) DEF Request
<1> DEFINE r == [cmd[c] EXCEPT !.state = "resolve", !.user = q.user, !.changes = q.changes,
                               !.slot = IF q.user = None THEN None ELSE registered]
<1>3. registered \in Nat \cup {None}
  BY DEF TypeOK, Made
<1>4. r \in Command
  BY <1>1, <1>3, ZenonT(60) DEF Command
<1>5. /\ cmd[c].state = "idle"
      /\ UNCHANGED <<alive, registered, slots, transport, sftp, opened, switch, end, over, closed>>
  BY DEF Request
<1>6. cmd' = [cmd EXCEPT ![c] = r] /\ cmd'[c] = r
  BY <1>1, <1>2
<1>7. r.slot \in Made \cup {None}
  BY <1>1 DEF TypeOK, Command
<1>9. r.state = "resolve" /\ r.worked = cmd[c].worked /\ r.stopped = cmd[c].stopped
  BY <1>1 DEF Command
<1> HIDE DEF r
<1>8. CommandOK(c)'
  BY <1>1, <1>5, <1>6, <1>7, <1>9 DEF CommandOK, Made
<1>10. sftp' \in Seq(Callers) /\ SftpKept(c)
  BY <1>5, SftpLine DEF TypeOK, Callers
<1> QED
  BY <1>4, <1>5, <1>6, <1>8, <1>9, <1>10, PlainStep DEF TypeOK

(* The end of the body, with whatever that does to the locks.              *)
LEMMA DoneStep ==
    ASSUME IInv, NEW c \in Commands, NEW f \in Command, cmd' = [cmd EXCEPT ![c] = f],
           UNCHANGED <<alive, registered, switch, end, over, closed>>,
           opened' \in BOOLEAN, transport' \in Seq(Callers), sftp' \in Seq(Callers),
           SftpKept(c),
           SameRights,
           \A s \in Made, b \in Callers :
              b # c /\ HasLock(slots[s].line, b) => HasLock(slots'[s].line, b),
           f.state = "done", f.user = cmd[c].user, f.slot = cmd[c].slot,
           f.worked = cmd[c].worked,
           f.worked /\ f.changes => f.audited = f.user,
           f.stopped => f.refused /\ f.slot \in Made /\ Revoked(f.slot) /\ f.result = "inactive"
    PROVE  IInv'
<1>1. CommandOK(c) /\ cmd'[c] = f
  BY DEF IInv, CommandInv, TypeOK
<1>2. CommandOK(c)'
  BY <1>1, DoneOK
<1> QED
  BY <1>2, CommandStep

LEMMA EnsureStep ==
    ASSUME IInv, NEW c \in Commands, Ensure(c)
    PROVE  IInv'
<1> USE DEF IInv
<1>1. /\ cmd \in [Commands -> Command] /\ cmd[c] \in Command /\ CommandOK(c)
      /\ c \in Callers /\ sftp \in Seq(Callers) /\ transport \in Seq(Callers)
  BY DEF TypeOK, CommandInv, Callers
<1>2. /\ cmd[c].state = "ensure" /\ ~cmd[c].worked /\ ~cmd[c].stopped /\ sftp # <<>>
      /\ UNCHANGED <<alive, registered, slots, opened, switch, end, over, closed>>
  BY <1>1 DEF Ensure, CommandOK, HasLock
<1>3. sftp' \in Seq(Callers) /\ SftpKept(c)
  BY <1>1, SftpLine DEF Ensure
<1>8. transport' \in Seq(Callers)
  BY <1>1, SMTT(40) DEF Ensure
<1>9. cmd'[c].state = "opening" => HasLock(sftp', c)
  BY <1>1 DEF Ensure, To, Command
<1>4. PICK state \in {"normal", "opening"} : To(c, state)
  BY DEF Ensure
<1> DEFINE f == [cmd[c] EXCEPT !.state = state]
<1>5. /\ f \in Command /\ f.state = state /\ f.worked = cmd[c].worked
      /\ f.stopped = cmd[c].stopped
  BY <1>1 DEF Command
<1>6. cmd' = [cmd EXCEPT ![c] = f] /\ cmd'[c] = f
  BY <1>1, <1>4 DEF To
<1> HIDE DEF f
<1>7. CommandOK(c)'
  BY <1>2, <1>4, <1>5, <1>6, <1>9 DEF CommandOK
<1> QED
  BY <1>2, <1>3, <1>4, <1>5, <1>6, <1>7, <1>8, PlainStep DEF TypeOK

LEMMA OpenSftpStep ==
    ASSUME IInv, NEW c \in Commands, OpenSftp(c)
    PROVE  IInv'
<1> USE DEF IInv
<1>1. /\ cmd \in [Commands -> Command] /\ cmd[c] \in Command /\ CommandOK(c)
      /\ c \in Callers /\ sftp \in Seq(Callers) /\ transport \in Seq(Callers)
  BY DEF TypeOK, CommandInv, Callers
<1>2. /\ cmd[c].state = "opening" /\ ~cmd[c].worked /\ ~cmd[c].stopped /\ transport # <<>>
      /\ HasLock(sftp, c)
      /\ UNCHANGED <<alive, registered, slots, switch, end, over, closed>>
  BY <1>1 DEF OpenSftp, CommandOK, HasLock
<1>3. sftp' \in Seq(Callers) /\ SftpKept(c)
  BY <1>1, <1>2, SftpLine DEF OpenSftp
<1>7. transport' = Tail(transport) /\ opened' \in BOOLEAN
  BY DEF OpenSftp, TypeOK
<1>6. transport' \in Seq(Callers) /\ opened' \in BOOLEAN
  BY <1>1, <1>2, <1>7
<1>4. CASE To(c, "normal")
  <2> DEFINE f == [cmd[c] EXCEPT !.state = "normal"]
  <2>1. /\ f \in Command /\ f.state = "normal" /\ f.worked = cmd[c].worked
        /\ f.stopped = cmd[c].stopped
    BY <1>1 DEF Command
  <2>2. cmd' = [cmd EXCEPT ![c] = f] /\ cmd'[c] = f
    BY <1>1, <1>4 DEF To
  <2> HIDE DEF f
  <2>3. CommandOK(c)'
    BY <1>2, <2>1, <2>2 DEF CommandOK
  <2> QED
    BY <1>2, <1>3, <1>6, <2>1, <2>2, <2>3, PlainStep
<1>5. CASE cmd' = [cmd EXCEPT ![c] = Complete(@, "error")]
  <2> DEFINE f == Complete(cmd[c], "error")
  <2>1. /\ f \in Command /\ f.state = "done" /\ f.user = cmd[c].user /\ f.slot = cmd[c].slot
        /\ f.worked = cmd[c].worked /\ f.stopped = cmd[c].stopped
    BY <1>1, Completed
  <2>2. cmd' = [cmd EXCEPT ![c] = f]
    BY <1>1, <1>5
  <2> HIDE DEF f
  <2>3. SameRights
    BY <1>2 DEF SameRights, Made, TypeOK
  <2> QED
    BY <1>2, <1>3, <1>6, <2>1, <2>2, <2>3, DoneStep
<1> QED
  BY <1>4, <1>5 DEF OpenSftp

LEMMA NormalEndsStep ==
    ASSUME IInv, NEW c \in Commands, NormalEnds(c)
    PROVE  IInv'
<1> USE DEF IInv
<1>1. /\ cmd \in [Commands -> Command] /\ cmd[c] \in Command /\ CommandOK(c)
      /\ sftp \in Seq(Callers) /\ transport \in Seq(Callers)
  BY DEF TypeOK, CommandInv
<1>2. /\ cmd[c].state = "normal" /\ ~cmd[c].worked /\ ~cmd[c].stopped /\ sftp # <<>>
      /\ UNCHANGED <<alive, registered, slots, transport, opened, switch, end, over, closed>>
  BY <1>1 DEF NormalEnds, CommandOK, HasLock
<1>3. sftp' \in Seq(Callers) /\ SftpKept(c)
  BY <1>1, SftpLine DEF NormalEnds, Callers
<1>4. PICK body \in {"ok", "error"} : cmd' = [cmd EXCEPT ![c] = AfterOps(@, body)]
  BY DEF NormalEnds
<1> DEFINE f == AfterOps(cmd[c], body)
<1>5. /\ f \in Command /\ f.state = "done" /\ f.user = cmd[c].user /\ f.slot = cmd[c].slot
      /\ f.worked = cmd[c].worked /\ f.stopped = cmd[c].stopped
  <2>1. body \in {"ok", "error", "inactive"}
    BY <1>4
  <2> QED
    BY <1>1, <2>1, Audited, ZenonT(60)
<1>6. cmd' = [cmd EXCEPT ![c] = f]
  BY <1>1, <1>4
<1> HIDE DEF f
<1>7. SameRights
  BY <1>2 DEF SameRights, Made, TypeOK
<1> QED
  BY <1>1, <1>2, <1>3, <1>5, <1>6, <1>7, DoneStep DEF TypeOK

LEMMA FirstAccessStep ==
    ASSUME IInv, NEW c \in Commands, FirstAccess(c)
    PROVE  IInv'
<1> USE DEF IInv
<1>1. cmd \in [Commands -> Command] /\ cmd[c] \in Command /\ CommandOK(c) /\ c \in Callers
  BY DEF TypeOK, CommandInv, Callers
<1>2. /\ cmd[c].state \in {"start", "between"} /\ (cmd[c].worked => ~cmd[c].changes)
      /\ cmd[c].slot \in Made /\ cmd[c].user \in Users
      /\ UNCHANGED <<alive, registered, transport, sftp, opened, switch, end, over, closed>>
  BY <1>1 DEF FirstAccess, CommandOK
<1> DEFINE as == IF Revoked(cmd[c].slot) THEN None ELSE cmd[c].user
           f == [cmd[c] EXCEPT !.state = "access", !.auditAs = as]
<1>3. as \in Users \cup {None} /\ (as = cmd[c].user \/ Revoked(cmd[c].slot))
  BY <1>2
<1> HIDE DEF as
<1>4. /\ f \in Command /\ f.state = "access" /\ f.auditAs = as /\ f.user = cmd[c].user
      /\ f.slot = cmd[c].slot /\ f.worked = cmd[c].worked /\ f.stopped = cmd[c].stopped
      /\ f.changes = cmd[c].changes /\ f.refused = cmd[c].refused
  BY <1>1, <1>3 DEF Command
<1>5. cmd' = [cmd EXCEPT ![c] = f] /\ cmd'[c] = f
  BY <1>1 DEF FirstAccess, as
<1> HIDE DEF f
<1>6. /\ SameRights
      /\ \A t \in Made, q \in Callers : HasLock(slots[t].line, q) => HasLock(slots'[t].line, q)
  BY <1>1, <1>2, QueueSlot DEF FirstAccess, TypeOK
<1>7. CommandOK(c)'
  BY <1>1, <1>2, <1>3, <1>4, <1>5, <1>6, ZenonT(60) DEF CommandOK, SameRights, Revoked
<1>8. sftp' \in Seq(Callers) /\ SftpKept(c)
  BY <1>1, <1>2, SftpLine DEF TypeOK
<1> QED
  BY <1>2, <1>4, <1>5, <1>6, <1>7, <1>8, CommandStep DEF TypeOK

LEMMA AdmitStep ==
    ASSUME IInv, NEW c \in Commands, Admit(c)
    PROVE  IInv'
<1> USE DEF IInv
<1>1. cmd \in [Commands -> Command] /\ cmd[c] \in Command /\ CommandOK(c) /\ c \in Callers
  BY DEF TypeOK, CommandInv, Callers
<1> DEFINE s == cmd[c].slot
<1>2. /\ cmd[c].state = "access" /\ s \in Made /\ cmd[c].user \in Users
      /\ cmd[c].worked => ~cmd[c].changes
      /\ HasLock(slots[s].line, c) /\ slots' = Leave(s)
      /\ UNCHANGED <<alive, registered, transport, sftp, opened, switch, end, over, closed>>
  BY <1>1 DEF Admit, CommandOK
<1>3. /\ SameRights
      /\ \A t \in Made, q \in Callers :
            q # c /\ HasLock(slots[t].line, q) => HasLock(slots'[t].line, q)
  BY <1>1, <1>2, LeaveSlot DEF TypeOK
<1>4. /\ sftp' \in Seq(Callers) /\ SftpKept(c)
      /\ transport' \in Seq(Callers) /\ opened' \in BOOLEAN
  BY <1>1, <1>2, SftpLine DEF TypeOK
<1>5. ASSUME Admits(s), slots[s].user = cmd[c].user, cmd' = [cmd EXCEPT ![c].state = "between"]
      PROVE  IInv'
  <2> DEFINE f == [cmd[c] EXCEPT !.state = "between"]
  <2>1. /\ f \in Command /\ f.state = "between" /\ f.auditAs = cmd[c].auditAs
        /\ f.user = cmd[c].user /\ f.slot = s /\ f.worked = cmd[c].worked
        /\ f.stopped = cmd[c].stopped /\ f.changes = cmd[c].changes /\ f.refused = cmd[c].refused
    BY <1>1 DEF Command
  <2>2. cmd' = [cmd EXCEPT ![c] = f] /\ cmd'[c] = f
    BY <1>1, <1>5
  <2>3. cmd[c].auditAs = cmd[c].user
    BY <1>1, <1>2, <1>5 DEF CommandOK, Admits, Revoked
  <2> HIDE DEF f
  <2>4. CommandOK(c)'
    BY <1>1, <1>2, <1>3, <1>5, <2>1, <2>2, <2>3 DEF CommandOK, SameRights, Revoked
  <2> QED
    BY <1>2, <1>3, <1>4, <2>1, <2>2, <2>4, CommandStep
<1>6. ASSUME NEW r \in Command, cmd' = [cmd EXCEPT ![c] = Complete(r, "error")],
             r.user = cmd[c].user, r.slot = s, r.worked = cmd[c].worked,
             r.changes = cmd[c].changes, r.stopped => r.refused /\ Revoked(s)
      PROVE  IInv'
  <2> DEFINE f == Complete(r, "error")
  <2>1. /\ f \in Command /\ f.state = "done" /\ f.user = cmd[c].user /\ f.slot = s
        /\ f.worked = cmd[c].worked /\ f.changes = cmd[c].changes
        /\ f.stopped => f.refused /\ f.slot \in Made /\ Revoked(f.slot) /\ f.result = "inactive"
    BY <1>2, <1>6, Completed
  <2>2. cmd' = [cmd EXCEPT ![c] = f]
    BY <1>6
  <2> HIDE DEF f
  <2> QED
    BY <1>2, <1>3, <1>4, <2>1, <2>2, DoneStep
<1>7. cmd' = [cmd EXCEPT ![c] =
                IF ~Admits(s) THEN Complete(Noted(cmd[c]), "error")
                ELSE IF slots[s].user # cmd[c].user THEN Complete(cmd[c], "error")
                ELSE [cmd[c] EXCEPT !.state = "between"]]
  BY <1>1 DEF Admit
<1>8. CASE ~Admits(s)
  <2>1. Revoked(s)
    BY <1>2, <1>8 DEF Admits, Revoked, OverInv, TypeOK
  <2> QED
    BY <1>1, <1>6, <1>7, <1>8, <2>1, NotedFacts
<1>9. CASE Admits(s) /\ slots[s].user # cmd[c].user
  <2>1. cmd[c].stopped => cmd[c].refused /\ Revoked(s)
    BY <1>1 DEF CommandOK
  <2> QED
    BY <1>1, <1>6, <1>7, <1>9, <2>1
<1>10. CASE Admits(s) /\ slots[s].user = cmd[c].user
  BY <1>1, <1>5, <1>7, <1>10
<1> QED
  BY <1>8, <1>9, <1>10

(* An operation that failed, with what was recorded of it.                 *)
LEMMA FailStep ==
    ASSUME IInv, NEW c \in Commands, NEW r \in Command, Fail(c, r),
           cmd[c].state \in {"between", "queued", "running"}, cmd[c].ops < MaxOps,
           r.user = cmd[c].user, r.slot = cmd[c].slot, r.worked = cmd[c].worked,
           r.changes = cmd[c].changes, r.auditAs = cmd[c].auditAs, r.ops = cmd[c].ops,
           r.stopped => r.refused /\ Revoked(r.slot),
           UNCHANGED <<alive, registered, transport, sftp, opened, switch, end, over, closed>>,
           SameRights,
           \A s \in Made, b \in Callers :
              b # c /\ HasLock(slots[s].line, b) => HasLock(slots'[s].line, b)
    PROVE  IInv'
<1> USE DEF IInv
<1>1. /\ cmd \in [Commands -> Command] /\ cmd[c] \in Command /\ CommandOK(c) /\ c \in Callers
      /\ cmd[c].slot \in Made /\ cmd[c].user \in Users /\ cmd[c].auditAs = cmd[c].user
      /\ slots[cmd[c].slot].user = cmd[c].user
  BY DEF TypeOK, CommandInv, Callers, CommandOK
<1>2. /\ sftp' \in Seq(Callers) /\ SftpKept(c)
      /\ transport' \in Seq(Callers) /\ opened' \in BOOLEAN
  BY <1>1, SftpLine DEF TypeOK
<1>3. ASSUME NEW body \in {"ok", "error", "inactive"}, cmd' = [cmd EXCEPT ![c] = AfterOps(r, body)]
      PROVE  IInv'
  <2> DEFINE f == AfterOps(r, body)
  <2>1. /\ f \in Command /\ f.state = "done" /\ f.user = r.user /\ f.slot = r.slot
        /\ f.worked = r.worked /\ f.changes = r.changes
        /\ f.stopped = r.stopped /\ f.refused = r.refused
        /\ r.changes => f.audited = r.auditAs
        /\ r.refused => f.result = "inactive"
    BY Audited, ZenonT(60)
  <2>2. cmd' = [cmd EXCEPT ![c] = f]
    BY <1>3
  <2> HIDE DEF f
  <2>3. /\ f.worked /\ f.changes => f.audited = f.user
        /\ f.stopped => f.refused /\ f.slot \in Made /\ Revoked(f.slot) /\ f.result = "inactive"
    BY <1>1, <2>1
  <2> QED
    BY <1>1, <1>2, <2>1, <2>2, <2>3, DoneStep
<1>4. ASSUME ~r.changes, cmd' = [cmd EXCEPT ![c] = [r EXCEPT !.state = "between", !.ops = @ + 1]]
      PROVE  IInv'
  <2> DEFINE f == [r EXCEPT !.state = "between", !.ops = @ + 1]
  <2>1. r.ops + 1 \in 0 .. MaxOps
    BY ElevationAssumption DEF Command
  <2>2. /\ f \in Command /\ f.state = "between" /\ f.user = cmd[c].user /\ f.slot = cmd[c].slot
        /\ f.worked = cmd[c].worked /\ ~f.changes /\ f.auditAs = cmd[c].auditAs
        /\ f.stopped = r.stopped /\ f.refused = r.refused
    BY <1>4, <2>1 DEF Command
  <2>3. cmd' = [cmd EXCEPT ![c] = f] /\ cmd'[c] = f
    BY <1>1, <1>4
  <2> HIDE DEF f
  <2>4. CommandOK(c)'
    BY <1>1, <2>2, <2>3 DEF CommandOK, SameRights, Revoked
  <2> QED
    BY <1>1, <1>2, <2>2, <2>3, <2>4, CommandStep
<1> QED
  BY <1>3, <1>4 DEF Fail

LEMMA OperateStep ==
    ASSUME IInv, NEW c \in Commands, Operate(c)
    PROVE  IInv'
<1> USE DEF IInv
<1>1. /\ cmd \in [Commands -> Command] /\ cmd[c] \in Command /\ CommandOK(c) /\ c \in Callers
      /\ slots \in Seq(Slot)
  BY DEF TypeOK, CommandInv, Callers
<1> DEFINE s == cmd[c].slot
<1>2. /\ cmd[c].state = "between" /\ s \in Made /\ cmd[c].ops < MaxOps
      /\ UNCHANGED <<alive, registered, transport, sftp, opened, switch, end, over, closed>>
  BY <1>1 DEF Operate, CommandOK
<1>3. CASE Revoked(s) /\ Fail(c, Noted(cmd[c])) /\ UNCHANGED slots
  <2>1. SameRights
    BY <1>1, <1>3 DEF SameRights, Made
  <2> DEFINE r == Noted(cmd[c])
  <2>2. /\ r \in Command /\ r.refused /\ r.user = cmd[c].user /\ r.slot = s
        /\ r.worked = cmd[c].worked /\ r.changes = cmd[c].changes
        /\ r.auditAs = cmd[c].auditAs /\ r.ops = cmd[c].ops
    BY <1>1, NotedFacts
  <2>3. Fail(c, r)
    BY <1>3
  <2> HIDE DEF r
  <2> QED
    BY <1>2, <1>3, <2>1, <2>2, <2>3, FailStep
<1>4. CASE ~Revoked(s) /\ To(c, "queued") /\ slots' = Queue(s, c)
  <2> DEFINE f == [cmd[c] EXCEPT !.state = "queued"]
  <2>1. /\ f \in Command /\ f.state = "queued" /\ f.auditAs = cmd[c].auditAs
        /\ f.user = cmd[c].user /\ f.slot = s /\ f.worked = cmd[c].worked /\ f.ops = cmd[c].ops
        /\ f.stopped = cmd[c].stopped /\ f.changes = cmd[c].changes /\ f.refused = cmd[c].refused
    BY <1>1 DEF Command
  <2>2. cmd' = [cmd EXCEPT ![c] = f] /\ cmd'[c] = f
    BY <1>1, <1>4 DEF To
  <2> HIDE DEF f
  <2>3. /\ SameRights
        /\ \A t \in Made, q \in Callers : HasLock(slots[t].line, q) => HasLock(slots'[t].line, q)
    BY <1>1, <1>2, <1>4, QueueSlot
  <2>4. CommandOK(c)'
    BY <1>1, <1>2, <2>1, <2>2, <2>3 DEF CommandOK, SameRights, Revoked
  <2>5. /\ sftp' \in Seq(Callers) /\ SftpKept(c)
        /\ transport' \in Seq(Callers) /\ opened' \in BOOLEAN
    BY <1>1, <1>2, SftpLine DEF TypeOK
  <2> QED
    BY <1>2, <2>1, <2>2, <2>3, <2>4, <2>5, CommandStep
<1> QED
  BY <1>3, <1>4 DEF Operate

LEMMA BeginStep ==
    ASSUME IInv, NEW c \in Commands, Begin(c)
    PROVE  IInv'
<1> USE DEF IInv
<1>1. /\ cmd \in [Commands -> Command] /\ cmd[c] \in Command /\ CommandOK(c) /\ c \in Callers
      /\ slots \in Seq(Slot)
  BY DEF TypeOK, CommandInv, Callers
<1> DEFINE s == cmd[c].slot
<1>2. /\ cmd[c].state = "queued" /\ s \in Made /\ cmd[c].ops < MaxOps
      /\ HasLock(slots[s].line, c)
      /\ UNCHANGED <<alive, registered, transport, sftp, opened, switch, end, over, closed>>
  BY <1>1 DEF Begin, CommandOK
<1>3. CASE ~Admits(s) /\ Fail(c, Noted(cmd[c])) /\ slots' = Leave(s)
  <2>1. /\ SameRights
        /\ \A t \in Made, q \in Callers :
              q # c /\ HasLock(slots[t].line, q) => HasLock(slots'[t].line, q)
    BY <1>1, <1>2, <1>3, LeaveSlot
  <2>2. Revoked(s)
    BY <1>2, <1>3 DEF Admits, Revoked, OverInv
  <2> DEFINE r == Noted(cmd[c])
  <2>3. /\ r \in Command /\ r.refused /\ r.user = cmd[c].user /\ r.slot = s
        /\ r.worked = cmd[c].worked /\ r.changes = cmd[c].changes
        /\ r.auditAs = cmd[c].auditAs /\ r.ops = cmd[c].ops
    BY <1>1, NotedFacts
  <2>4. Fail(c, r)
    BY <1>3
  <2> HIDE DEF r
  <2> QED
    BY <1>2, <2>1, <2>2, <2>3, <2>4, FailStep
<1>4. CASE Admits(s) /\ UNCHANGED slots
           /\ cmd' = [cmd EXCEPT ![c].state = "running", ![c].worked = TRUE]
  <2> DEFINE f == [cmd[c] EXCEPT !.state = "running", !.worked = TRUE]
  <2>1. /\ f \in Command /\ f.state = "running" /\ f.auditAs = cmd[c].auditAs
        /\ f.user = cmd[c].user /\ f.slot = s /\ f.ops = cmd[c].ops
        /\ f.stopped = cmd[c].stopped /\ f.changes = cmd[c].changes /\ f.refused = cmd[c].refused
    BY <1>1 DEF Command
  <2>2. cmd' = [cmd EXCEPT ![c] = f] /\ cmd'[c] = f
    BY <1>1, <1>4
  <2> HIDE DEF f
  <2>3. SameRights
    BY <1>1, <1>4 DEF SameRights, Made
  <2>4. ~Revoked(s) /\ s \notin closed
    BY <1>4 DEF Admits, OverInv, Revoked
  <2>5. CommandOK(c)'
    BY <1>1, <1>2, <1>4, <2>1, <2>2, <2>3, <2>4 DEF CommandOK, SameRights, Revoked
  <2>6. /\ sftp' \in Seq(Callers) /\ SftpKept(c)
        /\ transport' \in Seq(Callers) /\ opened' \in BOOLEAN
    BY <1>1, <1>2, SftpLine DEF TypeOK
  <2> QED
    BY <1>2, <1>4, <2>1, <2>2, <2>3, <2>4, <2>5, <2>6, CommandStep
<1> QED
  BY <1>3, <1>4 DEF Begin

LEMMA FinishStep ==
    ASSUME IInv, NEW c \in Commands, Finish(c)
    PROVE  IInv'
<1> USE DEF IInv
<1>1. /\ cmd \in [Commands -> Command] /\ cmd[c] \in Command /\ CommandOK(c) /\ c \in Callers
      /\ slots \in Seq(Slot)
  BY DEF TypeOK, CommandInv, Callers
<1> DEFINE s == cmd[c].slot
<1>2. /\ cmd[c].state = "running" /\ s \in Made /\ cmd[c].ops < MaxOps /\ ~cmd[c].stopped
      /\ HasLock(slots[s].line, c) /\ slots' = Leave(s)
      /\ UNCHANGED <<alive, registered, transport, sftp, opened, switch, end, over, closed>>
  BY <1>1 DEF Finish, CommandOK
<1>3. /\ SameRights
      /\ \A t \in Made, q \in Callers :
            q # c /\ HasLock(slots[t].line, q) => HasLock(slots'[t].line, q)
  BY <1>1, <1>2, LeaveSlot
<1>4. CASE Fail(c, cmd[c])
  BY <1>1, <1>2, <1>3, <1>4, FailStep
<1>5. CASE cmd' = [cmd EXCEPT ![c].state = "between", ![c].ops = @ + 1]
  <2> DEFINE f == [cmd[c] EXCEPT !.state = "between", !.ops = @ + 1]
  <2>1. cmd[c].ops + 1 \in 0 .. MaxOps
    BY <1>1, <1>2, ElevationAssumption DEF Command
  <2>2. /\ f \in Command /\ f.state = "between" /\ f.auditAs = cmd[c].auditAs
        /\ f.user = cmd[c].user /\ f.slot = s /\ f.worked = cmd[c].worked
        /\ f.stopped = cmd[c].stopped /\ f.changes = cmd[c].changes
    BY <1>1, <2>1 DEF Command
  <2>3. cmd' = [cmd EXCEPT ![c] = f] /\ cmd'[c] = f
    BY <1>1, <1>5
  <2> HIDE DEF f
  <2>4. CommandOK(c)'
    BY <1>1, <1>2, <1>3, <2>2, <2>3 DEF CommandOK, SameRights, Revoked
  <2>5. /\ sftp' \in Seq(Callers) /\ SftpKept(c)
        /\ transport' \in Seq(Callers) /\ opened' \in BOOLEAN
    BY <1>1, <1>2, SftpLine DEF TypeOK
  <2> QED
    BY <1>2, <1>3, <2>2, <2>3, <2>4, <2>5, CommandStep
<1> QED
  BY <1>4, <1>5 DEF Finish

LEMMA ReturnStep ==
    ASSUME IInv, NEW c \in Commands, Return(c)
    PROVE  IInv'
<1> USE DEF IInv
<1>1. /\ cmd \in [Commands -> Command] /\ cmd[c] \in Command /\ CommandOK(c) /\ c \in Callers
      /\ slots \in Seq(Slot)
  BY DEF TypeOK, CommandInv, Callers
<1>2. /\ cmd[c].state = "between" /\ cmd[c].slot \in Made /\ cmd[c].auditAs = cmd[c].user
      /\ UNCHANGED <<alive, registered, slots, transport, sftp, opened, switch, end, over, closed>>
  BY <1>1 DEF Return, CommandOK
<1>3. PICK body \in {"ok", "error"} : cmd' = [cmd EXCEPT ![c] = AfterOps(@, body)]
  BY DEF Return
<1> DEFINE f == AfterOps(cmd[c], body)
<1>4. body \in {"ok", "error", "inactive"}
  BY <1>3
<1>5. /\ f \in Command /\ f.state = "done" /\ f.user = cmd[c].user /\ f.slot = cmd[c].slot
      /\ f.worked = cmd[c].worked /\ f.changes = cmd[c].changes
      /\ f.stopped = cmd[c].stopped /\ f.refused = cmd[c].refused
      /\ cmd[c].changes => f.audited = cmd[c].auditAs
      /\ cmd[c].refused => f.result = "inactive"
  BY <1>1, <1>4, Audited, ZenonT(60)
<1>6. cmd' = [cmd EXCEPT ![c] = f]
  BY <1>1, <1>3
<1> HIDE DEF f
<1>7. /\ f.worked /\ f.changes => f.audited = f.user
      /\ f.stopped => f.refused /\ f.slot \in Made /\ Revoked(f.slot) /\ f.result = "inactive"
  BY <1>1, <1>2, <1>5 DEF CommandOK
<1>8. SameRights
  BY <1>1, <1>2 DEF SameRights, Made
<1>9. /\ sftp' \in Seq(Callers) /\ SftpKept(c)
      /\ transport' \in Seq(Callers) /\ opened' \in BOOLEAN
  BY <1>1, <1>2, SftpLine DEF TypeOK
<1> QED
  BY <1>2, <1>5, <1>6, <1>7, <1>8, <1>9, DoneStep

-----------------------------------------------------------------------------
(* The steps of the switches and of disconnect.                            *)

LEMMA CommandsKept ==
    ASSUME CommandInv, cmd' = cmd, sftp' = sftp, Grows,
           \A s \in Made, c \in Commands :
              HasLock(slots[s].line, c) => HasLock(slots'[s].line, c)
    PROVE  CommandInv'
<1>1. ASSUME NEW c \in Commands PROVE CommandOK(c)'
  <2>1. CommandOK(c)
    BY DEF CommandInv
  <2>2. cmd[c].state = "running" => HasLock(slots'[cmd[c].slot].line, c)
    BY <2>1 DEF CommandOK
  <2> QED
    BY <2>1, <2>2, CommandKept
<1> QED
  BY <1>1 DEF CommandInv

LEMMA SlotStep ==
    ASSUME slots \in Seq(Slot), NEW s \in Made, NEW e \in Slot, slots' = [slots EXCEPT ![s] = e]
    PROVE  /\ slots' \in Seq(Slot) /\ Made' = Made
           /\ slots'[s] = e /\ \A t \in Made : t # s => slots'[t] = slots[t]
<1>1. slots \in [1 .. Len(slots) -> Slot] /\ Made = 1 .. Len(slots) /\ Len(slots) \in Nat
  BY DEF Made
<1> QED
  BY <1>1 DEF Made

(* A switch that does not touch a slot.                                    *)
LEMMA PlainSwitch ==
    ASSUME IInv, NEW w \in Switches, NEW r \in Switch, switch' = [switch EXCEPT ![w] = r],
           UNCHANGED <<alive, registered, slots, sftp, opened, cmd, end, over, closed>>,
           transport' \in Seq(Callers),
           switch[w].state # "mark", r.state \notin {"mark", "drain"},
           r.state \in {"probe", "open", "insert"} => r.user \in Users
    PROVE  IInv'
<1> USE DEF IInv
<1>1. switch \in [Switches -> Switch] /\ switch'[w] = r /\ Made' = Made
  BY DEF TypeOK, Made
<1>2. \A v \in Switches : v # w => switch'[v] = switch[v]
  BY <1>1
<1>3. TypeOK'
  BY <1>1 DEF TypeOK
<1>4. CommandInv'
  BY <1>1, CommandsKept DEF Grows, Revoked
<1>5. SwitchInv'
  BY <1>1, <1>2 DEF SwitchInv, Revoked
<1>6. EndInv'
  BY <1>1 DEF EndInv, Revoked
<1>7. RegisterInv'
  BY <1>1, <1>2 DEF RegisterInv, AboutToBeMarked, Revoked
<1>8. OverInv'
  BY <1>1 DEF OverInv, Revoked
<1> QED
  BY <1>3, <1>4, <1>5, <1>6, <1>7, <1>8

LEMMA ReturnsSwitch ==
    ASSUME IInv, NEW w \in Switches, Returns(w),
           UNCHANGED <<alive, registered, slots, sftp, opened, cmd, end, over, closed>>,
           transport' \in Seq(Callers), switch[w].state # "mark"
    PROVE  IInv'
<1> DEFINE r == [state |-> "done", user |-> None, slot |-> None]
<1>1. r \in Switch /\ r.state = "done"
  BY DEF Switch
<1>2. switch' = [switch EXCEPT ![w] = r]
  BY DEF Returns
<1> HIDE DEF r
<1> QED
  BY <1>1, <1>2, PlainSwitch

LEMMA TurnSwitch ==
    ASSUME IInv, NEW w \in Switches, NEW state \in {"open", "insert", "take"}, Turn(w, state),
           UNCHANGED <<alive, registered, slots, sftp, opened, cmd, end, over, closed>>,
           transport' \in Seq(Callers), switch[w].state # "mark",
           state \in {"open", "insert"} => switch[w].user \in Users
    PROVE  IInv'
<1>1. switch \in [Switches -> Switch] /\ switch[w] \in Switch
  BY DEF IInv, TypeOK
<1> DEFINE r == [switch[w] EXCEPT !.state = state]
<1>2. r \in Switch /\ r.state = state /\ r.user = switch[w].user
  BY <1>1 DEF Switch
<1>3. switch' = [switch EXCEPT ![w] = r]
  BY <1>1 DEF Turn
<1> HIDE DEF r
<1> QED
  BY <1>2, <1>3, PlainSwitch

LEMMA EnableStep ==
    ASSUME IInv, NEW w \in Switches, Enable(w)
    PROVE  IInv'
<1>1. /\ switch \in [Switches -> Switch] /\ switch[w] \in Switch /\ w \in Callers
      /\ transport \in Seq(Callers)
  BY DEF IInv, TypeOK, Callers
<1>2. /\ switch[w].state = "idle"
      /\ UNCHANGED <<alive, registered, slots, sftp, opened, cmd, end, over, closed>>
  BY DEF Enable
<1>3. CASE Returns(w) /\ UNCHANGED transport
  BY <1>1, <1>2, <1>3, ReturnsSwitch
<1>4. ASSUME NEW u \in Users, switch' = [switch EXCEPT ![w].state = "probe", ![w].user = u],
             transport' = Append(transport, w)
      PROVE  IInv'
  <2> DEFINE r == [switch[w] EXCEPT !.state = "probe", !.user = u]
  <2>1. r \in Switch /\ r.state = "probe" /\ r.user = u
    BY <1>1 DEF Switch
  <2>2. switch' = [switch EXCEPT ![w] = r]
    BY <1>1, <1>4
  <2>3. transport' \in Seq(Callers)
    BY <1>1, <1>4
  <2> HIDE DEF r
  <2> QED
    BY <1>2, <2>1, <2>2, <2>3, PlainSwitch
<1> QED
  BY <1>3, <1>4 DEF Enable

LEMMA ProbeStep ==
    ASSUME IInv, NEW w \in Switches, Probe(w) \/ OpenViaExec(w)
    PROVE  IInv'
<1>1. w \in Callers /\ transport \in Seq(Callers)
  BY DEF IInv, TypeOK, Callers
<1>2. /\ switch[w].state \in {"probe", "open"} /\ transport # <<>>
      /\ UNCHANGED <<alive, registered, slots, sftp, opened, cmd, end, over, closed>>
  BY DEF Probe, OpenViaExec, HasLock
<1>3. switch[w].user \in Users
  BY <1>2 DEF IInv, SwitchInv
<1>4. transport' = Tail(transport) \/ transport' = Append(Tail(transport), w)
  BY DEF Probe, OpenViaExec
<1>5. transport' \in Seq(Callers)
  BY <1>1, <1>2, <1>4
<1>6. Returns(w) \/ Turn(w, "open") \/ Turn(w, "insert")
  BY DEF Probe, OpenViaExec
<1> QED
  BY <1>2, <1>3, <1>5, <1>6, ReturnsSwitch, TurnSwitch

LEMMA DisableStep ==
    ASSUME IInv, NEW w \in Switches, Disable(w)
    PROVE  IInv'
<1>1. /\ switch[w].state = "idle" /\ transport' \in Seq(Callers)
      /\ UNCHANGED <<alive, registered, slots, sftp, opened, cmd, end, over, closed>>
  BY DEF Disable, IInv, TypeOK
<1>2. Returns(w) \/ Turn(w, "take")
  BY DEF Disable
<1> QED
  BY <1>1, <1>2, ReturnsSwitch, TurnSwitch

LEMMA TakeStep ==
    ASSUME IInv, NEW w \in Switches, Take(w)
    PROVE  IInv'
<1> USE DEF IInv
<1>1. /\ switch \in [Switches -> Switch] /\ switch[w] \in Switch /\ Made' = Made
      /\ switch[w].state = "take" /\ registered' = None
      /\ UNCHANGED <<alive, slots, transport, sftp, opened, cmd, end, over, closed>>
  BY DEF TypeOK, Made, Take
<1>2. CASE registered = None /\ Returns(w)
  BY <1>1, <1>2, ReturnsSwitch DEF TypeOK
<1>3. CASE registered # None
           /\ switch' = [switch EXCEPT ![w].state = "mark", ![w].slot = registered]
  <2> DEFINE r == [switch[w] EXCEPT !.state = "mark", !.slot = registered]
  <2>1. registered \in Made /\ registered \in Nat
    BY <1>3 DEF TypeOK, Made
  <2>2. r \in Switch /\ r.state = "mark" /\ r.slot = registered
    BY <1>1, <2>1 DEF Switch
  <2>3. switch'[w] = r /\ switch' = [switch EXCEPT ![w] = r]
    BY <1>1, <1>3
  <2> HIDE DEF r
  <2>4. \A v \in Switches : v # w => switch'[v] = switch[v]
    BY <1>1, <2>3
  <2>5. TypeOK'
    BY <1>1, <2>2, <2>3 DEF TypeOK
  <2>6. CommandInv'
    BY <1>1, CommandsKept DEF Grows, Revoked
  <2>7. SwitchInv'
    BY <1>1, <2>1, <2>2, <2>3, <2>4 DEF SwitchInv, Revoked
  <2>8. EndInv'
    BY <1>1 DEF EndInv, Revoked
  <2>9. RegisterInv'
    BY <1>1, <2>2, <2>3, <2>4 DEF RegisterInv, AboutToBeMarked, Revoked
  <2>10. OverInv'
    BY <1>1 DEF OverInv, Revoked
  <2> QED
    BY <2>5, <2>6, <2>7, <2>8, <2>9, <2>10
<1> QED
  BY <1>2, <1>3 DEF Take

LEMMA MarkTakenStep ==
    ASSUME IInv, NEW w \in Switches, MarkTaken(w)
    PROVE  IInv'
<1> USE DEF IInv
<1> DEFINE s == switch[w].slot
<1>1. /\ switch \in [Switches -> Switch] /\ switch[w] \in Switch /\ slots \in Seq(Slot)
      /\ w \in Callers /\ s \in Made /\ switch[w].state = "mark"
      /\ UNCHANGED <<alive, registered, transport, sftp, opened, cmd, end, over, closed>>
  BY DEF TypeOK, MarkTaken, SwitchInv, Callers
<1> DEFINE r == [switch[w] EXCEPT !.state = "drain"]
           e == [slots[s] EXCEPT !.revoked = TRUE, !.line = Append(@, w)]
<1>2. r \in Switch /\ r.state = "drain" /\ r.slot = s
  BY <1>1 DEF Switch
<1>3. switch' = [switch EXCEPT ![w] = r] /\ switch'[w] = r
  BY <1>1 DEF MarkTaken, Turn
<1>4. \A v \in Switches : v # w => switch'[v] = switch[v]
  BY <1>1, <1>3
<1>17. slots[s] \in Slot /\ s \in DOMAIN slots
  BY <1>1 DEF Made
<1>5. slots[s] \in Slot /\ slots[s].line \in Seq(Callers) /\ slots' = [slots EXCEPT ![s] = e]
  BY <1>17 DEF Slot, MarkTaken
<1>6. Append(slots[s].line, w) \in Seq(Callers)
  BY <1>1, <1>5
<1>7. /\ e \in Slot /\ e.revoked /\ e.user = slots[s].user /\ e.present = slots[s].present
      /\ e.line = Append(slots[s].line, w)
  BY <1>5, <1>6 DEF Slot
<1> HIDE DEF r, e
<1>8. /\ slots' \in Seq(Slot) /\ Made' = Made
      /\ slots'[s] = e /\ \A t \in Made : t # s => slots'[t] = slots[t]
  BY <1>1, <1>5, <1>7, SlotStep
<1>9. \A c \in Commands : HasLock(slots[s].line, c) => HasLock(e.line, c)
  BY <1>1, <1>5, <1>7 DEF HasLock
<1>10. Grows /\ \A t \in Made, c \in Commands :
          HasLock(slots[t].line, c) => HasLock(slots'[t].line, c)
  BY <1>7, <1>8, <1>9 DEF Grows, Revoked
<1>11. TypeOK'
  BY <1>1, <1>2, <1>3, <1>8 DEF TypeOK
<1>12. CommandInv'
  BY <1>1, <1>10, CommandsKept
<1>13. SwitchInv'
  BY <1>1, <1>2, <1>3, <1>4, <1>7, <1>8 DEF SwitchInv, Revoked
<1>14. EndInv'
  BY <1>1, <1>7, <1>8 DEF EndInv, Revoked
<1>15. RegisterInv'
  BY <1>1, <1>2, <1>3, <1>4, <1>7, <1>8 DEF RegisterInv, AboutToBeMarked, Revoked
<1>16. OverInv'
  BY <1>1, <1>7, <1>8 DEF OverInv, Revoked, TypeOK
<1> QED
  BY <1>11, <1>12, <1>13, <1>14, <1>15, <1>16

LEMMA DrainStep ==
    ASSUME IInv, NEW w \in Switches, Drain(w)
    PROVE  IInv'
<1> USE DEF IInv
<1> DEFINE s == switch[w].slot
<1>1. /\ switch \in [Switches -> Switch] /\ slots \in Seq(Slot)
      /\ s \in Made /\ switch[w].state = "drain" /\ Revoked(s) /\ HasLock(slots[s].line, w)
      /\ over' = over \cup {s} /\ closed' = closed \cup {s}
      /\ UNCHANGED <<alive, registered, transport, sftp, opened, cmd, end>>
  BY DEF TypeOK, Drain, SwitchInv
<1> DEFINE r == [state |-> "done", user |-> None, slot |-> None]
           e == [slots[s] EXCEPT !.present = FALSE, !.line = Tail(@)]
<1>2. r \in Switch /\ r.state = "done"
  BY DEF Switch
<1>3. switch' = [switch EXCEPT ![w] = r] /\ switch'[w] = r
  BY <1>1 DEF Drain, Returns
<1>4. \A v \in Switches : v # w => switch'[v] = switch[v]
  BY <1>1, <1>3
<1>18. slots[s] \in Slot /\ s \in DOMAIN slots
  BY <1>1 DEF Made
<1>5. /\ slots[s] \in Slot /\ slots[s].line \in Seq(Callers) /\ slots[s].line # <<>>
      /\ slots' = [slots EXCEPT ![s] = e]
  BY <1>1, <1>18 DEF Slot, Drain, HasLock
<1>6. Tail(slots[s].line) \in Seq(Callers)
  BY <1>5
<1>7. e \in Slot /\ e.revoked = slots[s].revoked /\ e.user = slots[s].user /\ ~e.present
  BY <1>5, <1>6 DEF Slot
<1> HIDE DEF r, e
<1>8. /\ slots' \in Seq(Slot) /\ Made' = Made
      /\ slots'[s] = e /\ \A t \in Made : t # s => slots'[t] = slots[t]
  BY <1>1, <1>5, <1>7, SlotStep
<1>9. \A c \in Commands : ~HasLock(slots[s].line, c)
  BY <1>1, ElevationAssumption DEF HasLock
<1>10. Grows /\ \A t \in Made, c \in Commands :
          HasLock(slots[t].line, c) => HasLock(slots'[t].line, c)
  BY <1>7, <1>8, <1>9 DEF Grows, Revoked
<1>11. TypeOK'
  BY <1>1, <1>2, <1>3, <1>8 DEF TypeOK
<1>12. CommandInv'
  BY <1>1, <1>10, CommandsKept
<1>13. SwitchInv'
  BY <1>1, <1>2, <1>3, <1>4, <1>7, <1>8 DEF SwitchInv, Revoked
<1>14. EndInv'
  BY <1>1, <1>7, <1>8 DEF EndInv, Revoked
<1>15. RegisterInv'
  BY <1>1, <1>2, <1>3, <1>4, <1>7, <1>8, ZenonT(60) DEF RegisterInv, AboutToBeMarked, Revoked
<1>16. \A c \in Commands : cmd[c].state = "running" => cmd[c].slot # s
  BY <1>9 DEF CommandInv, CommandOK
<1>17. OverInv'
  BY <1>1, <1>7, <1>8, <1>16 DEF OverInv, Revoked, TypeOK
<1> QED
  BY <1>11, <1>12, <1>13, <1>14, <1>15, <1>17

(* The new slot comes behind the others; the one it displaces is marked.   *)
LEMMA InsertStep ==
    ASSUME IInv, NEW w \in Switches, Insert(w)
    PROVE  IInv'
<1> USE DEF IInv
<1>1. /\ switch \in [Switches -> Switch] /\ switch[w] \in Switch /\ slots \in Seq(Slot)
      /\ w \in Callers /\ switch[w].state = "insert" /\ switch[w].user \in Users
      /\ UNCHANGED <<alive, transport, sftp, opened, cmd, end, over, closed>>
  BY DEF TypeOK, Insert, SwitchInv, Callers
<1>2. CASE ~alive /\ Returns(w) /\ UNCHANGED <<registered, slots>>
  BY <1>1, <1>2, ReturnsSwitch DEF TypeOK
<1>3. CASE alive
  <2> DEFINE n == Len(slots) + 1
             new == [user |-> switch[w].user, revoked |-> FALSE, present |-> TRUE, line |-> <<>>]
             e == [slots[registered] EXCEPT !.revoked = TRUE, !.line = Append(@, w)]
             others == IF registered = None THEN slots ELSE [slots EXCEPT ![registered] = e]
  <2>1. /\ slots \in [1 .. Len(slots) -> Slot] /\ Made = 1 .. Len(slots) /\ Len(slots) \in Nat
    BY <1>1 DEF Made
  <2>2. new \in Slot /\ ~new.revoked /\ new.present
    BY <1>1 DEF Slot
  <2>3. registered' = n /\ slots' = Append(others, new)
    BY <1>1, <1>3, ZenonT(60) DEF Insert
  <2>4. /\ others \in Seq(Slot) /\ Len(others) = Len(slots)
        /\ \A t \in Made : t # registered => others[t] = slots[t]
        /\ registered # None =>
              /\ others[registered].revoked /\ others[registered].user = slots[registered].user
              /\ others[registered].present = slots[registered].present
              /\ others[registered].line = Append(slots[registered].line, w)
    <3>1. CASE registered = None
      BY <1>1, <3>1
    <3>2. CASE registered # None
      <4>1. registered \in Made /\ slots[registered] \in Slot
        BY <2>1, <3>2 DEF TypeOK
      <4>2. slots[registered].line \in Seq(Callers)
        BY <4>1 DEF Slot
      <4>3. Append(slots[registered].line, w) \in Seq(Callers)
        BY <1>1, <4>2
      <4>4. /\ e \in Slot /\ e.revoked /\ e.user = slots[registered].user
            /\ e.present = slots[registered].present
            /\ e.line = Append(slots[registered].line, w)
        BY <4>1, <4>3 DEF Slot
      <4> HIDE DEF e
      <4> QED
        BY <2>1, <3>2, <4>1, <4>4
    <3> QED
      BY <3>1, <3>2
  <2> HIDE DEF others, new, e
  <2>5. /\ slots' \in Seq(Slot) /\ Made' = Made \cup {n} /\ n \notin Made
        /\ slots'[n] = new /\ \A t \in Made : slots'[t] = others[t]
    BY <2>1, <2>2, <2>3, <2>4 DEF Made
  <2>17. \A t \in Made : t = registered => registered # None
    BY <2>1, ElevationAssumption
  <2>18. \A t \in Made : /\ slots'[t].user = slots[t].user
                         /\ slots'[t].present = slots[t].present
                         /\ slots[t].revoked => slots'[t].revoked
                         /\ t = registered => slots'[t].revoked
                         /\ t # registered => slots'[t] = slots[t]
    BY <2>4, <2>5, <2>17
  <2>6. Grows
    BY <2>5, <2>18 DEF Grows, Revoked
  <2>7. \A t \in Made, c \in Commands : HasLock(slots[t].line, c) => HasLock(slots'[t].line, c)
    <3>1. ASSUME NEW c \in Commands, registered # None, HasLock(slots[registered].line, c)
          PROVE  HasLock(Append(slots[registered].line, w), c)
      <4>1. registered \in Made /\ slots[registered].line \in Seq(Callers)
        BY <2>1, <3>1 DEF TypeOK, Slot
      <4> QED
        BY <1>1, <3>1, <4>1 DEF HasLock
    <3> QED
      BY <2>4, <2>5, <2>17, <3>1
  <2>8. PICK r \in Switch :
          /\ switch' = [switch EXCEPT ![w] = r]
          /\ \/ registered = None /\ r.state = "done"
             \/ registered # None /\ r.state = "drain" /\ r.slot = registered
    <3>1. CASE registered = None
      <4> DEFINE r == [state |-> "done", user |-> None, slot |-> None]
      <4>1. r \in Switch /\ r.state = "done" /\ switch' = [switch EXCEPT ![w] = r]
        BY <1>3, <3>1 DEF Switch, Insert, Returns
      <4> QED
        BY <3>1, <4>1
    <3>2. CASE registered # None
      <4> DEFINE r == [switch[w] EXCEPT !.state = "drain", !.slot = registered]
      <4>1. registered \in Nat
        BY <2>1, <3>2 DEF TypeOK
      <4>2. r \in Switch /\ r.state = "drain" /\ r.slot = registered
        BY <1>1, <4>1 DEF Switch
      <4>3. switch' = [switch EXCEPT ![w] = r]
        BY <1>1, <1>3, <3>2 DEF Insert
      <4> QED
        BY <3>2, <4>2, <4>3
    <3> QED
      BY <3>1, <3>2
  <2>9. switch'[w] = r /\ \A v \in Switches : v # w => switch'[v] = switch[v]
    BY <1>1, <2>8
  <2>10. TypeOK'
    BY <1>1, <2>3, <2>5, <2>8 DEF TypeOK
  <2>11. CommandInv'
    BY <1>1, <2>6, <2>7, CommandsKept
  <2>12. SwitchInv'
    BY <1>1, <2>5, <2>6, <2>8, <2>9, <2>18 DEF SwitchInv, Revoked, Grows, TypeOK
  <2>13. EndInv'
    BY <1>1, <1>3, <2>6 DEF EndInv, Grows
  <2>14. RegisterInv'
    <3>1. \A t \in Made : AboutToBeMarked(t) => AboutToBeMarked(t)'
      BY <1>1, <2>9 DEF AboutToBeMarked
    <3> QED
      BY <2>3, <2>5, <2>18, <3>1 DEF RegisterInv, Revoked
  <2>16. OverInv'
    BY <1>1, <2>2, <2>5, <2>18 DEF OverInv, Revoked, TypeOK
  <2> QED
    BY <2>10, <2>11, <2>12, <2>13, <2>14, <2>16
<1> QED
  BY <1>2, <1>3 DEF Insert

LEMMA RemoveSessionStep ==
    ASSUME IInv, NEW d \in Ends, RemoveSession(d)
    PROVE  IInv'
<1> USE DEF IInv
<1>1. /\ end \in [Ends -> End] /\ end[d] \in End /\ end[d].state = "idle" /\ end[d].slot = None
      /\ alive \in BOOLEAN /\ ~alive' /\ Made' = Made
      /\ UNCHANGED <<registered, slots, transport, sftp, opened, cmd, switch, over, closed>>
  BY DEF TypeOK, RemoveSession, Made, EndInv
<1> DEFINE r == [end[d] EXCEPT !.state = "unslot", !.found = alive]
<1>2. r \in End /\ r.state = "unslot" /\ r.slot = None
  BY <1>1 DEF End
<1>3. end' = [end EXCEPT ![d] = r] /\ end'[d] = r
  BY <1>1 DEF RemoveSession
<1> HIDE DEF r
<1>4. \A f \in Ends : f # d => end'[f] = end[f]
  BY <1>1, <1>3
<1>5. TypeOK'
  BY <1>1, <1>2, <1>3 DEF TypeOK, RemoveSession
<1>6. CommandInv'
  BY <1>1, CommandsKept DEF Grows, Revoked
<1>7. SwitchInv'
  BY <1>1 DEF SwitchInv, Revoked
<1>8. EndInv'
  BY <1>1, <1>2, <1>3, <1>4 DEF EndInv, Revoked
<1>9. RegisterInv'
  BY <1>1, <1>2, <1>3, <1>4 DEF RegisterInv, AboutToBeMarked, Revoked
<1>10. OverInv'
  BY <1>1 DEF OverInv, Revoked
<1> QED
  BY <1>5, <1>6, <1>7, <1>8, <1>9, <1>10

LEMMA HangUpFacts ==
    ASSUME end \in [Ends -> End], transport \in Seq(Callers), NEW d \in Ends, HangUp(d)
    PROVE  /\ transport' \in Seq(Callers)
           /\ end' \in [Ends -> End] /\ end'[d].state \in {"hangup", "done"}
           /\ end'[d].slot = end[d].slot /\ end'[d].found = end[d].found
           /\ \A f \in Ends : f # d => end'[f] = end[f]
<1> DEFINE r == [end[d] EXCEPT !.state = IF end[d].found THEN "hangup" ELSE "done"]
<1>1. end[d] \in End /\ d \in Callers
  BY DEF Callers
<1>2. /\ r \in End /\ r.state \in {"hangup", "done"}
      /\ r.slot = end[d].slot /\ r.found = end[d].found
  BY <1>1 DEF End
<1>3. end' = [end EXCEPT ![d] = r]
  BY <1>1 DEF HangUp
<1>4. transport' \in Seq(Callers)
  BY <1>1 DEF HangUp
<1> HIDE DEF r
<1> QED
  BY <1>2, <1>3, <1>4

LEMMA RemoveSlotStep ==
    ASSUME IInv, NEW d \in Ends, RemoveSlot(d)
    PROVE  IInv'
<1> USE DEF IInv
<1>1. /\ end \in [Ends -> End] /\ end[d] \in End /\ end[d].state = "unslot" /\ end[d].slot = None
      /\ ~alive /\ registered' = None /\ Made' = Made /\ transport \in Seq(Callers)
      /\ UNCHANGED <<alive, slots, sftp, opened, cmd, switch, over, closed>>
  BY DEF TypeOK, RemoveSlot, Made, EndInv
<1>2. PICK r \in End :
        /\ end'[d] = r /\ r.state \in {"mark", "hangup", "done"}
        /\ registered # None => r.state = "mark" /\ r.slot = registered
        /\ registered = None => r.state # "mark" /\ r.slot = None
  <2>1. CASE registered = None /\ HangUp(d)
    BY <1>1, <2>1, HangUpFacts
  <2>2. CASE registered # None
             /\ end' = [end EXCEPT ![d].state = "mark", ![d].slot = registered]
    <3>1. registered \in Nat
      BY <2>2 DEF TypeOK, Made
    <3> DEFINE r == [end[d] EXCEPT !.state = "mark", !.slot = registered]
    <3>2. r \in End /\ r.state = "mark" /\ r.slot = registered
      BY <1>1, <3>1 DEF End
    <3>3. end'[d] = r
      BY <1>1, <2>2
    <3> HIDE DEF r
    <3> QED
      BY <2>2, <3>2, <3>3
  <2> QED
    BY <2>1, <2>2 DEF RemoveSlot
<1>3. /\ end' \in [Ends -> End] /\ transport' \in Seq(Callers)
      /\ \A f \in Ends : f # d => end'[f] = end[f]
  <2>1. CASE registered = None /\ HangUp(d)
    BY <1>1, <2>1, HangUpFacts
  <2>2. CASE /\ registered # None /\ UNCHANGED transport
             /\ end' = [end EXCEPT ![d].state = "mark", ![d].slot = registered]
    <3>1. end' = [end EXCEPT ![d] = end'[d]]
      BY <1>1, <2>2
    <3> QED
      BY <1>1, <1>2, <2>2, <3>1
  <2> QED
    BY <2>1, <2>2 DEF RemoveSlot
<1>4. TypeOK'
  BY <1>1, <1>3 DEF TypeOK
<1>5. CommandInv'
  BY <1>1, CommandsKept DEF Grows, Revoked
<1>6. SwitchInv'
  BY <1>1 DEF SwitchInv, Revoked
<1>7. EndInv'
  BY <1>1, <1>2, <1>3 DEF EndInv, Revoked, TypeOK
<1>8. RegisterInv'
  <2>1. \A s \in Made : AboutToBeMarked(s) => AboutToBeMarked(s)'
    BY <1>1, <1>3 DEF AboutToBeMarked
  <2>3. registered \in Made => registered # None
    BY ElevationAssumption DEF Made, TypeOK
  <2>2. \A s \in Made : s = registered => AboutToBeMarked(s)'
    BY <1>2, <2>3 DEF AboutToBeMarked
  <2> QED
    BY <1>1, <2>1, <2>2 DEF RegisterInv, Revoked
<1>9. OverInv'
  BY <1>1 DEF OverInv, Revoked
<1> QED
  BY <1>4, <1>5, <1>6, <1>7, <1>8, <1>9

LEMMA MarkRemovedStep ==
    ASSUME IInv, NEW d \in Ends, MarkRemoved(d)
    PROVE  IInv'
<1> USE DEF IInv
<1> DEFINE s == end[d].slot
<1>1. /\ end \in [Ends -> End] /\ end[d].state = "mark" /\ s \in Made
      /\ slots \in Seq(Slot) /\ transport \in Seq(Callers) /\ HangUp(d)
      /\ UNCHANGED <<alive, registered, sftp, opened, cmd, switch, over, closed>>
  BY DEF TypeOK, MarkRemoved, EndInv
<1>2. /\ transport' \in Seq(Callers)
      /\ end' \in [Ends -> End] /\ end'[d].state \in {"hangup", "done"} /\ end'[d].slot = s
      /\ \A f \in Ends : f # d => end'[f] = end[f]
  BY <1>1, HangUpFacts
<1> DEFINE e == [slots[s] EXCEPT !.revoked = TRUE]
<1>3. slots[s] \in Slot
  BY <1>1 DEF Made
<1>4. /\ e \in Slot /\ e.revoked /\ e.user = slots[s].user /\ e.present = slots[s].present
      /\ e.line = slots[s].line
  BY <1>3 DEF Slot
<1>5. slots' = [slots EXCEPT ![s] = e]
  BY <1>1 DEF MarkRemoved, MarkRevoked
<1> HIDE DEF e
<1>6. /\ slots' \in Seq(Slot) /\ Made' = Made
      /\ slots'[s] = e /\ \A t \in Made : t # s => slots'[t] = slots[t]
  BY <1>1, <1>4, <1>5, SlotStep
<1>7. Grows /\ \A t \in Made : slots'[t].line = slots[t].line
  BY <1>4, <1>6 DEF Grows, Revoked
<1>8. TypeOK'
  BY <1>1, <1>2, <1>6 DEF TypeOK
<1>9. CommandInv'
  BY <1>1, <1>7, CommandsKept
<1>10. SwitchInv'
  BY <1>1, <1>4, <1>6 DEF SwitchInv, Revoked
<1>14. slots'[s].revoked /\ \A t \in Made : slots[t].revoked => slots'[t].revoked
  BY <1>4, <1>6
<1>15. ~alive /\ registered = None
  BY <1>1 DEF EndInv
<1>11. EndInv'
  <2> SUFFICES ASSUME NEW f \in Ends PROVE
        /\ end'[f].state # "idle" => ~alive
        /\ end'[f].state \in {"mark", "hangup", "done"} => registered = None
        /\ end'[f].state = "mark" => end'[f].slot \in Made
        /\ end'[f].state \in {"hangup", "done"} /\ end'[f].slot # None =>
              end'[f].slot \in Made /\ slots'[end'[f].slot].revoked
        /\ end'[f].state \in {"idle", "unslot"} => end'[f].slot = None
    BY <1>1, <1>6 DEF EndInv, Revoked
  <2>1. CASE f = d
    BY <1>1, <1>2, <1>14, <1>15, <2>1
  <2>2. CASE f # d
    BY <1>2, <1>14, <1>15, <2>2 DEF EndInv, Revoked
  <2> QED
    BY <2>1, <2>2
<1>12. RegisterInv'
  <2>1. \A t \in Made : t # s /\ AboutToBeMarked(t) => AboutToBeMarked(t)'
    BY <1>1, <1>2 DEF AboutToBeMarked
  <2> QED
    BY <1>1, <1>6, <1>14, <2>1 DEF RegisterInv, Revoked
<1>13. OverInv'
  BY <1>1, <1>4, <1>6 DEF OverInv, Revoked, TypeOK
<1> QED
  BY <1>8, <1>9, <1>10, <1>11, <1>12, <1>13

LEMMA DisconnectedStep ==
    ASSUME IInv, NEW d \in Ends, Disconnected(d)
    PROVE  IInv'
<1> USE DEF IInv
<1>1. /\ end \in [Ends -> End] /\ end[d] \in End /\ end[d].state = "hangup"
      /\ transport \in Seq(Callers) /\ transport # <<>> /\ transport' = Tail(transport)
      /\ Made' = Made
      /\ over' = IF end[d].slot = None THEN over ELSE over \cup {end[d].slot}
      /\ end[d].slot # None => end[d].slot \in Made /\ Revoked(end[d].slot)
      /\ UNCHANGED <<alive, registered, slots, sftp, opened, cmd, switch, closed>>
  BY DEF TypeOK, Disconnected, Made, EndInv, HasLock
<1> DEFINE r == [end[d] EXCEPT !.state = "done"]
<1>2. r \in End /\ r.state = "done" /\ r.slot = end[d].slot
  BY <1>1 DEF End
<1>3. end' = [end EXCEPT ![d] = r] /\ end'[d] = r
  BY <1>1 DEF Disconnected
<1> HIDE DEF r
<1>4. \A f \in Ends : f # d => end'[f] = end[f]
  BY <1>1, <1>3
<1>5. transport' \in Seq(Callers)
  BY <1>1
<1>6. TypeOK'
  BY <1>1, <1>2, <1>3, <1>5 DEF TypeOK
<1>7. CommandInv'
  BY <1>1, CommandsKept DEF Grows, Revoked
<1>8. SwitchInv'
  BY <1>1 DEF SwitchInv, Revoked
<1>9. EndInv'
  BY <1>1, <1>2, <1>3, <1>4 DEF EndInv, Revoked
<1>10. RegisterInv'
  BY <1>1, <1>2, <1>3, <1>4 DEF RegisterInv, AboutToBeMarked, Revoked
<1>11. OverInv'
  BY <1>1 DEF OverInv, Revoked
<1> QED
  BY <1>6, <1>7, <1>8, <1>9, <1>10, <1>11

-----------------------------------------------------------------------------
LEMMA Initially == Init => IInv
<1> SUFFICES ASSUME Init PROVE IInv
  OBVIOUS
<1> USE ElevationAssumption DEF Init
<1>1. Idle \in Command /\ Idle.state = "idle" /\ ~Idle.worked /\ ~Idle.stopped
  BY DEF Idle, Command
<1>5. /\ cmd \in [Commands -> Command]
      /\ switch \in [Switches -> Switch] /\ end \in [Ends -> End]
  BY <1>1 DEF Switch, End
<1>6. slots \in Seq(Slot) /\ transport \in Seq(Callers) /\ sftp \in Seq(Callers)
  OBVIOUS
<1>2. TypeOK
  BY <1>5, <1>6 DEF TypeOK
<1>3. CommandInv
  BY <1>1 DEF CommandInv, CommandOK
<1>4. SwitchInv /\ EndInv /\ RegisterInv /\ OverInv
  BY <1>1 DEF SwitchInv, EndInv, RegisterInv, OverInv, Made
<1> QED
  BY <1>2, <1>3, <1>4 DEF IInv

LEMMA Unchanged == IInv /\ UNCHANGED vars => IInv'
<1> SUFFICES ASSUME IInv, UNCHANGED vars PROVE IInv'
  OBVIOUS
<1> USE DEF vars, IInv
<1>1. TypeOK'
  BY DEF TypeOK, Made
<1>2. CommandInv'
  BY DEF CommandInv, CommandOK, Made, Revoked
<1>3. SwitchInv' /\ EndInv'
  BY DEF SwitchInv, EndInv, Made, Revoked
<1>4. RegisterInv' /\ OverInv'
  BY DEF RegisterInv, OverInv, AboutToBeMarked, Made, Revoked
<1> QED
  BY <1>1, <1>2, <1>3, <1>4

LEMMA Stepwise == IInv /\ [Next]_vars => IInv'
<1> SUFFICES ASSUME IInv, [Next]_vars PROVE IInv'
  OBVIOUS
<1>1. ASSUME NEW c \in Commands, CommandNext(c) PROVE IInv'
  BY <1>1, RequestStep, ResolveStep, EnsureStep, OpenSftpStep, NormalEndsStep, FirstAccessStep,
     AdmitStep, OperateStep, BeginStep, FinishStep, ReturnStep DEF CommandNext
<1>2. ASSUME NEW w \in Switches, SwitchNext(w) PROVE IInv'
  BY <1>2, EnableStep, ProbeStep, InsertStep, DisableStep, TakeStep, MarkTakenStep, DrainStep
     DEF SwitchNext
<1>3. ASSUME NEW d \in Ends, EndNext(d) PROVE IInv'
  BY <1>3, RemoveSessionStep, RemoveSlotStep, MarkRemovedStep, DisconnectedStep DEF EndNext
<1>4. CASE Finished \/ UNCHANGED vars
  BY <1>4, Unchanged DEF Finished
<1> QED
  BY <1>1, <1>2, <1>3, <1>4 DEF Next

LEMMA Inductive == Spec => []IInv
BY Initially, Stepwise, PTL DEF Spec

(* A step of a command concerns this command only.                         *)
LEMMA Elsewhere ==
    ASSUME IInv, NEW b \in Commands, CommandNext(b), NEW c \in Commands, c # b
    PROVE  cmd'[c] = cmd[c]
<1>1. cmd \in [Commands -> Command]
  BY DEF IInv, TypeOK
<1>2. ASSUME NEW r, Fail(b, r) PROVE cmd'[c] = cmd[c]
  BY <1>1, <1>2 DEF Fail
<1>3. CASE Request(b)
  BY <1>1, <1>3 DEF Request
<1>4. CASE Resolve(b)
  BY <1>1, <1>4 DEF Resolve, To
<1>5. CASE Ensure(b) \/ OpenSftp(b) \/ NormalEnds(b)
  BY <1>1, <1>5 DEF Ensure, OpenSftp, NormalEnds, To
<1>6. CASE FirstAccess(b) \/ Admit(b) \/ Return(b)
  BY <1>1, <1>6 DEF FirstAccess, Admit, Return
<1>7. CASE Operate(b) \/ Begin(b) \/ Finish(b)
  BY <1>1, <1>2, <1>7 DEF Operate, Begin, Finish, To
<1> QED
  BY <1>3, <1>4, <1>5, <1>6, <1>7 DEF CommandNext

(* An operation that failed leaves none under way.                         *)
LEMMA FailAlone ==
    ASSUME IInv, NEW c \in Commands, NEW r \in Command, Fail(c, r)
    PROVE  cmd'[c].state # "running"
<1>1. cmd \in [Commands -> Command]
  BY DEF IInv, TypeOK
<1>2. AfterOps(r, "ok").state = "done" /\ AfterOps(r, "error").state = "done"
  BY Audited
<1>3. CASE cmd' = [cmd EXCEPT ![c] = [r EXCEPT !.state = "between", !.ops = @ + 1]]
  <2>1. cmd'[c] = [r EXCEPT !.state = "between", !.ops = @ + 1]
    BY <1>1, <1>3
  <2> QED
    BY <2>1 DEF Command
<1>4. CASE cmd' = [cmd EXCEPT ![c] = AfterOps(r, "ok")]
           \/ cmd' = [cmd EXCEPT ![c] = AfterOps(r, "error")]
  BY <1>1, <1>2, <1>4
<1> QED
  BY <1>3, <1>4 DEF Fail

(* No step of a command but the check under the lock begins an operation.  *)
LEMMA NotBegun ==
    ASSUME IInv, NEW c \in Commands, CommandNext(c), ~Begin(c)
    PROVE  cmd'[c].state # "running"
<1>1. cmd \in [Commands -> Command] /\ cmd[c] \in Command
  BY DEF IInv, TypeOK
<1>2. \A r \in Command : Complete(r, "error").state = "done" /\ Complete(r, "inactive").state = "done"
  BY Completed
<1>3. \A r \in Command :
        AfterOps(r, "ok").state = "done" /\ AfterOps(r, "error").state = "done"
  BY Audited
<1>4. Noted(cmd[c]) \in Command
  BY <1>1, NotedFacts
<1>5. \A r \in Command : Fail(c, r) => cmd'[c].state # "running"
  BY FailAlone
<1>6. \A state \in {"start", "ensure", "opening", "normal", "queued"} :
        To(c, state) => cmd'[c].state # "running"
  BY <1>1 DEF To, Command
<1>7. CASE Request(c)
  BY <1>1, <1>7 DEF Request, Command
<1>8. CASE Resolve(c)
  BY <1>1, <1>2, <1>6, <1>8 DEF Resolve
<1>9. CASE Ensure(c) \/ OpenSftp(c)
  BY <1>1, <1>2, <1>6, <1>9 DEF Ensure, OpenSftp
<1>10. CASE NormalEnds(c) \/ Return(c)
  BY <1>1, <1>3, <1>10 DEF NormalEnds, Return
<1>11. CASE FirstAccess(c)
  BY <1>1, <1>11 DEF FirstAccess, Command
<1>12. CASE Admit(c)
  <2>1. cmd'[c] \in {Complete(Noted(cmd[c]), "error"), Complete(cmd[c], "error"),
                     [cmd[c] EXCEPT !.state = "between"]}
    BY <1>1, <1>12 DEF Admit
  <2>2. [cmd[c] EXCEPT !.state = "between"].state = "between"
    BY <1>1 DEF Command
  <2> QED
    BY <1>1, <1>2, <1>4, <2>1, <2>2
<1>13. CASE Operate(c)
  BY <1>4, <1>5, <1>6, <1>13 DEF Operate
<1>14. CASE Finish(c)
  <2>1. CASE Fail(c, cmd[c])
    BY <1>1, <1>5, <2>1
  <2>2. CASE cmd' = [cmd EXCEPT ![c].state = "between", ![c].ops = @ + 1]
    BY <1>1, <2>2 DEF Command
  <2> QED
    BY <1>14, <2>1, <2>2 DEF Finish
<1> QED
  BY <1>7, <1>8, <1>9, <1>10, <1>11, <1>12, <1>13, <1>14 DEF CommandNext

LEMMA BeginsByBegin ==
    ASSUME IInv, [Next]_vars, NEW c \in Commands, Begins(c)
    PROVE  Begin(c)
<1>1. ASSUME UNCHANGED cmd PROVE FALSE
  BY <1>1, SMTT(40) DEF Begins
<1>2. ASSUME NEW w \in Switches, SwitchNext(w) PROVE UNCHANGED cmd
  BY <1>2 DEF SwitchNext, Enable, Probe, OpenViaExec, Insert, Disable, Take, MarkTaken, Drain
<1>3. ASSUME NEW d \in Ends, EndNext(d) PROVE UNCHANGED cmd
  BY <1>3 DEF EndNext, RemoveSession, RemoveSlot, MarkRemoved, Disconnected
<1>4. ASSUME NEW b \in Commands, CommandNext(b) PROVE Begin(c)
  <2>1. b = c
    BY <1>4, Elsewhere DEF Begins
  <2> QED
    BY <1>4, <2>1, NotBegun DEF Begins
<1>5. Finished => UNCHANGED cmd
  BY DEF Finished, vars
<1> QED
  BY <1>1, <1>2, <1>3, <1>4, <1>5 DEF Next, vars

-----------------------------------------------------------------------------
(* The type invariant; with it, an operation under way holds the lock of a *)
(* channel that exists.                                                    *)
THEOREM TypeCorrect == Spec => []TypeOK
<1>1. IInv => TypeOK
  BY DEF IInv
<1> QED
  BY <1>1, Inductive, PTL

(* After a disconnect no channel with raised rights is left, whatever      *)
(* switches were under way and however many.                               *)
THEOREM NoChannelAfterTheEnd == Spec => []NoChannelSurvives
<1>1. ASSUME IInv, NEW d \in Ends, end[d].state = "done" PROVE registered = None
  BY <1>1 DEF IInv, EndInv
<1>2. ASSUME IInv, registered = None, NEW s \in Made PROVE Revoked(s) \/ AboutToBeMarked(s)
  <2>1. s # None
    BY <1>2, ElevationAssumption DEF IInv, TypeOK, Made
  <2> QED
    BY <1>2, <2>1 DEF IInv, RegisterInv
<1>3. IInv => NoChannelSurvives
  BY <1>1, <1>2 DEF NoChannelSurvives, AboutToBeMarked
<1> QED
  BY <1>3, Inductive, PTL

(* A command that was refused an access says so.                           *)
THEOREM RefusalReported == Spec => []RefusalIsTold
<1>1. IInv => RefusalIsTold
  BY DEF IInv, CommandInv, CommandOK, RefusalIsTold
<1> QED
  BY <1>1, Inductive, PTL

(* What was changed with raised rights is in the audit under their user.   *)
THEOREM AuditNamesTheUser == Spec => []ChangesAreAudited
<1>1. IInv => ChangesAreAudited
  BY DEF IInv, CommandInv, CommandOK, ChangesAreAudited
<1> QED
  BY <1>1, Inductive, PTL

(* Rights that were ended are not used again, by no operation of any       *)
(* command.                                                                *)
THEOREM RightsAreOver == Spec => RightsEnd
<1> DEFINE Kept == \A c \in Commands : Begins(c) =>
                      /\ cmd[c].slot \notin over
                      /\ slots[cmd[c].slot].user = cmd[c].user
           Closed == \A c \in Commands : cmd[c].state = "running" => cmd[c].slot \notin closed
<1>1. IInv => Closed
  BY DEF IInv, OverInv
<1>2. IInv /\ [Next]_vars => Kept
  <2> SUFFICES ASSUME IInv, [Next]_vars, NEW c \in Commands, Begins(c)
               PROVE  cmd[c].slot \notin over /\ slots[cmd[c].slot].user = cmd[c].user
    OBVIOUS
  <2>1. Begin(c)
    BY BeginsByBegin
  <2>2. cmd[c].state = "queued"
    BY <2>1 DEF Begin
  <2>3. CASE Admits(cmd[c].slot)
    BY <2>2, <2>3 DEF Admits, IInv, OverInv, CommandInv, CommandOK, Revoked
  <2>4. CASE ~Admits(cmd[c].slot)
    <3>1. Fail(c, Noted(cmd[c]))
      BY <2>1, <2>4 DEF Begin
    <3>2. Noted(cmd[c]) \in Command
      BY NotedFacts DEF IInv, TypeOK
    <3> QED
      BY <3>1, <3>2, FailAlone DEF Begins
  <2> QED
    BY <2>3, <2>4
<1> HIDE DEF Kept, Closed
<1>4. Spec => []Closed /\ [][Kept]_vars
  BY <1>1, <1>2, Inductive, PTL DEF Spec
<1> QED
  BY <1>4 DEF RightsEnd, Kept, Closed
-----------------------------------------------------------------------------
(* Who is in line for what: the connection, the normal channel, a slot.    *)
WaitsForConnection(p) ==
    \/ p \in Commands /\ cmd[p].state = "opening"
    \/ p \in Switches /\ switch[p].state \in {"probe", "open"}
    \/ p \in Ends /\ end[p].state = "hangup"

WaitsForNormal(p) == p \in Commands /\ cmd[p].state \in {"ensure", "opening", "normal"}

WaitsForSlot(p, s) ==
    \/ p \in Commands /\ cmd[p].state \in {"access", "queued", "running"} /\ cmd[p].slot = s
    \/ p \in Switches /\ switch[p].state = "drain" /\ switch[p].slot = s

(* All of them, each once, and nobody else.                                *)
InLine(line, waiters) ==
    /\ {line[i] : i \in DOMAIN line} = waiters
    /\ \A i, j \in DOMAIN line : line[i] = line[j] => i = j

LinesInv ==
    /\ InLine(transport, {p \in Callers : WaitsForConnection(p)})
    /\ InLine(sftp, {p \in Callers : WaitsForNormal(p)})
    /\ \A s \in Made : InLine(slots[s].line, {p \in Callers : WaitsForSlot(p, s)})
(* Calls that are nobody else's move are where they were.                  *)
Alone(p) ==
    /\ \A c \in Commands : c # p => cmd'[c] = cmd[c]
    /\ \A w \in Switches : w # p => switch'[w] = switch[w]
    /\ \A d \in Ends : d # p => end'[d] = end[d]

(* One caller p moves, which waits before or after its step: it stays      *)
(* where it is, gets in line, leaves as the first, or lines up again.      *)
Moves(line, next, p, before, after) ==
    \/ next = line /\ (before <=> after)
    \/ ~before /\ after /\ next = Append(line, p)
    \/ HasLock(line, p) /\ ~after /\ next = Tail(line)
    \/ HasLock(line, p) /\ after /\ next = Append(Tail(line), p)

LEMMA LineJoined ==
    ASSUME NEW line \in Seq(Callers), NEW p \in Callers, NEW S, InLine(line, S), p \notin S
    PROVE  InLine(Append(line, p), S \cup {p})
<1> DEFINE next == Append(line, p)
<1>1. /\ Len(line) \in Nat /\ DOMAIN line = 1 .. Len(line) /\ DOMAIN next = 1 .. Len(line) + 1
      /\ \A i \in 1 .. Len(line) : next[i] = line[i]
      /\ next[Len(line) + 1] = p
  OBVIOUS
<1> HIDE DEF next
<1>2. \A x : x \in {next[i] : i \in DOMAIN next} <=> x \in S \cup {p}
  BY <1>1 DEF InLine
<1>3. ASSUME NEW i \in DOMAIN next, NEW j \in DOMAIN next, next[i] = next[j] PROVE i = j
  BY <1>1, <1>3 DEF InLine
<1> QED
  BY <1>2, <1>3 DEF InLine, next

LEMMA LineLeft ==
    ASSUME NEW line \in Seq(Callers), NEW p \in Callers, NEW S, InLine(line, S), HasLock(line, p)
    PROVE  InLine(Tail(line), S \ {p}) /\ Tail(line) \in Seq(Callers) /\ p \in S
<1> DEFINE next == Tail(line)
<1>1. /\ Len(line) \in Nat \ {0} /\ DOMAIN line = 1 .. Len(line) /\ DOMAIN next = 1 .. Len(line) - 1
      /\ \A i \in 1 .. Len(line) - 1 : next[i] = line[i + 1]
      /\ line[1] = p /\ next \in Seq(Callers)
  BY DEF HasLock
<1> HIDE DEF next
<1>2. ASSUME NEW x PROVE x \in {next[i] : i \in DOMAIN next} <=> x \in S \ {p}
  <2>1. ASSUME NEW i \in DOMAIN next, x = next[i] PROVE x \in S \ {p}
    <3>1. i + 1 \in DOMAIN line /\ x = line[i + 1] /\ 1 \in DOMAIN line /\ i + 1 # 1
      BY <1>1, <2>1
    <3> QED
      BY <1>1, <3>1 DEF InLine
  <2>2. ASSUME x \in S \ {p} PROVE \E i \in DOMAIN next : x = next[i]
    <3>1. PICK j \in DOMAIN line : x = line[j]
      BY <2>2 DEF InLine
    <3>2. j # 1 /\ j - 1 \in DOMAIN next /\ next[j - 1] = line[j]
      BY <1>1, <2>2, <3>1
    <3> QED
      BY <3>1, <3>2
  <2> QED
    BY <2>1, <2>2
<1>3. ASSUME NEW i \in DOMAIN next, NEW j \in DOMAIN next, next[i] = next[j] PROVE i = j
  <2>1. i + 1 \in DOMAIN line /\ j + 1 \in DOMAIN line /\ line[i + 1] = line[j + 1]
    BY <1>1, <1>3
  <2>2. i + 1 = j + 1
    BY <2>1 DEF InLine
  <2> QED
    BY <1>1, <2>2
<1>4. p \in S
  BY <1>1 DEF InLine
<1> QED
  BY <1>1, <1>2, <1>3, <1>4 DEF InLine, next

LEMMA LineMoved ==
    ASSUME NEW line \in Seq(Callers), NEW next, NEW p \in Callers, NEW S, NEW T,
           InLine(line, S), \A b : b # p => (b \in T <=> b \in S),
           Moves(line, next, p, p \in S, p \in T)
    PROVE  InLine(next, T)
<1>1. CASE next = line /\ (p \in S <=> p \in T)
  <2>1. \A x : x \in S <=> x \in T
    BY <1>1
  <2>2. S = T
    BY <2>1, Zenon
  <2> QED
    BY <1>1, <2>2
<1>2. CASE p \notin S /\ p \in T /\ next = Append(line, p)
  <2>1. T = S \cup {p}
    BY <1>2
  <2> QED
    BY <1>2, <2>1, LineJoined
<1>3. CASE HasLock(line, p) /\ p \notin T /\ next = Tail(line)
  <2>1. T = S \ {p}
    BY <1>3
  <2> QED
    BY <1>3, <2>1, LineLeft
<1>4. CASE HasLock(line, p) /\ p \in T /\ next = Append(Tail(line), p)
  <2>1. T = (S \ {p}) \cup {p}
    BY <1>4
  <2>2. InLine(Tail(line), S \ {p}) /\ Tail(line) \in Seq(Callers)
    BY <1>4, LineLeft
  <2> QED
    BY <1>4, <2>1, <2>2, LineJoined
<1> QED
  BY <1>1, <1>2, <1>3, <1>4 DEF Moves

LEMMA LinesMoved ==
    ASSUME IInv, LinesInv, NEW p \in Callers, Alone(p),
           Moves(transport, transport', p, WaitsForConnection(p), WaitsForConnection(p)'),
           Moves(sftp, sftp', p, WaitsForNormal(p), WaitsForNormal(p)'),
           Made \subseteq Made',
           \A s \in Made : Moves(slots[s].line, slots'[s].line, p,
                                 WaitsForSlot(p, s), WaitsForSlot(p, s)'),
           \A s \in Made' \ Made : slots'[s].line = <<>> /\ ~WaitsForSlot(p, s)'
    PROVE  LinesInv'
<1>1. /\ transport \in Seq(Callers) /\ sftp \in Seq(Callers)
      /\ \A s \in Made : slots[s].line \in Seq(Callers)
  <2>1. \A s \in Made : slots[s] \in Slot
    BY DEF IInv, TypeOK, Made
  <2> QED
    BY <2>1 DEF IInv, TypeOK, Slot
<1>2. \A b \in Callers : b # p =>
         /\ WaitsForConnection(b)' <=> WaitsForConnection(b)
         /\ WaitsForNormal(b)' <=> WaitsForNormal(b)
         /\ \A s : WaitsForSlot(b, s)' <=> WaitsForSlot(b, s)
  BY DEF Alone, WaitsForConnection, WaitsForNormal, WaitsForSlot
<1>3. InLine(transport', {b \in Callers : WaitsForConnection(b)'})
  <2> DEFINE S == {b \in Callers : WaitsForConnection(b)}
             T == {b \in Callers : WaitsForConnection(b)'}
  <2>1. InLine(transport, S)
    BY DEF LinesInv
  <2>2. /\ \A b : b # p => (b \in T <=> b \in S)
        /\ Moves(transport, transport', p, p \in S, p \in T)
    BY <1>2 DEF Moves
  <2> HIDE DEF S, T
  <2>3. InLine(transport', T)
    BY <1>1, <2>1, <2>2, LineMoved
  <2> QED
    BY <2>3 DEF T
<1>4. InLine(sftp', {b \in Callers : WaitsForNormal(b)'})
  <2> DEFINE S == {b \in Callers : WaitsForNormal(b)}
             T == {b \in Callers : WaitsForNormal(b)'}
  <2>1. InLine(sftp, S)
    BY DEF LinesInv
  <2>2. /\ \A b : b # p => (b \in T <=> b \in S)
        /\ Moves(sftp, sftp', p, p \in S, p \in T)
    BY <1>2 DEF Moves
  <2> HIDE DEF S, T
  <2>3. InLine(sftp', T)
    BY <1>1, <2>1, <2>2, LineMoved
  <2> QED
    BY <2>3 DEF T
<1>5. ASSUME NEW s \in Made'
      PROVE  InLine(slots'[s].line, {b \in Callers : WaitsForSlot(b, s)'})
  <2> DEFINE S == {b \in Callers : WaitsForSlot(b, s)}
             T == {b \in Callers : WaitsForSlot(b, s)'}
  <2>1. CASE s \in Made
    <3>1. InLine(slots[s].line, S)
      BY <2>1 DEF LinesInv
    <3>2. /\ \A b : b # p => (b \in T <=> b \in S)
          /\ Moves(slots[s].line, slots'[s].line, p, p \in S, p \in T)
      BY <1>2, <2>1 DEF Moves
    <3> HIDE DEF S, T
    <3>3. InLine(slots'[s].line, T)
      BY <1>1, <2>1, <3>1, <3>2, LineMoved
    <3> QED
      BY <3>3 DEF T
  <2>2. CASE s \notin Made
    <3>1. \A b \in Callers : ~WaitsForSlot(b, s)
      BY <2>2, ElevationAssumption
      DEF IInv, CommandInv, CommandOK, SwitchInv, WaitsForSlot
    <3>2. T = {} /\ slots'[s].line = <<>>
      BY <1>2, <2>2, <3>1
    <3> QED
      BY <3>2 DEF InLine
  <2> QED
    BY <2>1, <2>2
<1> QED
  BY <1>3, <1>4, <1>5 DEF LinesInv

(* What a call does to the line of a slot.                                 *)
LEMMA SlotQueued ==
    ASSUME slots \in Seq(Slot), NEW s \in Made, NEW p \in Callers, slots' = Queue(s, p)
    PROVE  /\ Made' = Made
           /\ slots'[s].line = Append(slots[s].line, p)
           /\ \A t \in Made : t # s => slots'[t].line = slots[t].line
<1>1. slots[s] \in Slot
  BY DEF Made
<1> DEFINE e == [slots[s] EXCEPT !.line = Append(@, p)]
<1>2. e.line = Append(slots[s].line, p)
  BY <1>1 DEF Slot
<1>3. slots' = [slots EXCEPT ![s] = e] /\ s \in DOMAIN slots
  BY DEF Queue, Made
<1> HIDE DEF e
<1> QED
  BY <1>2, <1>3 DEF Made

LEMMA SlotLeft ==
    ASSUME slots \in Seq(Slot), NEW s \in Made, slots' = Leave(s)
    PROVE  /\ Made' = Made
           /\ slots'[s].line = Tail(slots[s].line)
           /\ \A t \in Made : t # s => slots'[t].line = slots[t].line
<1>1. slots[s] \in Slot
  BY DEF Made
<1> DEFINE e == [slots[s] EXCEPT !.line = Tail(@)]
<1>2. e.line = Tail(slots[s].line)
  BY <1>1 DEF Slot
<1>3. slots' = [slots EXCEPT ![s] = e] /\ s \in DOMAIN slots
  BY DEF Leave, Made
<1> HIDE DEF e
<1> QED
  BY <1>2, <1>3 DEF Made

AtSlot(state, slot, s) == state \in {"access", "queued", "running"} /\ slot = s

LEMMA SwitchesApart ==
    ASSUME NEW c \in Commands, CommandNext(c)
    PROVE  UNCHANGED <<switch, end>>
<1>1. CASE Request(c) \/ Resolve(c) \/ Ensure(c) \/ OpenSftp(c) \/ NormalEnds(c)
  BY <1>1 DEF Request, Resolve, Ensure, OpenSftp, NormalEnds
<1>2. CASE FirstAccess(c) \/ Admit(c) \/ Return(c)
  BY <1>2 DEF FirstAccess, Admit, Return
<1>3. CASE Operate(c) \/ Begin(c) \/ Finish(c)
  BY <1>3 DEF Operate, Begin, Finish
<1> QED
  BY <1>1, <1>2, <1>3 DEF CommandNext

LEMMA CommandLines ==
    ASSUME IInv, LinesInv, NEW c \in Commands, CommandNext(c),
           NEW before, before = cmd[c].state, NEW after, after = cmd'[c].state,
           Made' = Made,
           Moves(transport, transport', c, before = "opening", after = "opening"),
           Moves(sftp, sftp', c, before \in {"ensure", "opening", "normal"},
                                 after \in {"ensure", "opening", "normal"}),
           \A s \in Made : Moves(slots[s].line, slots'[s].line, c,
                                 AtSlot(before, cmd[c].slot, s), AtSlot(after, cmd'[c].slot, s))
    PROVE  LinesInv'
<1>1. c \in Callers /\ c \notin Switches /\ c \notin Ends
  BY ElevationAssumption DEF Callers
<1>2. UNCHANGED <<switch, end>>
  BY SwitchesApart
<1>3. Alone(c)
  BY <1>2, Elsewhere DEF Alone
<1>4. Moves(transport, transport', c, WaitsForConnection(c), WaitsForConnection(c)')
  BY <1>1 DEF WaitsForConnection, Moves
<1>5. Moves(sftp, sftp', c, WaitsForNormal(c), WaitsForNormal(c)')
  BY <1>1 DEF WaitsForNormal, Moves
<1>6. \A s \in Made : Moves(slots[s].line, slots'[s].line, c, WaitsForSlot(c, s), WaitsForSlot(c, s)')
  BY <1>1 DEF WaitsForSlot, AtSlot, Moves
<1> QED
  BY <1>1, <1>3, <1>4, <1>5, <1>6, LinesMoved

(* Commands that are in no line of a slot, before and after.               *)
LEMMA NoSlotLines ==
    ASSUME IInv, LinesInv, NEW c \in Commands, CommandNext(c), UNCHANGED slots,
           NEW before, before = cmd[c].state, NEW after, after = cmd'[c].state,
           before \notin {"access", "queued", "running"},
           after \notin {"access", "queued", "running"},
           Moves(transport, transport', c, before = "opening", after = "opening"),
           Moves(sftp, sftp', c, before \in {"ensure", "opening", "normal"},
                                 after \in {"ensure", "opening", "normal"})
    PROVE  LinesInv'
<1>1. Made' = Made
  BY DEF Made
<1>2. \A s \in Made : Moves(slots[s].line, slots'[s].line, c,
                            AtSlot(before, cmd[c].slot, s), AtSlot(after, cmd'[c].slot, s))
  BY DEF Moves, AtSlot
<1> QED
  BY <1>1, <1>2, CommandLines

(* Commands that are only in the line of their slot.                       *)
LEMMA OneSlotLine ==
    ASSUME IInv, LinesInv, NEW c \in Commands, CommandNext(c), UNCHANGED <<transport, sftp>>,
           NEW before, before = cmd[c].state, NEW after, after = cmd'[c].state,
           before \notin {"ensure", "opening", "normal"},
           after \notin {"ensure", "opening", "normal"},
           NEW s \in Made, s = cmd[c].slot,
           after \in {"access", "queued", "running"} => cmd'[c].slot = s,
           Made' = Made, \A t \in Made : t # s => slots'[t].line = slots[t].line,
           Moves(slots[s].line, slots'[s].line, c,
                 before \in {"access", "queued", "running"},
                 after \in {"access", "queued", "running"})
    PROVE  LinesInv'
<1>1. ASSUME NEW t \in Made
      PROVE  Moves(slots[t].line, slots'[t].line, c,
                   AtSlot(before, cmd[c].slot, t), AtSlot(after, cmd'[c].slot, t))
  <2>1. CASE t = s
    <3>1. AtSlot(before, cmd[c].slot, t) <=> before \in {"access", "queued", "running"}
      BY <2>1 DEF AtSlot
    <3>2. AtSlot(after, cmd'[c].slot, t) <=> after \in {"access", "queued", "running"}
      BY <2>1, ZenonT(60) DEF AtSlot
    <3> QED
      BY <2>1, <3>1, <3>2, ZenonT(60) DEF Moves
  <2>2. CASE t # s
    <3>1. ~AtSlot(before, cmd[c].slot, t) /\ ~AtSlot(after, cmd'[c].slot, t)
      BY <2>2, ZenonT(60) DEF AtSlot
    <3> QED
      BY <2>2, <3>1, ZenonT(60) DEF Moves
  <2> QED
    BY <2>1, <2>2, ZenonT(60)
<1>2. Moves(transport, transport', c, before = "opening", after = "opening")
  BY ZenonT(60) DEF Moves
<1>3. Moves(sftp, sftp', c, before \in {"ensure", "opening", "normal"},
                            after \in {"ensure", "opening", "normal"})
  BY DEF Moves
<1> QED
  BY <1>1, <1>2, <1>3, CommandLines

LEMMA Failed ==
    ASSUME IInv, NEW c \in Commands, NEW r \in Command, Fail(c, r)
    PROVE  cmd'[c].state \in {"done", "between"}
<1>1. cmd \in [Commands -> Command]
  BY DEF IInv, TypeOK
<1>2. AfterOps(r, "ok").state = "done" /\ AfterOps(r, "error").state = "done"
  BY Audited
<1>3. CASE cmd' = [cmd EXCEPT ![c] = [r EXCEPT !.state = "between", !.ops = @ + 1]]
  <2>1. cmd'[c] = [r EXCEPT !.state = "between", !.ops = @ + 1]
    BY <1>1, <1>3
  <2> QED
    BY <2>1 DEF Command
<1>4. CASE cmd' = [cmd EXCEPT ![c] = AfterOps(r, "ok")]
           \/ cmd' = [cmd EXCEPT ![c] = AfterOps(r, "error")]
  BY <1>1, <1>2, <1>4
<1> QED
  BY <1>3, <1>4 DEF Fail

(* The commands.                                                           *)
LEMMA RequestLines ==
    ASSUME IInv, LinesInv, NEW c \in Commands, Request(c) \/ Return(c)
    PROVE  LinesInv'
<1>1. CommandNext(c)
  BY DEF CommandNext
<1>2. cmd \in [Commands -> Command] /\ cmd[c] \in Command
  BY DEF IInv, TypeOK
<1>3. UNCHANGED <<slots, transport, sftp>> /\ cmd[c].state \in {"idle", "between"}
  BY DEF Request, Return
<1>4. CASE Request(c)
  <2>1. PICK r \in Requests :
          cmd' = [cmd EXCEPT ![c].state = "resolve", ![c].user = r.user, ![c].changes = r.changes,
                             ![c].slot = IF r.user = None THEN None ELSE registered]
    BY <1>4 DEF Request
  <2>2. cmd'[c].state = "resolve"
    BY <1>2, <2>1 DEF Command
  <2> QED
    BY <1>1, <1>3, <2>2, NoSlotLines DEF Moves
<1>5. CASE Return(c)
  <2>1. cmd'[c].state = "done"
    <3>1. PICK body \in {"ok", "error"} : cmd' = [cmd EXCEPT ![c] = AfterOps(@, body)]
      BY <1>5 DEF Return
    <3>2. AfterOps(cmd[c], "ok").state = "done" /\ AfterOps(cmd[c], "error").state = "done"
      BY <1>2, Audited
    <3> QED
      BY <1>2, <3>1, <3>2
  <2> QED
    BY <1>1, <1>3, <2>1, NoSlotLines DEF Moves
<1> QED
  BY <1>4, <1>5

LEMMA NormalLines ==
    ASSUME IInv, LinesInv, NEW c \in Commands,
           Resolve(c) \/ Ensure(c) \/ OpenSftp(c) \/ NormalEnds(c)
    PROVE  LinesInv'
<1>1. CommandNext(c)
  BY DEF CommandNext
<1>2. cmd \in [Commands -> Command] /\ cmd[c] \in Command
  BY DEF IInv, TypeOK
<1>3. UNCHANGED slots
  BY DEF Resolve, Ensure, OpenSftp, NormalEnds
<1>4. \A state \in {"start", "ensure", "opening", "normal"} : To(c, state) => cmd'[c].state = state
  BY <1>2 DEF To, Command
<1>5. \A body \in {"error", "inactive"} :
        cmd' = [cmd EXCEPT ![c] = Complete(@, body)] => cmd'[c].state = "done"
  BY <1>2, Completed
<1>6. CASE Resolve(c)
  <2>1. cmd[c].state = "resolve" /\ UNCHANGED transport
    BY <1>6 DEF Resolve
  <2>2. \/ cmd'[c].state \in {"done", "start"} /\ sftp' = sftp
        \/ cmd'[c].state = "ensure" /\ sftp' = Append(sftp, c)
    BY <1>4, <1>5, <1>6 DEF Resolve
  <2> QED
    BY <1>1, <1>3, <2>1, <2>2, NoSlotLines DEF Moves
<1>7. CASE Ensure(c)
  <2>1. cmd[c].state = "ensure" /\ HasLock(sftp, c)
    BY <1>7 DEF Ensure
  <2>2. \/ /\ cmd'[c].state = "normal"
           /\ sftp' = Append(Tail(sftp), c) /\ transport' = transport
        \/ /\ cmd'[c].state = "opening"
           /\ sftp' = sftp /\ transport' = Append(transport, c)
    BY <1>4, <1>7 DEF Ensure
  <2> QED
    BY <1>1, <1>3, <2>1, <2>2, NoSlotLines DEF Moves
<1>8. CASE OpenSftp(c)
  <2>1. cmd[c].state = "opening" /\ HasLock(transport, c) /\ transport' = Tail(transport)
    BY <1>8 DEF OpenSftp
  <2>2. HasLock(sftp, c)
    BY <2>1 DEF IInv, CommandInv, CommandOK
  <2>3. \/ cmd'[c].state = "normal" /\ sftp' = Append(Tail(sftp), c)
        \/ cmd'[c].state = "done" /\ sftp' = Tail(sftp)
    BY <1>4, <1>5, <1>8 DEF OpenSftp
  <2> QED
    BY <1>1, <1>3, <2>1, <2>2, <2>3, NoSlotLines DEF Moves
<1>9. CASE NormalEnds(c)
  <2>1. /\ cmd[c].state = "normal" /\ HasLock(sftp, c) /\ sftp' = Tail(sftp)
        /\ UNCHANGED transport
    BY <1>9 DEF NormalEnds
  <2>2. cmd'[c].state = "done"
    <3>1. PICK body \in {"ok", "error"} : cmd' = [cmd EXCEPT ![c] = AfterOps(@, body)]
      BY <1>9 DEF NormalEnds
    <3>2. AfterOps(cmd[c], "ok").state = "done" /\ AfterOps(cmd[c], "error").state = "done"
      BY <1>2, Audited
    <3> QED
      BY <1>2, <3>1, <3>2
  <2> QED
    BY <1>1, <1>3, <2>1, <2>2, NoSlotLines DEF Moves
<1> QED
  BY <1>6, <1>7, <1>8, <1>9

LEMMA AccessLines ==
    ASSUME IInv, LinesInv, NEW c \in Commands, FirstAccess(c) \/ Admit(c)
    PROVE  LinesInv'
<1> DEFINE s == cmd[c].slot
<1>1. CommandNext(c) /\ c \in Callers
  BY DEF CommandNext, Callers
<1>2. cmd \in [Commands -> Command] /\ cmd[c] \in Command /\ slots \in Seq(Slot)
  BY DEF IInv, TypeOK
<1>3. /\ cmd[c].state \in {"start", "between", "access"} /\ s \in Made
      /\ UNCHANGED <<transport, sftp>>
  BY DEF FirstAccess, Admit, IInv, CommandInv, CommandOK
<1>4. CASE FirstAccess(c)
  <2>1. cmd[c].state \in {"start", "between"} /\ slots' = Queue(s, c)
    BY <1>4 DEF FirstAccess
  <2>2. cmd'[c].state = "access" /\ cmd'[c].slot = s
    BY <1>2, <1>4 DEF FirstAccess, Command
  <2>3. /\ Made' = Made /\ slots'[s].line = Append(slots[s].line, c)
        /\ \A t \in Made : t # s => slots'[t].line = slots[t].line
    BY <1>1, <1>2, <1>3, <2>1, SlotQueued
  <2> HIDE DEF s
  <2>4. Moves(slots[s].line, slots'[s].line, c, cmd[c].state \in {"access", "queued", "running"},
              cmd'[c].state \in {"access", "queued", "running"})
    BY <2>1, <2>2, <2>3, ZenonT(60) DEF Moves
  <2> QED
    BY <1>1, <1>3, <2>1, <2>2, <2>3, <2>4, OneSlotLine DEF s
<1>5. CASE Admit(c)
  <2>1. cmd[c].state = "access" /\ HasLock(slots[s].line, c) /\ slots' = Leave(s)
    BY <1>5 DEF Admit
  <2>2. cmd'[c].state \in {"done", "between"}
    <3>1. cmd'[c] \in {Complete(Noted(cmd[c]), "error"), Complete(cmd[c], "error"),
                       [cmd[c] EXCEPT !.state = "between"]}
      BY <1>2, <1>5 DEF Admit
    <3>2. [cmd[c] EXCEPT !.state = "between"].state = "between"
      BY <1>2 DEF Command
    <3>3. /\ Complete(Noted(cmd[c]), "error").state = "done"
          /\ Complete(cmd[c], "error").state = "done"
      BY <1>2, NotedFacts, Completed
    <3> QED
      BY <3>1, <3>2, <3>3
  <2>3. /\ Made' = Made /\ slots'[s].line = Tail(slots[s].line)
        /\ \A t \in Made : t # s => slots'[t].line = slots[t].line
    BY <1>2, <1>3, <2>1, SlotLeft
  <2> HIDE DEF s
  <2>4. Moves(slots[s].line, slots'[s].line, c, cmd[c].state \in {"access", "queued", "running"},
              cmd'[c].state \in {"access", "queued", "running"})
    BY <2>1, <2>2, <2>3, ZenonT(60) DEF Moves
  <2> QED
    BY <1>1, <1>3, <2>1, <2>2, <2>3, <2>4, OneSlotLine DEF s
<1> QED
  BY <1>4, <1>5

LEMMA OperationLines ==
    ASSUME IInv, LinesInv, NEW c \in Commands, Operate(c) \/ Begin(c) \/ Finish(c)
    PROVE  LinesInv'
<1> DEFINE s == cmd[c].slot
<1>1. CommandNext(c) /\ c \in Callers
  BY DEF CommandNext, Callers
<1>2. cmd \in [Commands -> Command] /\ cmd[c] \in Command /\ slots \in Seq(Slot)
  BY DEF IInv, TypeOK
<1>3. /\ cmd[c].state \in {"between", "queued", "running"} /\ s \in Made
      /\ UNCHANGED <<transport, sftp>>
  BY DEF Operate, Begin, Finish, IInv, CommandInv, CommandOK
<1>4. /\ Fail(c, cmd[c]) => cmd'[c].state \in {"done", "between"}
      /\ Fail(c, Noted(cmd[c])) => cmd'[c].state \in {"done", "between"}
  BY <1>2, NotedFacts, Failed, SMTT(40)
<1>5. ASSUME HasLock(slots[s].line, c), slots' = Leave(s),
             cmd[c].state \in {"queued", "running"}, cmd'[c].state \in {"done", "between"}
      PROVE  LinesInv'
  <2>1. /\ Made' = Made /\ slots'[s].line = Tail(slots[s].line)
        /\ \A t \in Made : t # s => slots'[t].line = slots[t].line
    BY <1>2, <1>3, <1>5, SlotLeft
  <2> HIDE DEF s
  <2>2. Moves(slots[s].line, slots'[s].line, c, cmd[c].state \in {"access", "queued", "running"},
              cmd'[c].state \in {"access", "queued", "running"})
    BY <1>5, <2>1, ZenonT(60) DEF Moves
  <2> QED
    BY <1>1, <1>3, <1>5, <2>1, <2>2, OneSlotLine DEF s
<1>6. CASE Operate(c)
  <2>1. cmd[c].state = "between"
    BY <1>6 DEF Operate
  <2>2. CASE Fail(c, Noted(cmd[c])) /\ UNCHANGED slots
    BY <1>1, <1>3, <1>4, <2>1, <2>2, NoSlotLines DEF Moves
  <2>3. CASE To(c, "queued") /\ slots' = Queue(s, c)
    <3>1. cmd'[c].state = "queued" /\ cmd'[c].slot = s
      BY <1>2, <2>3 DEF To, Command
    <3>2. /\ Made' = Made /\ slots'[s].line = Append(slots[s].line, c)
          /\ \A t \in Made : t # s => slots'[t].line = slots[t].line
      BY <1>1, <1>2, <1>3, <2>3, SlotQueued
    <3> HIDE DEF s
    <3>3. Moves(slots[s].line, slots'[s].line, c, cmd[c].state \in {"access", "queued", "running"},
                cmd'[c].state \in {"access", "queued", "running"})
      BY <2>1, <3>1, <3>2, ZenonT(60) DEF Moves
    <3> QED
      BY <1>1, <1>3, <2>1, <3>1, <3>2, <3>3, OneSlotLine DEF s
  <2> QED
    BY <1>6, <2>2, <2>3 DEF Operate
<1>7. CASE Begin(c)
  <2>1. cmd[c].state = "queued" /\ HasLock(slots[s].line, c)
    BY <1>7 DEF Begin
  <2>2. CASE Fail(c, Noted(cmd[c])) /\ slots' = Leave(s)
    BY <1>4, <1>5, <2>1, <2>2
  <2>3. CASE cmd' = [cmd EXCEPT ![c].state = "running", ![c].worked = TRUE] /\ UNCHANGED slots
    <3>1. cmd'[c].state = "running" /\ cmd'[c].slot = s
      BY <1>2, <2>3 DEF Command
    <3>2. Made' = Made /\ \A t \in Made : slots'[t].line = slots[t].line
      BY <2>3 DEF Made
    <3> HIDE DEF s
    <3>3. Moves(slots[s].line, slots'[s].line, c, cmd[c].state \in {"access", "queued", "running"},
                cmd'[c].state \in {"access", "queued", "running"})
      BY <1>3, <2>1, <3>1, <3>2, ZenonT(60) DEF Moves
    <3> QED
      BY <1>1, <1>3, <2>1, <3>1, <3>2, <3>3, OneSlotLine DEF s
  <2> QED
    BY <1>7, <2>2, <2>3 DEF Begin
<1>8. CASE Finish(c)
  <2>1. cmd[c].state = "running" /\ slots' = Leave(s)
    BY <1>8 DEF Finish
  <2>2. HasLock(slots[s].line, c)
    BY <2>1 DEF IInv, CommandInv, CommandOK
  <2>3. cmd'[c].state \in {"done", "between"}
    BY <1>2, <1>4, <1>8 DEF Finish, Command
  <2> QED
    BY <1>5, <2>1, <2>2, <2>3
<1> QED
  BY <1>6, <1>7, <1>8

(* The switches.                                                           *)
Drains(state, slot, s) == state = "drain" /\ slot = s

LEMMA SwitchLines ==
    ASSUME IInv, LinesInv, NEW w \in Switches, UNCHANGED <<sftp, cmd, end>>,
           \A v \in Switches : v # w => switch'[v] = switch[v],
           NEW before, before = switch[w].state, NEW after, after = switch'[w].state,
           Moves(transport, transport', w, before \in {"probe", "open"}, after \in {"probe", "open"}),
           Made \subseteq Made',
           \A s \in Made : Moves(slots[s].line, slots'[s].line, w,
                                 Drains(before, switch[w].slot, s), Drains(after, switch'[w].slot, s)),
           \A s \in Made' \ Made : slots'[s].line = <<>> /\ ~Drains(after, switch'[w].slot, s)
    PROVE  LinesInv'
<1>1. w \in Callers /\ w \notin Commands /\ w \notin Ends
  BY ElevationAssumption DEF Callers
<1>2. Alone(w)
  BY DEF Alone
<1>3. Moves(transport, transport', w, WaitsForConnection(w), WaitsForConnection(w)')
  BY <1>1 DEF WaitsForConnection, Moves
<1>4. Moves(sftp, sftp', w, WaitsForNormal(w), WaitsForNormal(w)')
  BY <1>1 DEF WaitsForNormal, Moves
<1>5. \A s : /\ WaitsForSlot(w, s) <=> Drains(before, switch[w].slot, s)
             /\ WaitsForSlot(w, s)' <=> Drains(after, switch'[w].slot, s)
  BY <1>1 DEF WaitsForSlot, Drains
<1>6. \A s \in Made : Moves(slots[s].line, slots'[s].line, w, WaitsForSlot(w, s), WaitsForSlot(w, s)')
  BY <1>5 DEF Moves
<1>7. \A s \in Made' \ Made : slots'[s].line = <<>> /\ ~WaitsForSlot(w, s)'
  BY <1>5
<1> QED
  BY <1>1, <1>2, <1>3, <1>4, <1>6, <1>7, LinesMoved

LEMMA SwitchMoves ==
    ASSUME IInv, NEW w \in Switches
    PROVE  /\ \A state \in {"open", "insert", "take", "drain"} :
                 Turn(w, state) => /\ switch'[w].state = state /\ switch'[w].slot = switch[w].slot
                                   /\ \A v \in Switches : v # w => switch'[v] = switch[v]
           /\ Returns(w) => /\ switch'[w].state = "done"
                            /\ \A v \in Switches : v # w => switch'[v] = switch[v]
<1>1. switch \in [Switches -> Switch] /\ switch[w] \in Switch
  BY DEF IInv, TypeOK
<1>2. ASSUME NEW state \in {"open", "insert", "take", "drain"}, Turn(w, state)
      PROVE  /\ switch'[w].state = state /\ switch'[w].slot = switch[w].slot
             /\ \A v \in Switches : v # w => switch'[v] = switch[v]
  BY <1>1, <1>2 DEF Turn, Switch
<1>3. ASSUME Returns(w)
      PROVE  /\ switch'[w].state = "done"
             /\ \A v \in Switches : v # w => switch'[v] = switch[v]
  BY <1>1, <1>3 DEF Returns
<1> QED
  BY <1>2, <1>3

LEMMA PlainSwitchLines ==
    ASSUME IInv, LinesInv, NEW w \in Switches,
           Enable(w) \/ Probe(w) \/ OpenViaExec(w) \/ Disable(w) \/ Take(w)
    PROVE  LinesInv'
<1>1. UNCHANGED <<slots, sftp, cmd, end>>
  BY DEF Enable, Probe, OpenViaExec, Disable, Take
<1>2. switch \in [Switches -> Switch] /\ switch[w] \in Switch
  BY DEF IInv, TypeOK
<1>3. ASSUME NEW before, before = switch[w].state, before # "drain",
             NEW after, after = switch'[w].state, after # "drain",
             \A v \in Switches : v # w => switch'[v] = switch[v],
             Moves(transport, transport', w,
                   before \in {"probe", "open"}, after \in {"probe", "open"})
      PROVE  LinesInv'
  <2>1. \A s \in Made : Moves(slots[s].line, slots'[s].line, w,
                              Drains(before, switch[w].slot, s), Drains(after, switch'[w].slot, s))
    BY <1>1, <1>3 DEF Moves, Drains
  <2>2. Made' = Made
    BY <1>1 DEF Made
  <2> QED
    BY <1>1, <1>3, <2>1, <2>2, SwitchLines
<1>4. CASE Enable(w)
  <2>1. switch[w].state = "idle"
    BY <1>4 DEF Enable
  <2>2. CASE Returns(w) /\ UNCHANGED transport
    BY <1>3, <2>1, <2>2, SwitchMoves DEF Moves
  <2>3. ASSUME NEW u \in Users, switch' = [switch EXCEPT ![w].state = "probe", ![w].user = u],
               transport' = Append(transport, w)
        PROVE  LinesInv'
    <3>1. switch'[w].state = "probe" /\ \A v \in Switches : v # w => switch'[v] = switch[v]
      BY <1>2, <2>3 DEF Switch
    <3> QED
      BY <1>3, <2>1, <2>3, <3>1 DEF Moves
  <2> QED
    BY <1>4, <2>2, <2>3 DEF Enable
<1>5. CASE Probe(w)
  <2>1. switch[w].state = "probe" /\ HasLock(transport, w)
    BY <1>5 DEF Probe
  <2>2. CASE Turn(w, "open") /\ transport' = Append(Tail(transport), w)
    BY <1>3, <2>1, <2>2, SwitchMoves DEF Moves
  <2>3. CASE Returns(w) /\ transport' = Tail(transport)
    BY <1>3, <2>1, <2>3, SwitchMoves DEF Moves
  <2> QED
    BY <1>5, <2>2, <2>3 DEF Probe
<1>6. CASE OpenViaExec(w)
  <2>1. switch[w].state = "open" /\ HasLock(transport, w) /\ transport' = Tail(transport)
    BY <1>6 DEF OpenViaExec
  <2>2. /\ switch'[w].state \in {"insert", "done"}
        /\ \A v \in Switches : v # w => switch'[v] = switch[v]
    BY <1>6, SwitchMoves DEF OpenViaExec
  <2> QED
    BY <1>3, <2>1, <2>2 DEF Moves
<1>7. CASE Disable(w)
  <2>1. switch[w].state = "idle" /\ UNCHANGED transport
    BY <1>7 DEF Disable
  <2>2. /\ switch'[w].state \in {"take", "done"}
        /\ \A v \in Switches : v # w => switch'[v] = switch[v]
    BY <1>7, SwitchMoves DEF Disable
  <2> QED
    BY <1>3, <2>1, <2>2 DEF Moves
<1>8. CASE Take(w)
  <2>1. switch[w].state = "take" /\ UNCHANGED transport
    BY <1>8 DEF Take
  <2>2. /\ switch'[w].state \in {"mark", "done"}
        /\ \A v \in Switches : v # w => switch'[v] = switch[v]
    <3>1. CASE Returns(w)
      BY <3>1, SwitchMoves
    <3>2. CASE switch' = [switch EXCEPT ![w].state = "mark", ![w].slot = registered]
      BY <1>2, <3>2 DEF Switch
    <3> QED
      BY <1>8, <3>1, <3>2 DEF Take
  <2> QED
    BY <1>3, <2>1, <2>2 DEF Moves
<1> QED
  BY <1>4, <1>5, <1>6, <1>7, <1>8

(* A switch that gets in line for a slot, and one that leaves.             *)
LEMMA DrainLines ==
    ASSUME IInv, LinesInv, NEW w \in Switches, MarkTaken(w) \/ Drain(w)
    PROVE  LinesInv'
<1> DEFINE s == switch[w].slot
<1>1. /\ slots \in Seq(Slot) /\ s \in Made /\ switch[w].state \in {"mark", "drain"}
      /\ UNCHANGED <<transport, sftp, cmd, end>>
  BY DEF MarkTaken, Drain, IInv, SwitchInv, TypeOK
<1>2. slots[s] \in Slot /\ s \in DOMAIN slots
  BY <1>1 DEF Made
<1>3. CASE MarkTaken(w)
  <2> DEFINE e == [slots[s] EXCEPT !.revoked = TRUE, !.line = Append(@, w)]
  <2>1. switch[w].state = "mark" /\ slots' = [slots EXCEPT ![s] = e]
    BY <1>2, <1>3 DEF MarkTaken
  <2>2. e.line = Append(slots[s].line, w)
    BY <1>2 DEF Slot
  <2>3. /\ switch'[w].state = "drain" /\ switch'[w].slot = s
        /\ \A v \in Switches : v # w => switch'[v] = switch[v]
    BY <1>3, SwitchMoves DEF MarkTaken
  <2> HIDE DEF e
  <2>4. /\ Made' = Made /\ slots'[s].line = Append(slots[s].line, w)
        /\ \A t \in Made : t # s => slots'[t] = slots[t]
    BY <1>2, <2>1, <2>2 DEF Made
  <2> HIDE DEF s
  <2>5. ASSUME NEW t \in Made
        PROVE  Moves(slots[t].line, slots'[t].line, w, Drains(switch[w].state, s, t),
                     Drains(switch'[w].state, switch'[w].slot, t))
    BY <2>1, <2>3, <2>4 DEF Moves, Drains
  <2>6. Moves(transport, transport', w, switch[w].state \in {"probe", "open"},
              switch'[w].state \in {"probe", "open"})
    BY <1>1, <2>1, <2>3 DEF Moves
  <2> QED
    BY <1>1, <2>3, <2>4, <2>5, <2>6, SwitchLines DEF s
<1>4. CASE Drain(w)
  <2> DEFINE e == [slots[s] EXCEPT !.present = FALSE, !.line = Tail(@)]
  <2>1. /\ switch[w].state = "drain" /\ HasLock(slots[s].line, w)
        /\ slots' = [slots EXCEPT ![s] = e]
    BY <1>2, <1>4 DEF Drain
  <2>2. e.line = Tail(slots[s].line)
    BY <1>2 DEF Slot
  <2>3. /\ switch'[w].state = "done"
        /\ \A v \in Switches : v # w => switch'[v] = switch[v]
    BY <1>4, SwitchMoves DEF Drain
  <2> HIDE DEF e
  <2>4. /\ Made' = Made /\ slots'[s].line = Tail(slots[s].line)
        /\ \A t \in Made : t # s => slots'[t] = slots[t]
    BY <1>2, <2>1, <2>2 DEF Made
  <2> HIDE DEF s
  <2>5. ASSUME NEW t \in Made
        PROVE  Moves(slots[t].line, slots'[t].line, w, Drains(switch[w].state, s, t),
                     Drains(switch'[w].state, switch'[w].slot, t))
    BY <2>1, <2>3, <2>4 DEF Moves, Drains
  <2>6. Moves(transport, transport', w, switch[w].state \in {"probe", "open"},
              switch'[w].state \in {"probe", "open"})
    BY <1>1, <2>1, <2>3 DEF Moves
  <2> QED
    BY <1>1, <2>3, <2>4, <2>5, <2>6, SwitchLines DEF s
<1> QED
  BY <1>3, <1>4

(* The new slot has no line, the one it displaces gets one waiter more.    *)
LEMMA InsertLines ==
    ASSUME IInv, LinesInv, NEW w \in Switches, Insert(w)
    PROVE  LinesInv'
<1>1. /\ switch \in [Switches -> Switch] /\ switch[w] \in Switch /\ slots \in Seq(Slot)
      /\ switch[w].state = "insert" /\ UNCHANGED <<transport, sftp, cmd, end>>
  BY DEF IInv, TypeOK, Insert
<1>2. ASSUME NEW after, after = switch'[w].state, after \notin {"probe", "open"}
      PROVE  Moves(transport, transport', w,
                   switch[w].state \in {"probe", "open"}, after \in {"probe", "open"})
  BY <1>1, <1>2 DEF Moves
<1>3. CASE Returns(w) /\ UNCHANGED slots
  <2>1. switch'[w].state = "done" /\ \A v \in Switches : v # w => switch'[v] = switch[v]
    BY <1>3, SwitchMoves
  <2>2. Made' = Made
    BY <1>3 DEF Made
  <2>3. \A s \in Made : Moves(slots[s].line, slots'[s].line, w, Drains(switch[w].state, switch[w].slot, s),
                              Drains(switch'[w].state, switch'[w].slot, s))
    BY <1>1, <1>3, <2>1 DEF Moves, Drains
  <2> QED
    BY <1>1, <1>2, <2>1, <2>2, <2>3, SwitchLines
<1>4. CASE alive
  <2> DEFINE n == Len(slots) + 1
             new == [user |-> switch[w].user, revoked |-> FALSE, present |-> TRUE, line |-> <<>>]
             e == [slots[registered] EXCEPT !.revoked = TRUE, !.line = Append(@, w)]
             others == IF registered = None THEN slots ELSE [slots EXCEPT ![registered] = e]
  <2>1. Made = 1 .. Len(slots) /\ Len(slots) \in Nat
    BY <1>1 DEF Made
  <2>2. slots' = Append(others, new) /\ new.line = <<>>
    BY <1>1, <1>4, ZenonT(60) DEF Insert
  <2>3. /\ others \in Seq(Slot) /\ Len(others) = Len(slots)
        /\ \A t \in Made : t # registered => others[t] = slots[t]
        /\ registered # None => /\ registered \in Made
                                /\ others[registered].line = Append(slots[registered].line, w)
    <3>1. CASE registered = None
      BY <1>1, <3>1
    <3>2. CASE registered # None
      <4>1. registered \in Made /\ slots[registered] \in Slot
        BY <1>1, <2>1, <3>2 DEF IInv, TypeOK
      <4>2. Append(slots[registered].line, w) \in Seq(Callers)
        BY <4>1 DEF Slot, Callers
      <4>3. e \in Slot /\ e.line = Append(slots[registered].line, w)
        BY <4>1, <4>2 DEF Slot
      <4> HIDE DEF e
      <4> QED
        BY <1>1, <2>1, <3>2, <4>1, <4>3
    <3> QED
      BY <3>1, <3>2
  <2> HIDE DEF others, new, e
  <2>4. /\ Made' = Made \cup {n} /\ n \notin Made
        /\ slots'[n] = new /\ \A t \in Made : slots'[t] = others[t]
    BY <2>1, <2>2, <2>3 DEF Made
  <2>5. None \notin Made
    BY <2>1, ElevationAssumption
  <2> HIDE DEF n
  <2>6. CASE registered = None
    <3>1. switch'[w].state = "done" /\ \A v \in Switches : v # w => switch'[v] = switch[v]
      BY <1>1, <1>4, <2>6, SwitchMoves DEF Insert
    <3>2. \A t \in Made : Moves(slots[t].line, slots'[t].line, w,
                                Drains(switch[w].state, switch[w].slot, t),
                                Drains(switch'[w].state, switch'[w].slot, t))
      BY <1>1, <2>3, <2>4, <2>5, <2>6, <3>1 DEF Moves, Drains
    <3>3. \A t \in Made' \ Made : /\ slots'[t].line = <<>>
                                  /\ ~Drains(switch'[w].state, switch'[w].slot, t)
      BY <2>2, <2>4, <3>1 DEF Drains
    <3> QED
      BY <1>1, <1>2, <2>4, <3>1, <3>2, <3>3, SwitchLines
  <2>7. CASE registered # None
    <3>1. /\ switch'[w].state = "drain" /\ switch'[w].slot = registered
          /\ \A v \in Switches : v # w => switch'[v] = switch[v]
      <4>1. switch' = [switch EXCEPT ![w].state = "drain", ![w].slot = registered]
        BY <1>1, <1>4, <2>7 DEF Insert
      <4> QED
        BY <1>1, <4>1 DEF Switch
    <3>2. ASSUME NEW t \in Made
          PROVE  Moves(slots[t].line, slots'[t].line, w,
                       Drains(switch[w].state, switch[w].slot, t),
                       Drains(switch'[w].state, switch'[w].slot, t))
      BY <1>1, <2>3, <2>4, <2>7, <3>1 DEF Moves, Drains
    <3>3. \A t \in Made' \ Made : /\ slots'[t].line = <<>>
                                  /\ ~Drains(switch'[w].state, switch'[w].slot, t)
      BY <2>2, <2>3, <2>4, <2>7, <3>1 DEF Drains
    <3> QED
      BY <1>1, <1>2, <2>4, <3>1, <3>2, <3>3, SwitchLines
  <2> QED
    BY <2>6, <2>7
<1> QED
  BY <1>3, <1>4 DEF Insert

(* Disconnect gets in line for the connection and for nothing else.        *)
LEMMA EndLines ==
    ASSUME IInv, LinesInv, NEW d \in Ends, EndNext(d)
    PROVE  LinesInv'
<1>1. /\ end \in [Ends -> End] /\ end[d] \in End /\ slots \in Seq(Slot)
      /\ transport \in Seq(Callers)
  BY DEF IInv, TypeOK
<1>2. UNCHANGED <<sftp, cmd, switch>>
  BY DEF EndNext, RemoveSession, RemoveSlot, MarkRemoved, Disconnected
<1>3. d \in Callers /\ d \notin Commands /\ d \notin Switches
  BY ElevationAssumption DEF Callers
<1>4. ASSUME NEW before, before = end[d].state, NEW after, after = end'[d].state,
             \A f \in Ends : f # d => end'[f] = end[f],
             Made' = Made, \A s \in Made : slots'[s].line = slots[s].line,
             Moves(transport, transport', d, before = "hangup", after = "hangup")
      PROVE  LinesInv'
  <2>1. Alone(d)
    BY <1>2, <1>4 DEF Alone
  <2>2. Moves(transport, transport', d, WaitsForConnection(d), WaitsForConnection(d)')
    BY <1>3, <1>4 DEF WaitsForConnection, Moves
  <2>3. Moves(sftp, sftp', d, WaitsForNormal(d), WaitsForNormal(d)')
    BY <1>2, <1>3 DEF WaitsForNormal, Moves
  <2>4. \A s \in Made : Moves(slots[s].line, slots'[s].line, d, WaitsForSlot(d, s), WaitsForSlot(d, s)')
    BY <1>3, <1>4 DEF WaitsForSlot, Moves
  <2> QED
    BY <1>3, <1>4, <2>1, <2>2, <2>3, <2>4, LinesMoved
<1>5. UNCHANGED slots => Made' = Made /\ \A s \in Made : slots'[s].line = slots[s].line
  BY DEF Made
<1>6. ASSUME HangUp(d)
      PROVE  /\ \/ end'[d].state = "hangup" /\ transport' = Append(transport, d)
                \/ end'[d].state = "done" /\ transport' = transport
             /\ \A f \in Ends : f # d => end'[f] = end[f]
  BY <1>1, <1>6 DEF HangUp, End
<1>7. CASE RemoveSession(d)
  <2>1. end[d].state = "idle" /\ UNCHANGED <<slots, transport>>
    BY <1>7 DEF RemoveSession
  <2>2. end'[d].state = "unslot" /\ \A f \in Ends : f # d => end'[f] = end[f]
    BY <1>1, <1>7 DEF RemoveSession, End
  <2> QED
    BY <1>4, <1>5, <2>1, <2>2 DEF Moves
<1>8. CASE RemoveSlot(d)
  <2>1. end[d].state = "unslot" /\ UNCHANGED slots
    BY <1>8 DEF RemoveSlot
  <2>2. CASE HangUp(d)
    BY <1>4, <1>5, <1>6, <2>1, <2>2 DEF Moves
  <2>3. CASE end' = [end EXCEPT ![d].state = "mark", ![d].slot = registered] /\ UNCHANGED transport
    <3>1. end'[d].state = "mark" /\ \A f \in Ends : f # d => end'[f] = end[f]
      BY <1>1, <2>3 DEF End
    <3> QED
      BY <1>4, <1>5, <2>1, <2>3, <3>1 DEF Moves
  <2> QED
    BY <1>8, <2>2, <2>3 DEF RemoveSlot
<1>9. CASE MarkRemoved(d)
  <2> DEFINE s == end[d].slot
             e == [slots[s] EXCEPT !.revoked = TRUE]
  <2>1. end[d].state = "mark" /\ HangUp(d) /\ slots' = [slots EXCEPT ![s] = e]
    BY <1>9 DEF MarkRemoved, MarkRevoked
  <2>2. s \in Made
    BY <2>1 DEF IInv, EndInv
  <2>3. slots[s] \in Slot
    BY <1>1, <2>2 DEF Made
  <2>4. e.line = slots[s].line
    BY <2>3 DEF Slot
  <2> HIDE DEF e
  <2>5. Made' = Made /\ \A t \in Made : slots'[t].line = slots[t].line
    BY <2>1, <2>2, <2>4 DEF Made
  <2> QED
    BY <1>4, <1>6, <2>1, <2>5 DEF Moves
<1>10. CASE Disconnected(d)
  <2>1. /\ end[d].state = "hangup" /\ HasLock(transport, d) /\ transport' = Tail(transport)
        /\ UNCHANGED slots
    BY <1>10 DEF Disconnected
  <2>2. end'[d].state = "done" /\ \A f \in Ends : f # d => end'[f] = end[f]
    BY <1>1, <1>10 DEF Disconnected, End
  <2> QED
    BY <1>4, <1>5, <2>1, <2>2 DEF Moves
<1> QED
  BY <1>7, <1>8, <1>9, <1>10 DEF EndNext

LEMMA LinesInitially == Init => LinesInv
<1> SUFFICES ASSUME Init PROVE LinesInv
  OBVIOUS
<1>1. Idle.state = "idle"
  BY DEF Idle
<1>2. \A p : ~WaitsForConnection(p) /\ ~WaitsForNormal(p)
  BY <1>1 DEF Init, WaitsForConnection, WaitsForNormal
<1>3. Made = {}
  BY DEF Init, Made
<1> QED
  BY <1>2, <1>3 DEF Init, LinesInv, InLine

LEMMA LinesStep == IInv /\ LinesInv /\ [Next]_vars => LinesInv'
<1> SUFFICES ASSUME IInv, LinesInv, [Next]_vars PROVE LinesInv'
  OBVIOUS
<1>1. ASSUME NEW c \in Commands, CommandNext(c) PROVE LinesInv'
  BY <1>1, RequestLines, NormalLines, AccessLines, OperationLines DEF CommandNext
<1>2. ASSUME NEW w \in Switches, SwitchNext(w) PROVE LinesInv'
  BY <1>2, PlainSwitchLines, DrainLines, InsertLines DEF SwitchNext
<1>3. ASSUME NEW d \in Ends, EndNext(d) PROVE LinesInv'
  BY <1>3, EndLines
<1>4. CASE UNCHANGED vars
  BY <1>4 DEF vars, LinesInv, Made, WaitsForConnection, WaitsForNormal, WaitsForSlot
<1> QED
  BY <1>1, <1>2, <1>3, <1>4 DEF Next, Finished

(* The safety half of NothingWaitsForTransfer.  Whoever has the connection *)
(* can give it back by a step of its own, being no transfer: it opens a    *)
(* channel, and if this is the normal one it has that lock as well, or it  *)
(* is a disconnect; who waits for the connection has not been forgotten;   *)
(* and a command between two operations is in no line.                     *)
ConnectionComesFree ==
    /\ \A p \in Callers : HasLock(transport, p) =>
          \/ p \in Switches /\ switch[p].state \in {"probe", "open"}
          \/ p \in Commands /\ cmd[p].state = "opening" /\ HasLock(sftp, p)
          \/ p \in Ends /\ end[p].state = "hangup"
    /\ \A d \in Ends : end[d].state = "hangup" => \E i \in DOMAIN transport : transport[i] = d
    /\ \A c \in Commands : cmd[c].state = "between" =>
          /\ \A i \in DOMAIN transport : transport[i] # c
          /\ \A s \in Made : \A i \in DOMAIN slots[s].line : slots[s].line[i] # c

(* Every line holds those who wait for its lock, each once, whatever calls *)
(* have come and gone.                                                     *)
THEOREM LinesHoldWaiters == Spec => []LinesInv
<1>1. Init => IInv /\ LinesInv
  BY Initially, LinesInitially
<1>2. (IInv /\ LinesInv) /\ [Next]_vars => (IInv /\ LinesInv)'
  BY Stepwise, LinesStep
<1> QED
  BY <1>1, <1>2, PTL DEF Spec

(* No hanging transfer keeps a disconnect from the connection.             *)
THEOREM NoTransferHolds == Spec => []ConnectionComesFree
<1>1. IInv /\ LinesInv => ConnectionComesFree
  <2> SUFFICES ASSUME IInv, LinesInv PROVE ConnectionComesFree
    OBVIOUS
  <2>1. ASSUME NEW p \in Callers, HasLock(transport, p)
        PROVE  \/ p \in Switches /\ switch[p].state \in {"probe", "open"}
               \/ p \in Commands /\ cmd[p].state = "opening" /\ HasLock(sftp, p)
               \/ p \in Ends /\ end[p].state = "hangup"
    <3>1. 1 \in DOMAIN transport /\ transport[1] = p
      BY <2>1 DEF HasLock, IInv, TypeOK
    <3>2. WaitsForConnection(p)
      BY <3>1 DEF LinesInv, InLine
    <3> QED
      BY <3>2 DEF WaitsForConnection, IInv, CommandInv, CommandOK
  <2>2. ASSUME NEW d \in Ends, end[d].state = "hangup"
        PROVE  \E i \in DOMAIN transport : transport[i] = d
    <3>1. d \in Callers /\ WaitsForConnection(d)
      BY <2>2 DEF Callers, WaitsForConnection
    <3> QED
      BY <3>1 DEF LinesInv, InLine
  <2>3. ASSUME NEW c \in Commands, cmd[c].state = "between"
        PROVE  /\ \A i \in DOMAIN transport : transport[i] # c
               /\ \A s \in Made : \A i \in DOMAIN slots[s].line : slots[s].line[i] # c
    <3>1. c \notin Switches /\ c \notin Ends
      BY ElevationAssumption
    <3>2. ~WaitsForConnection(c) /\ \A s : ~WaitsForSlot(c, s)
      BY <2>3, <3>1 DEF WaitsForConnection, WaitsForSlot
    <3> QED
      BY <3>2 DEF LinesInv, InLine
  <2> QED
    BY <2>1, <2>2, <2>3 DEF ConnectionComesFree
<1> QED
  BY <1>1, Inductive, LinesHoldWaiters, PTL
-----------------------------------------------------------------------------
(* The line for the connection as it was, perhaps longer; and everybody    *)
(* but its first one place further.                                        *)
Stays == \A i \in DOMAIN transport : i \in DOMAIN transport' /\ transport'[i] = transport[i]

MovesUp ==
    \A i \in DOMAIN transport \ {1} :
        i - 1 \in DOMAIN transport' /\ transport'[i - 1] = transport[i]

(* The step is one of the call p.                                          *)
Acts(p) ==
    \/ p \in Commands /\ cmd'[p] # cmd[p]
    \/ p \in Switches /\ switch'[p] # switch[p]
    \/ p \in Ends /\ end'[p] # end[p]

PassesOn ==
    /\ Stays \/ MovesUp
    /\ \A p \in Callers : HasLock(transport, p) /\ Acts(p) => MovesUp

(* What a wait for the connection has left to do is its place in the line: *)
(* no step of any call puts it back, and the next step of the holder, of   *)
(* whatever kind, lets everybody move up.                                  *)
ConnectionPassesOn == [][PassesOn]_vars

LEMMA PassedOn ==
    ASSUME IInv, LinesInv, NEW p \in Callers, \A b \in Callers : b # p => ~Acts(b),
           \/ ~WaitsForConnection(p) /\ (transport' = transport \/ transport' = Append(transport, p))
           \/ transport' = Tail(transport) /\ transport # <<>>
           \/ transport' = Append(Tail(transport), p) /\ transport # <<>>
    PROVE  PassesOn
<1>1. transport \in Seq(Callers)
  BY DEF IInv, TypeOK
<1>2. \A line \in Seq(Callers) :
        /\ DOMAIN Append(line, p) = 1 .. Len(line) + 1 /\ Len(line) \in Nat
        /\ DOMAIN line = 1 .. Len(line)
        /\ \A i \in 1 .. Len(line) : Append(line, p)[i] = line[i]
  OBVIOUS
<1>3. transport' = transport \/ transport' = Append(transport, p) => Stays
  <2>1. CASE transport' = transport
    BY <2>1 DEF Stays
  <2>2. CASE transport' = Append(transport, p)
    BY <1>1, <1>2, <2>2 DEF Stays
  <2> QED
    BY <2>1, <2>2
<1>4. ASSUME transport # <<>>, NEW i \in DOMAIN transport \ {1}
      PROVE  /\ Tail(transport) \in Seq(Callers)
             /\ i - 1 \in 1 .. Len(Tail(transport)) /\ Tail(transport)[i - 1] = transport[i]
  <2>1. /\ Len(transport) \in Nat \ {0} /\ DOMAIN transport = 1 .. Len(transport)
        /\ Tail(transport) \in Seq(Callers) /\ Len(Tail(transport)) = Len(transport) - 1
    BY <1>1, <1>4
  <2>2. \A j \in 1 .. Len(transport) - 1 : Tail(transport)[j] = transport[j + 1]
    BY <1>1, <1>4
  <2>3. i \in Int /\ i - 1 \in 1 .. Len(transport) - 1 /\ (i - 1) + 1 = i
    BY <1>4, <2>1
  <2>4. Tail(transport)[i - 1] = transport[(i - 1) + 1]
    BY <2>2, <2>3
  <2> QED
    BY <2>1, <2>3, <2>4
<1>5. ASSUME transport # <<>>,
             transport' = Tail(transport) \/ transport' = Append(Tail(transport), p)
      PROVE  MovesUp
  <2> SUFFICES ASSUME NEW i \in DOMAIN transport \ {1}
               PROVE  i - 1 \in DOMAIN transport' /\ transport'[i - 1] = transport[i]
    BY DEF MovesUp
  <2> DEFINE rest == Tail(transport)
  <2>1. rest \in Seq(Callers) /\ i - 1 \in 1 .. Len(rest) /\ rest[i - 1] = transport[i]
    BY <1>4, <1>5
  <2> HIDE DEF rest
  <2>2. /\ DOMAIN Append(rest, p) = 1 .. Len(rest) + 1 /\ DOMAIN rest = 1 .. Len(rest)
        /\ Len(rest) \in Nat /\ Append(rest, p)[i - 1] = rest[i - 1]
    BY <1>2, <2>1
  <2>3. i - 1 \in 1 .. Len(rest) + 1
    BY <2>1, <2>2
  <2> QED
    BY <1>5, <2>1, <2>2, <2>3 DEF rest
<1>6. ASSUME ~WaitsForConnection(p) PROVE ~HasLock(transport, p)
  <2>1. HasLock(transport, p) => 1 \in DOMAIN transport /\ transport[1] = p
    BY <1>1 DEF HasLock
  <2> QED
    BY <1>6, <2>1 DEF LinesInv, InLine
<1> QED
  BY <1>3, <1>5, <1>6 DEF PassesOn

LEMMA CommandPassesOn ==
    ASSUME IInv, LinesInv, NEW c \in Commands, CommandNext(c) PROVE PassesOn
<1>1. c \in Callers /\ c \notin Switches /\ c \notin Ends
  BY ElevationAssumption DEF Callers
<1>2. \A b \in Callers : b # c => ~Acts(b)
  BY Elsewhere, SwitchesApart DEF Acts
<1>3. WaitsForConnection(c) <=> cmd[c].state = "opening"
  BY <1>1 DEF WaitsForConnection
<1>4. CASE OpenSftp(c)
  BY <1>1, <1>2, <1>4, PassedOn DEF OpenSftp, HasLock
<1>5. CASE Request(c) \/ Resolve(c) \/ Ensure(c) \/ NormalEnds(c)
  <2>1. cmd[c].state # "opening" /\ (transport' = transport \/ transport' = Append(transport, c))
    BY <1>5 DEF Request, Resolve, Ensure, NormalEnds
  <2> QED
    BY <1>1, <1>2, <1>3, <2>1, PassedOn
<1>6. CASE FirstAccess(c) \/ Admit(c) \/ Operate(c) \/ Begin(c) \/ Finish(c) \/ Return(c)
  <2>1. cmd[c].state # "opening" /\ transport' = transport
    BY <1>6 DEF FirstAccess, Admit, Operate, Begin, Finish, Return
  <2> QED
    BY <1>1, <1>2, <1>3, <2>1, PassedOn
<1> QED
  BY <1>4, <1>5, <1>6 DEF CommandNext

LEMMA SwitchPassesOn ==
    ASSUME IInv, LinesInv, NEW w \in Switches, SwitchNext(w) PROVE PassesOn
<1>1. w \in Callers /\ w \notin Commands /\ w \notin Ends
  BY ElevationAssumption DEF Callers
<1>2. switch \in [Switches -> Switch]
  BY DEF IInv, TypeOK
<1>3. cmd' = cmd /\ end' = end
  BY DEF SwitchNext, Enable, Probe, OpenViaExec, Insert, Disable, Take, MarkTaken, Drain
<1>4. \A v \in Switches : v # w => switch'[v] = switch[v]
  BY <1>2 DEF SwitchNext, Enable, Probe, OpenViaExec, Insert, Disable, Take, MarkTaken, Drain,
     Turn, Returns
<1>5. \A b \in Callers : b # w => ~Acts(b)
  BY <1>3, <1>4 DEF Acts
<1>6. WaitsForConnection(w) <=> switch[w].state \in {"probe", "open"}
  BY <1>1 DEF WaitsForConnection
<1>7. CASE Probe(w) \/ OpenViaExec(w)
  BY <1>1, <1>5, <1>7, PassedOn DEF Probe, OpenViaExec, HasLock
<1>8. CASE Enable(w) \/ Insert(w) \/ Disable(w) \/ Take(w) \/ MarkTaken(w) \/ Drain(w)
  <2>1. /\ switch[w].state \notin {"probe", "open"}
        /\ transport' = transport \/ transport' = Append(transport, w)
    BY <1>8 DEF Enable, Insert, Disable, Take, MarkTaken, Drain
  <2> QED
    BY <1>1, <1>5, <1>6, <2>1, PassedOn
<1> QED
  BY <1>7, <1>8 DEF SwitchNext

LEMMA EndPassesOn ==
    ASSUME IInv, LinesInv, NEW d \in Ends, EndNext(d) PROVE PassesOn
<1>1. d \in Callers /\ d \notin Commands /\ d \notin Switches
  BY ElevationAssumption DEF Callers
<1>2. end \in [Ends -> End]
  BY DEF IInv, TypeOK
<1>3. cmd' = cmd /\ switch' = switch
  BY DEF EndNext, RemoveSession, RemoveSlot, MarkRemoved, Disconnected
<1>4. \A f \in Ends : f # d => end'[f] = end[f]
  BY <1>2 DEF EndNext, RemoveSession, RemoveSlot, MarkRemoved, Disconnected, HangUp
<1>5. \A b \in Callers : b # d => ~Acts(b)
  BY <1>3, <1>4 DEF Acts
<1>6. WaitsForConnection(d) <=> end[d].state = "hangup"
  BY <1>1 DEF WaitsForConnection
<1>7. CASE Disconnected(d)
  BY <1>1, <1>5, <1>7, PassedOn DEF Disconnected, HasLock
<1>8. CASE RemoveSession(d) \/ RemoveSlot(d) \/ MarkRemoved(d)
  <2>1. end[d].state # "hangup" /\ (transport' = transport \/ transport' = Append(transport, d))
    BY <1>8 DEF RemoveSession, RemoveSlot, MarkRemoved, HangUp
  <2> QED
    BY <1>1, <1>5, <1>6, <2>1, PassedOn
<1> QED
  BY <1>7, <1>8 DEF EndNext

(* A wait for the connection only ever comes closer: as many steps of      *)
(* others as stand before it, each of whoever is the first, and it has the *)
(* connection.  With NoTransferHolds: none of them is a transfer.          *)
THEOREM NobodyOvertakes == Spec => ConnectionPassesOn
<1>1. IInv /\ LinesInv /\ [Next]_vars => [PassesOn]_vars
  <2> SUFFICES ASSUME IInv, LinesInv, Next PROVE PassesOn
    OBVIOUS
  <2>1. CASE Finished
    BY <2>1 DEF Finished, vars, PassesOn, Stays, Acts
  <2> QED
    BY <2>1, CommandPassesOn, SwitchPassesOn, EndPassesOn DEF Next
<1> QED
  BY <1>1, Inductive, LinesHoldWaiters, PTL DEF Spec, ConnectionPassesOn
=============================================================================
