---------------------------- MODULE ElevatedSftp ----------------------------
(* The elevated SFTP channel of a session and the end of the session       *)
(* (app-shell: elevated_sftp.rs, commands/elevation.rs, commands/sftp.rs,  *)
(* disconnect in commands/chat.rs).                                        *)
(*                                                                         *)
(* Commands of the file browser work through the channel they find at      *)
(* their start, taking its lock for every operation; meanwhile the channel *)
(* is switched off, switched to another user, or the session disconnected. *)
(* An operation may hang for ever.                                         *)
(* Both locks of tokio are fair: a lock is the line of those who asked for *)
(* it, the first of them holds it.                                         *)
EXTENDS Naturals, Sequences, FiniteSets

CONSTANTS
    Commands,     \* calls of the sftp_* commands of the browser
    Switches,     \* calls of sftp_elevation_enable and sftp_elevation_disable
    Ends,         \* calls of disconnect
    Users,        \* users the rights are raised to
    Requests,     \* what a command asks for: [user (None: the normal channel), changes]
    MaxOps,       \* bound: SFTP operations of one browser command
    None

ASSUME ElevationAssumption ==
    /\ Requests \subseteq [user : Users \cup {None}, changes : BOOLEAN]
    /\ None \notin Users /\ None \notin Nat
    /\ Commands \cap Switches = {} /\ Commands \cap Ends = {} /\ Switches \cap Ends = {}
    /\ MaxOps \in Nat

VARIABLES
    alive,        \* SessionManager: the session is there
    registered,   \* ElevatedSftpRegistry: the slot of the session, or None
    slots,        \* every slot made: user, revoked, present (channel value), line
    transport,    \* the line for the transport of the session
    sftp,         \* the line for the normal channel
    opened,       \* whether the normal channel is open
    cmd,          \* browser commands
    switch,       \* enable and disable
    end,          \* disconnect
    over,         \* history: slots whose switch or disconnect has returned
    closed        \* history: slots a switch has closed and returned

vars == <<alive, registered, slots, transport, sftp, opened, cmd, switch, end, over, closed>>

Callers == Commands \cup Switches \cup Ends

HasLock(line, p) == line # <<>> /\ Head(line) = p

Revoked(s) == slots[s].revoked
Queue(s, p) == [slots EXCEPT ![s].line = Append(@, p)]
Leave(s) == [slots EXCEPT ![s].line = Tail(@)]
MarkRevoked(s) == [slots EXCEPT ![s].revoked = TRUE]

(* A slot was made for every switch that got as far.                       *)
Made == DOMAIN slots

Idle == [state |-> "idle", user |-> None, slot |-> None, changes |-> FALSE, ops |-> 0,
         refused |-> FALSE, auditAs |-> None, result |-> None, audited |-> None,
         worked |-> FALSE, stopped |-> FALSE]

Init ==
    /\ alive = TRUE
    /\ registered = None
    /\ slots = <<>>
    /\ transport = <<>>
    /\ sftp = <<>>
    /\ opened = FALSE
    /\ cmd = [c \in Commands |-> Idle]
    /\ switch = [w \in Switches |-> [state |-> "idle", user |-> None, slot |-> None]]
    /\ end = [d \in Ends |-> [state |-> "idle", found |-> FALSE, slot |-> None]]
    /\ over = {}
    /\ closed = {}

-----------------------------------------------------------------------------
(* A command of the file browser.  Its record also keeps, as history,      *)
(* whether an operation ran with raised rights (worked) and whether an     *)
(* access was refused as revoked (stopped).                                *)

To(c, state) == cmd' = [cmd EXCEPT ![c].state = state]

(* Mutant: the result of the body stands.                                  *)
CompleteUntranslated(r, body) ==
    [r EXCEPT !.state = "done", !.ops = 0, !.auditAs = None, !.result = body]

(* The body is through: with_browser_channel replaces its result when an   *)
(* access was refused meanwhile.                                           *)
Complete(r, body) ==
    [r EXCEPT !.state = "done", !.ops = 0, !.auditAs = None,
              !.result = IF r.refused THEN "inactive" ELSE body]

(* Mutant: who works is asked after the work.                              *)
AfterOpsAskedLate(r, body) ==
    Complete([r EXCEPT !.audited = IF r.changes /\ ~Revoked(r.slot) THEN r.user ELSE None], body)

(* The body after its operations: the changing commands leave a line in    *)
(* the audit, also when they failed.                                       *)
AfterOps(r, body) ==
    Complete([r EXCEPT !.audited = IF r.changes THEN r.auditAs ELSE None], body)

(* An access refused because of a revocation.                              *)
Noted(r) == [r EXCEPT !.refused = TRUE, !.stopped = TRUE]

(* from_request: the slot is looked up once, for the whole command.        *)
Request(c) ==
    /\ cmd[c].state = "idle"
    /\ \E r \in Requests :
        cmd' = [cmd EXCEPT ![c].state = "resolve", ![c].user = r.user, ![c].changes = r.changes,
                           ![c].slot = IF r.user = None THEN None ELSE registered]
    /\ UNCHANGED <<alive, registered, slots, transport, sftp, opened, switch, end, over, closed>>

(* browser_session: the session must be there; a command with raised       *)
(* rights never falls back on the normal channel.                          *)
Resolve(c) ==
    /\ cmd[c].state = "resolve"
    /\ \/ /\ ~alive
          /\ cmd' = [cmd EXCEPT ![c] = Complete(@, "error")]
          /\ UNCHANGED sftp
       \/ /\ alive /\ cmd[c].user # None /\ cmd[c].slot = None
          /\ cmd' = [cmd EXCEPT ![c] = Complete(@, "inactive")]
          /\ UNCHANGED sftp
       \/ /\ alive /\ cmd[c].user # None /\ cmd[c].slot # None
          /\ To(c, "start")
          /\ UNCHANGED sftp
       \/ /\ alive /\ cmd[c].user = None
          /\ To(c, "ensure")
          /\ sftp' = Append(sftp, c)
    /\ UNCHANGED <<alive, registered, slots, transport, opened, switch, end, over, closed>>

(* ensure_sftp_open: the connection is waited for under the lock of the    *)
(* normal channel.                                                         *)
Ensure(c) ==
    /\ cmd[c].state = "ensure"
    /\ HasLock(sftp, c)
    /\ \/ /\ opened
          /\ To(c, "normal")
          /\ sftp' = Append(Tail(sftp), c)
          /\ UNCHANGED transport
       \/ /\ ~opened
          /\ To(c, "opening")
          /\ transport' = Append(transport, c)
          /\ UNCHANGED sftp
    /\ UNCHANGED <<alive, registered, slots, opened, switch, end, over, closed>>

OpenSftp(c) ==
    /\ cmd[c].state = "opening"
    /\ HasLock(transport, c)
    /\ transport' = Tail(transport)
    /\ \/ /\ opened' = TRUE
          /\ To(c, "normal")
          /\ sftp' = Append(Tail(sftp), c)
       \/ /\ cmd' = [cmd EXCEPT ![c] = Complete(@, "error")]
          /\ sftp' = Tail(sftp)
          /\ UNCHANGED opened
    /\ UNCHANGED <<alive, registered, slots, switch, end, over, closed>>

(* The operations of a normal command; it keeps the channel to its end.    *)
NormalEnds(c) ==
    /\ cmd[c].state = "normal"
    /\ HasLock(sftp, c)
    /\ sftp' = Tail(sftp)
    /\ \E body \in {"ok", "error"} : cmd' = [cmd EXCEPT ![c] = AfterOps(@, body)]
    /\ UNCHANGED <<alive, registered, slots, transport, opened, switch, end, over, closed>>

-----------------------------------------------------------------------------
(* BrowserSftpGuard::sftp, the first access.  Who is to appear in the      *)
(* audit is asked just before, as long as the channel is still valid.  A   *)
(* command that downloads a tree comes here again for every file.          *)
FirstAccess(c) ==
    /\ \/ cmd[c].state = "start"
       \/ cmd[c].state = "between" /\ ~cmd[c].changes /\ cmd[c].ops < MaxOps
    /\ cmd' = [cmd EXCEPT ![c].state = "access",
                          ![c].auditAs = IF Revoked(cmd[c].slot) THEN None ELSE cmd[c].user]
    /\ slots' = Queue(cmd[c].slot, c)
    /\ UNCHANGED <<alive, registered, transport, sftp, opened, switch, end, over, closed>>

(* Mutant: only whether the channel value is there.                        *)
AdmitsPresent(s) == slots[s].present

(* elevated_access, under the lock of the slot.                            *)
Admits(s) == ~slots[s].revoked /\ slots[s].present

Admit(c) ==
    LET s == cmd[c].slot IN
    /\ cmd[c].state = "access"
    /\ HasLock(slots[s].line, c)
    /\ slots' = Leave(s)
    /\ cmd' = [cmd EXCEPT ![c] =
                 IF ~Admits(s) THEN Complete(Noted(@), "error")
                 ELSE IF slots[s].user # @.user THEN Complete(@, "error")
                 ELSE [@ EXCEPT !.state = "between"]]
    /\ UNCHANGED <<alive, registered, transport, sftp, opened, switch, end, over, closed>>

(* What becomes of a failed operation: the body ends with it, or takes it  *)
(* for an answer (exists), or passes over it (the size before a download). *)
Fail(c, r) ==
    \/ cmd' = [cmd EXCEPT ![c] = AfterOps(r, "error")]
    \/ ~r.changes /\ cmd' = [cmd EXCEPT ![c] = AfterOps(r, "ok")]
    \/ ~r.changes /\ cmd' = [cmd EXCEPT ![c] = [r EXCEPT !.state = "between", !.ops = @ + 1]]

(* elevated_operation: a revoked access does not queue for the lock.       *)
Operate(c) ==
    LET s == cmd[c].slot IN
    /\ cmd[c].state = "between"
    /\ cmd[c].ops < MaxOps
    /\ \/ Revoked(s) /\ Fail(c, Noted(cmd[c])) /\ UNCHANGED slots
       \/ ~Revoked(s) /\ To(c, "queued") /\ slots' = Queue(s, c)
    /\ UNCHANGED <<alive, registered, transport, sftp, opened, switch, end, over, closed>>

(* The check that counts, made when the lock is there.                     *)
Begin(c) ==
    LET s == cmd[c].slot IN
    /\ cmd[c].state = "queued"
    /\ HasLock(slots[s].line, c)
    /\ \/ /\ Admits(s)
          /\ cmd' = [cmd EXCEPT ![c].state = "running", ![c].worked = TRUE]
          /\ UNCHANGED slots
       \/ /\ ~Admits(s)
          /\ Fail(c, Noted(cmd[c]))
          /\ slots' = Leave(s)
    /\ UNCHANGED <<alive, registered, transport, sftp, opened, switch, end, over, closed>>

(* The operation ends; whether it ever does is up to the server.           *)
Finish(c) ==
    LET s == cmd[c].slot IN
    /\ cmd[c].state = "running"
    /\ slots' = Leave(s)
    /\ \/ cmd' = [cmd EXCEPT ![c].state = "between", ![c].ops = @ + 1]
       \/ Fail(c, cmd[c])
    /\ UNCHANGED <<alive, registered, transport, sftp, opened, switch, end, over, closed>>

(* No further operation.                                                   *)
Return(c) ==
    /\ cmd[c].state = "between"
    /\ \E body \in {"ok", "error"} : cmd' = [cmd EXCEPT ![c] = AfterOps(@, body)]
    /\ UNCHANGED <<alive, registered, slots, transport, sftp, opened, switch, end, over, closed>>

CommandNext(c) ==
    \/ Request(c) \/ Resolve(c) \/ Ensure(c) \/ OpenSftp(c) \/ NormalEnds(c)
    \/ FirstAccess(c) \/ Admit(c) \/ Operate(c) \/ Begin(c) \/ Finish(c) \/ Return(c)

-----------------------------------------------------------------------------
(* Raising the rights, switching the user, switching off.                  *)

Turn(w, state) == switch' = [switch EXCEPT ![w].state = state]
Returns(w) == switch' = [switch EXCEPT ![w] = [state |-> "done", user |-> None, slot |-> None]]

(* sftp_elevation_enable starts with a probe on the connection, unless     *)
(* there is no session, or it is local, or user or path are not valid.     *)
Enable(w) ==
    /\ switch[w].state = "idle"
    /\ \/ /\ alive
          /\ \E u \in Users : switch' = [switch EXCEPT ![w].state = "probe", ![w].user = u]
          /\ transport' = Append(transport, w)
       \/ Returns(w) /\ UNCHANGED transport
    /\ UNCHANGED <<alive, registered, slots, sftp, opened, cmd, end, over, closed>>

(* A probe leads on to the opening, which waits for the connection anew,   *)
(* or ends the call with its reason.  (The path of sftp-server, when it is *)
(* not known, has a probe of its own, which does the same.)                *)
Probe(w) ==
    /\ switch[w].state = "probe"
    /\ HasLock(transport, w)
    /\ \/ Turn(w, "open") /\ transport' = Append(Tail(transport), w)
       \/ Returns(w) /\ transport' = Tail(transport)
    /\ UNCHANGED <<alive, registered, slots, sftp, opened, cmd, end, over, closed>>

OpenViaExec(w) ==
    /\ switch[w].state = "open"
    /\ HasLock(transport, w)
    /\ transport' = Tail(transport)
    /\ Turn(w, "insert") \/ Returns(w)
    /\ UNCHANGED <<alive, registered, slots, sftp, opened, cmd, end, over, closed>>

(* insert_if_session_alive looks for the session, enters the slot and      *)
(* marks the one it displaces under the lock of the registry, which the    *)
(* removal of a slot needs too: one step.                                  *)

(* Mutant: the session is not looked for again.                            *)
InsertUnasked(w) ==
    /\ switch[w].state = "insert"
    /\ registered = None
    /\ registered' = Len(slots) + 1
    /\ slots' = Append(slots, [user |-> switch[w].user, revoked |-> FALSE,
                               present |-> TRUE, line |-> <<>>])
    /\ Returns(w)
    /\ UNCHANGED <<alive, transport, sftp, opened, cmd, end, over, closed>>

Insert(w) ==
    /\ switch[w].state = "insert"
    /\ \/ ~alive /\ Returns(w) /\ UNCHANGED <<registered, slots>>
       \/ /\ alive
          /\ registered' = Len(slots) + 1
          /\ LET others == IF registered = None THEN slots
                           ELSE [slots EXCEPT ![registered].revoked = TRUE,
                                              ![registered].line = Append(@, w)]
             IN  slots' = Append(others, [user |-> switch[w].user, revoked |-> FALSE,
                                          present |-> TRUE, line |-> <<>>])
          /\ IF registered = None
             THEN Returns(w)
             ELSE switch' = [switch EXCEPT ![w].state = "drain", ![w].slot = registered]
    /\ UNCHANGED <<alive, transport, sftp, opened, cmd, end, over, closed>>

(* sftp_elevation_disable looks for the session, then takes the slot and   *)
(* only then, without the lock of the registry, marks it.                  *)
Disable(w) ==
    /\ switch[w].state = "idle"
    /\ \/ alive /\ Turn(w, "take")
       \/ ~alive /\ Returns(w)
    /\ UNCHANGED <<alive, registered, slots, transport, sftp, opened, cmd, end, over, closed>>

Take(w) ==
    /\ switch[w].state = "take"
    /\ \/ registered = None /\ Returns(w)
       \/ /\ registered # None
          /\ switch' = [switch EXCEPT ![w].state = "mark", ![w].slot = registered]
    /\ registered' = None
    /\ UNCHANGED <<alive, slots, transport, sftp, opened, cmd, end, over, closed>>

MarkTaken(w) ==
    LET s == switch[w].slot IN
    /\ switch[w].state = "mark"
    /\ Turn(w, "drain")
    /\ slots' = [slots EXCEPT ![s].revoked = TRUE, ![s].line = Append(@, w)]
    /\ UNCHANGED <<alive, registered, transport, sftp, opened, cmd, end, over, closed>>

(* revoke: the channel value is taken out under the lock of the slot, after *)
(* the operation that runs.                                                *)
Drain(w) ==
    LET s == switch[w].slot IN
    /\ switch[w].state = "drain"
    /\ HasLock(slots[s].line, w)
    /\ slots' = [slots EXCEPT ![s].present = FALSE, ![s].line = Tail(@)]
    /\ Returns(w)
    /\ over' = over \cup {s}
    /\ closed' = closed \cup {s}
    /\ UNCHANGED <<alive, registered, transport, sftp, opened, cmd, end>>

SwitchNext(w) ==
    \/ Enable(w) \/ Probe(w) \/ OpenViaExec(w) \/ Insert(w)
    \/ Disable(w) \/ Take(w) \/ MarkTaken(w) \/ Drain(w)

-----------------------------------------------------------------------------
(* disconnect: first the session goes, then the slot, which is marked but  *)
(* not waited for; then the connection is closed under its lock.           *)

RemoveSession(d) ==
    /\ end[d].state = "idle"
    /\ end' = [end EXCEPT ![d].state = "unslot", ![d].found = alive]
    /\ alive' = FALSE
    /\ UNCHANGED <<registered, slots, transport, sftp, opened, cmd, switch, over, closed>>

(* Without a session the command ends here, with "Session nicht gefunden". *)
HangUp(d) ==
    /\ end' = [end EXCEPT ![d].state = IF end[d].found THEN "hangup" ELSE "done"]
    /\ transport' = IF end[d].found THEN Append(transport, d) ELSE transport

RemoveSlot(d) ==
    /\ end[d].state = "unslot"
    /\ registered' = None
    /\ \/ registered = None /\ HangUp(d)
       \/ /\ registered # None
          /\ end' = [end EXCEPT ![d].state = "mark", ![d].slot = registered]
          /\ UNCHANGED transport
    /\ UNCHANGED <<alive, slots, sftp, opened, cmd, switch, over, closed>>

(* Mutant: the running operation is waited for, as a switch does.          *)
MarkRemovedWaiting(d) ==
    /\ end[d].state = "mark"
    /\ slots[end[d].slot].line = <<>>
    /\ slots' = MarkRevoked(end[d].slot)
    /\ HangUp(d)
    /\ UNCHANGED <<alive, registered, sftp, opened, cmd, switch, over, closed>>

MarkRemoved(d) ==
    /\ end[d].state = "mark"
    /\ slots' = MarkRevoked(end[d].slot)
    /\ HangUp(d)
    /\ UNCHANGED <<alive, registered, sftp, opened, cmd, switch, over, closed>>

Disconnected(d) ==
    /\ end[d].state = "hangup"
    /\ HasLock(transport, d)
    /\ transport' = Tail(transport)
    /\ end' = [end EXCEPT ![d].state = "done"]
    /\ over' = IF end[d].slot = None THEN over ELSE over \cup {end[d].slot}
    /\ UNCHANGED <<alive, registered, slots, sftp, opened, cmd, switch, closed>>

EndNext(d) == RemoveSession(d) \/ RemoveSlot(d) \/ MarkRemoved(d) \/ Disconnected(d)

(* Every call has returned.                                                *)
Finished ==
    /\ \A c \in Commands : cmd[c].state = "done"
    /\ \A w \in Switches : switch[w].state = "done"
    /\ \A d \in Ends : end[d].state = "done"
    /\ UNCHANGED vars

Next ==
    \/ \E c \in Commands : CommandNext(c)
    \/ \E w \in Switches : SwitchNext(w)
    \/ \E d \in Ends : EndNext(d)
    \/ Finished

Spec == Init /\ [][Next]_vars

(* What has begun goes on, as far as this program decides: its own steps,  *)
(* and the probe and the opening with raised rights, which have a time     *)
(* limit.  The calls need not come.  The server need not end an SFTP       *)
(* operation, nor answer when the normal channel is opened or the          *)
(* connection closed: there the program waits without a limit.             *)
Fairness ==
    /\ \A c \in Commands :
        WF_vars(Resolve(c) \/ Ensure(c) \/ FirstAccess(c) \/ Admit(c)
                \/ Operate(c) \/ Begin(c) \/ Return(c))
    /\ \A w \in Switches :
        WF_vars(Probe(w) \/ OpenViaExec(w) \/ Insert(w) \/ Take(w) \/ MarkTaken(w) \/ Drain(w))
    /\ \A d \in Ends : WF_vars(RemoveSlot(d) \/ MarkRemoved(d))

FairSpec == Spec /\ Fairness

-----------------------------------------------------------------------------
(* The types of the variables.                                             *)
Slot == [user : Users, revoked : BOOLEAN, present : BOOLEAN, line : Seq(Callers)]

Command ==
    [state : {"idle", "resolve", "ensure", "opening", "normal", "start", "access",
              "between", "queued", "running", "done"},
     user : Users \cup {None}, slot : Nat \cup {None}, changes : BOOLEAN, ops : 0 .. MaxOps,
     refused : BOOLEAN, auditAs : Users \cup {None},
     result : {"ok", "error", "inactive", None}, audited : Users \cup {None},
     worked : BOOLEAN, stopped : BOOLEAN]

Switch ==
    [state : {"idle", "probe", "open", "insert", "take", "mark", "drain", "done"},
     user : Users \cup {None}, slot : Nat \cup {None}]

End == [state : {"idle", "unslot", "mark", "hangup", "done"}, found : BOOLEAN,
        slot : Nat \cup {None}]

TypeOK ==
    /\ alive \in BOOLEAN /\ opened \in BOOLEAN
    /\ slots \in Seq(Slot)
    /\ registered \in Made \cup {None}
    /\ transport \in Seq(Callers) /\ sftp \in Seq(Callers)
    /\ cmd \in [Commands -> Command]
    /\ switch \in [Switches -> Switch]
    /\ end \in [Ends -> End]
    /\ over \subseteq Made /\ closed \subseteq Made

(* When disconnect has returned, no channel with raised rights is left:    *)
(* none is registered, also not by an enable that was under way, and every *)
(* one ever made is revoked, but for the moment in which another call has  *)
(* taken it from the register and not marked it yet (spec 0084, A2).       *)
NoChannelSurvives ==
    (\E d \in Ends : end[d].state = "done" /\ end[d].found) =>
        /\ registered = None
        /\ \A s \in Made :
            \/ Revoked(s)
            \/ \E w \in Switches : switch[w].state = "mark" /\ switch[w].slot = s
            \/ \E d \in Ends : end[d].state = "mark" /\ end[d].slot = s

(* An operation begins only on a channel of the user the command was meant *)
(* for, and never once the call that switched it off, replaced it or       *)
(* disconnected the session has returned, however long the command has     *)
(* waited for the channel before; and when a switch has returned, none     *)
(* that began earlier still runs (spec 0084, section 9; spec 0085, A1.1).  *)
Begins(c) == cmd[c].state # "running" /\ cmd'[c].state = "running"

RightsEnd ==
    /\ []\A c \in Commands : cmd[c].state = "running" => cmd[c].slot \notin closed
    /\ [][\A c \in Commands : Begins(c) =>
            /\ cmd[c].slot \notin over
            /\ slots[cmd[c].slot].user = cmd[c].user]_vars

(* A command of which one access was refused does nothing further, and     *)
(* says so at its end, also when its body has taken the refusal for an     *)
(* answer or passed over it (spec 0085, A1.2).                             *)
RefusalIsTold ==
    \A c \in Commands : cmd[c].stopped =>
        /\ cmd[c].state # "running"
        /\ cmd[c].state = "done" => cmd[c].result = "inactive"

(* A changing command that has worked with raised rights leaves a line     *)
(* with the user whose rights it used, also when the channel was revoked   *)
(* half way (spec 0085, A1.4).                                             *)
ChangesAreAudited ==
    \A c \in Commands :
        cmd[c].state = "done" /\ cmd[c].changes /\ cmd[c].worked =>
            cmd[c].audited = slots[cmd[c].slot].user

(* The calls without a time limit that are made with the connection taken. *)
Unanswered ==
    \/ \E c \in Commands : cmd[c].state = "opening" /\ HasLock(transport, c)
    \/ \E d \in Ends : end[d].state = "hangup" /\ HasLock(transport, d)

(* Neither the end of a session nor the rest of a revoked recursion waits  *)
(* for a transfer that hangs, with raised rights or without (spec 0084,    *)
(* section 9; elevation.rs:331).  The rest of the recursion ends whatever  *)
(* the server does; the end of the session waits for the connection, and   *)
(* comes if no opening of the normal channel and no goodbye stays without  *)
(* an answer for good.                                                     *)
NothingWaitsForTransfer ==
    /\ \A c \in Commands :
        (cmd[c].state = "between" /\ cmd[c].changes /\ Revoked(cmd[c].slot))
            ~> cmd[c].state = "done"
    /\ []<>~Unanswered => \A d \in Ends : end[d].state = "unslot" ~> end[d].state = "done"
=============================================================================
