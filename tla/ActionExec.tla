----------------------------- MODULE ActionExec -----------------------------
(***************************************************************************)
(* What happens to an action the AI proposes: handle_action_proposed,      *)
(* handle_user_decision, execute_action and check_for_injected_-           *)
(* instructions (app-logic, orchestration/action_exec.rs).                 *)
(*                                                                         *)
(* The actions of the chat are handled one after the other; every call of  *)
(* an MCP client is handled by a task of its own, on the same session.     *)
(* They share the flags of the session, the one SSH connection, the SFTP   *)
(* channel and the stop request.  A confirmation is a question of          *)
(* Confirmation, which PendingConfirmation is shown to implement; every    *)
(* action asks under a key of its own.                                     *)
(***************************************************************************)
EXTENDS Naturals, Sequences, FiniteSets

CONSTANTS
    ChatActions,    \* actions proposed by the AI of the chat
    McpActions,     \* actions proposed by MCP clients
    Items,          \* what may be proposed, see ItemType
    Settings,       \* what a session may be configured with, see SettingType
    MaxLost,        \* bound: entries of an action that do not get into the ledger
    None            \* no action, no item, no decision

Actions == ChatActions \cup McpActions

(* An item is an action together with what the pure functions say of it:   *)
(* the filter engine (verdict), the paths that always need a confirmation  *)
(* (secret: secret_path_read_reason, sftp_server_invocation_reason), the   *)
(* risk classifier (modifying: server_risk # None; red: red_risk_confirm_- *)
(* reason) and detect_elevation_prefix (sudo, and whether it has a -S or   *)
(* -A of its own).  Notes are not put to the filter.                       *)
ItemType == [kind : {"command", "read", "write", "note"},
             verdict : {"auto", "confirm", "deny"},
             secret : BOOLEAN, modifying : BOOLEAN, red : BOOLEAN,
             sudo : {"none", "plain", "flagged"}]

SettingType == [policy : {"strict", "balanced", "standard"}, redAlways : BOOLEAN,
                sudoPassword : BOOLEAN, secondOpinion : BOOLEAN, injectionCheck : BOOLEAN]

Decisions == {"approve", "edit", "deny"}

(* An item as it was proposed, or rewritten to `sudo -S` to take the       *)
(* stored password on its standard input.                                  *)
Wordings == [item : Items, stdin : BOOLEAN]

As(i) == [item |-> i, stdin |-> FALSE]

ASSUME ActionAssumption ==
    /\ ChatActions \cap McpActions = {}
    /\ Items \subseteq ItemType
    /\ \A i \in Items : i.kind = "note" => i.verdict # "deny"
    /\ Settings \subseteq SettingType
    /\ None \notin Actions /\ None \notin Items /\ None \notin Decisions
    /\ None \notin Wordings
    /\ MaxLost \in Nat

VARIABLES
    setting,            \* the settings of the session, frozen by connect
    ingested, suspected,\* untrusted_content_ingested, injection_suspected
    stop,               \* auto_continue_stop
    rejected,           \* earlier_rejection of the chat's current response
    transport,          \* who holds the lock of the SSH connection
    sftpLock, sftpOpen, \* the lock of the SFTP channel, and whether it is open
    pc,                 \* where the handling of each action is
    item, work,         \* what was proposed, what is to be executed
    decision,           \* what the chain of escalations says so far
    raised,             \* the second opinion raised the data risk to red
    cancel,             \* the entry in running_command_cancellations
    question, accepted, outcome,    \* Confirmation, one question per action
    ran,                \* what was sent to the server
    trail, lost,        \* the entries the action has for the ledger, and the
                        \* numbers of those that were not written
    told,               \* what the history says of the action
    tainted, earlier,   \* history variables: there was content to be wary of,
                        \* and these actions of the same response had been
                        \* handled, when the action was proposed
    response            \* history variable: actions of the current response

confirmVars == <<question, accepted, outcome>>
flagVars == <<ingested, suspected, stop, rejected>>
lockVars == <<transport, sftpLock, sftpOpen>>
ledgerVars == <<trail, lost>>
historyVars == <<tainted, earlier, response>>
vars == <<setting, flagVars, lockVars, pc, item, work, decision, raised, cancel,
          confirmVars, ran, ledgerVars, told, historyVars>>

C == INSTANCE Confirmation WITH Questions <- Actions, NoDecision <- None,
        state <- question, result <- outcome

Places == {"new", "policy", "suspicion", "preview", "previewChannel", "previewOpening",
           "previewRead", "previewing", "opinion", "prepared", "waiting", "decided", "start",
           "lock", "running", "ended", "channel", "openChannel", "opening", "transfer",
           "transferring", "fallback", "privileged", "flag", "check", "done"}

Entry == [event : {"proposed", "auto", "confirmed", "rejected", "executed"},
          of : Wordings \cup {None}, by : {"user", "origin"}]

TypeOK ==
    /\ setting \in Settings
    /\ ingested \in BOOLEAN /\ suspected \in BOOLEAN /\ stop \in BOOLEAN /\ rejected \in BOOLEAN
    /\ transport \in Actions \cup {None}
    /\ sftpLock \in Actions \cup {None} /\ sftpOpen \in BOOLEAN
    /\ pc \in [Actions -> Places]
    /\ item \in [Actions -> Items \cup {None}] /\ work \in [Actions -> Items \cup {None}]
    /\ decision \in [Actions -> {"auto", "confirm", "deny"}]
    /\ raised \in [Actions -> BOOLEAN]
    /\ cancel \in [Actions -> {"none", "registered", "requested"}]
    /\ question \in [Actions -> {"unasked", "open", "closed"}]
    /\ accepted \in [Actions -> Decisions \cup {None}]
    /\ outcome \in [Actions -> Decisions \cup {None}]
    /\ ran \in [Actions -> Wordings \cup {None}]
    /\ trail \in [Actions -> Seq(Entry)] /\ lost \in [Actions -> SUBSET Nat]
    /\ told \in [Actions -> {"nothing", "result", "error", "rejected", "skipped"}]
    /\ tainted \in [Actions -> BOOLEAN]
    /\ earlier \in [Actions -> SUBSET ChatActions] /\ response \in SUBSET ChatActions

Init ==
    /\ setting \in Settings
    /\ ingested = FALSE /\ suspected = FALSE /\ stop = FALSE /\ rejected = FALSE
    /\ transport = None /\ sftpLock = None /\ sftpOpen = FALSE
    /\ pc = [a \in Actions |-> "new"]
    /\ item = [a \in Actions |-> None] /\ work = [a \in Actions |-> None]
    /\ decision = [a \in Actions |-> "deny"]
    /\ raised = [a \in Actions |-> FALSE]
    /\ cancel = [a \in Actions |-> "none"]
    /\ C!Init
    /\ ran = [a \in Actions |-> None]
    /\ trail = [a \in Actions |-> <<>>] /\ lost = [a \in Actions |-> {}]
    /\ told = [a \in Actions |-> "nothing"]
    /\ tainted = [a \in Actions |-> FALSE]
    /\ earlier = [a \in Actions |-> {}] /\ response = {}

Goto(a, from, to) == pc[a] = from /\ pc' = [pc EXCEPT ![a] = to]

Tell(a, what) == told' = [told EXCEPT ![a] = what]

(* write_ledger_entry: without a store or a chat session, and when the     *)
(* store fails, the entry is lost, and the action goes on.                 *)
Enter(a, entries) ==
    /\ trail' = [trail EXCEPT ![a] = @ \o entries]
    /\ \E missing \in SUBSET (Len(trail[a]) + 1 .. Len(trail[a]) + Len(entries)) :
          /\ Cardinality(lost[a] \cup missing) <= MaxLost
          /\ lost' = [lost EXCEPT ![a] = @ \cup missing]

(* Only commands are entered into the ledger.                              *)
Log(a, entries) ==
    IF item[a].kind = "command" THEN Enter(a, entries) ELSE UNCHANGED ledgerVars

(* An entry of a decision does not say what was decided on: `of` is None.  *)
By(event, wording, who) == <<[event |-> event, of |-> wording, by |-> who]>>

(***************************************************************************)
(* The decision                                                            *)
(***************************************************************************)

(* evaluate_action: notes are always confirmed, and so are writes unless   *)
(* the filter denies them.                                                 *)
Verdict(i) ==
    IF i.kind = "note" \/ (i.kind = "write" /\ i.verdict = "auto") THEN "confirm" ELSE i.verdict

Classified(i) == i.kind # "note"

UsesPassword(i) ==
    setting.sudoPassword /\ (i.kind = "write" \/ (i.kind = "command" /\ i.sudo # "none"))

(* command_with_stdin_password_flag                                        *)
Sent(i) ==
    [item |-> i, stdin |-> setting.sudoPassword /\ i.kind = "command" /\ i.sudo = "plain"]

(* Secret paths, sftp-server and, if so configured, a red risk.            *)
AlwaysConfirmed(i) == Classified(i) /\ (i.secret \/ (setting.redAlways /\ i.red))

(* PostIngestPolicy                                                        *)
ConfirmedAfterIngest(i) ==
    \/ setting.policy = "strict"
    \/ setting.policy = "balanced" /\ Classified(i) /\ i.modifying

(* Output of commands and files that the history holds.                    *)
Content == {b \in Actions : told[b] = "result" /\ item[b].kind \in {"command", "read"}}

(* The proposal is entered into the ledger and put to the filter engine.   *)
(* The chat handles one action at a time.  Content to be wary of is the    *)
(* chat's own, and that of others once they are through with flagging it.  *)
Propose(a) ==
    /\ a \in ChatActions => \A c \in ChatActions : pc[c] \in {"new", "done"}
    /\ Goto(a, "new", "policy")
    /\ \E i \in Items :
          /\ item' = [item EXCEPT ![a] = i]
          /\ work' = [work EXCEPT ![a] = i]
          /\ decision' = [decision EXCEPT ![a] = Verdict(i)]
          /\ IF i.kind = "command" THEN Enter(a, By("proposed", As(i), "origin"))
             ELSE UNCHANGED ledgerVars
    /\ tainted' = [tainted EXCEPT ![a] =
          \E b \in Content : pc[b] # "flag" \/ {a, b} \subseteq ChatActions]
    /\ earlier' = [earlier EXCEPT ![a] = IF a \in ChatActions THEN response ELSE {}]
    /\ response' = response \cup ({a} \cap ChatActions)
    /\ UNCHANGED <<setting, flagVars, lockVars, raised, cancel, confirmVars, ran, told>>

(* The escalations that come before the injection flag.                    *)
ApplyPolicy(a) ==
    /\ Goto(a, "policy", "suspicion")
    /\ decision' = [decision EXCEPT ![a] =
          IF /\ @ = "auto"
             /\ AlwaysConfirmed(item[a]) \/ (ingested /\ ConfirmedAfterIngest(item[a]))
          THEN "confirm" ELSE @]
    /\ UNCHANGED <<setting, flagVars, lockVars, item, work, raised, cancel, confirmVars, ran, ledgerVars,
                   told, historyVars>>

(* Mutant: the stored password is forgotten.                               *)
ConfirmedAnywayNoSudo(a) == a \in McpActions \/ (a \in ChatActions /\ rejected)

(* The escalations that come after the injection flag.                     *)
ConfirmedAnyway(a) ==
    \/ a \in McpActions
    \/ UsesPassword(item[a])
    \/ a \in ChatActions /\ rejected

(* The injection flag is swapped for FALSE by an action that is not        *)
(* escalated so far.  A confirmation is registered before anything is      *)
(* awaited, and before the proposal is shown.                              *)
TakeSuspicion(a) ==
    LET spent == decision[a] = "auto" /\ suspected
        final == IF decision[a] = "auto" /\ (suspected \/ ConfirmedAnyway(a))
                 THEN "confirm" ELSE decision[a]
    IN  /\ Goto(a, "suspicion", IF item[a].kind = "write" THEN "preview" ELSE "opinion")
        /\ decision' = [decision EXCEPT ![a] = final]
        /\ suspected' = (suspected /\ ~spent)
        /\ IF final = "confirm" THEN C!Ask(a) ELSE UNCHANGED confirmVars
        /\ UNCHANGED <<setting, ingested, stop, rejected, lockVars, item, work, raised, cancel, ran,
                       ledgerVars, told, tainted, earlier, response>>

-----------------------------------------------------------------------------
(***************************************************************************)
(* ensure_sftp_open and the SFTP channel.  Whoever opens it takes the lock *)
(* of the channel first and that of the SSH connection under it, and keeps *)
(* both until the server has answered.                                     *)
(***************************************************************************)
LockChannel(a) ==
    /\ sftpLock = None
    /\ \/ pc[a] = "preview" /\ pc' = [pc EXCEPT ![a] = IF sftpOpen THEN "previewRead" ELSE "previewChannel"]
       \/ pc[a] = "channel" /\ pc' = [pc EXCEPT ![a] = IF sftpOpen THEN "transfer" ELSE "openChannel"]
    /\ sftpLock' = IF sftpOpen THEN None ELSE a
    /\ UNCHANGED <<setting, flagVars, transport, sftpOpen, item, work, decision, raised, cancel,
                   confirmVars, ran, ledgerVars, told, historyVars>>

OpenChannel(a) ==
    /\ transport = None
    /\ Goto(a, "previewChannel", "previewOpening") \/ Goto(a, "openChannel", "opening")
    /\ transport' = a
    /\ UNCHANGED <<setting, flagVars, sftpLock, sftpOpen, item, work, decision, raised, cancel,
                   confirmVars, ran, ledgerVars, told, historyVars>>

ChannelOpened(a) ==
    /\ Goto(a, "previewOpening", "previewRead") \/ Goto(a, "opening", "transfer")
    /\ sftpOpen' = TRUE
    /\ transport' = None /\ sftpLock' = None
    /\ UNCHANGED <<setting, flagVars, item, work, decision, raised, cancel, confirmVars,
                   ran, ledgerVars, told, historyVars>>

(* Mutant: a failure leaves the lock of the channel behind.                *)
ChannelFailedLocked(a) ==
    /\ \/ Goto(a, "previewOpening", "opinion") /\ UNCHANGED told
       \/ Goto(a, "opening", "done") /\ Tell(a, "error")
    /\ transport' = None
    /\ UNCHANGED <<setting, flagVars, sftpLock, sftpOpen, item, work, decision, raised, cancel,
                   confirmVars, ran, ledgerVars, historyVars>>

ChannelFailed(a) ==
    /\ \/ Goto(a, "previewOpening", "opinion") /\ UNCHANGED told
       \/ Goto(a, "opening", "done") /\ Tell(a, "error")
    /\ transport' = None /\ sftpLock' = None
    /\ UNCHANGED <<setting, flagVars, sftpOpen, item, work, decision, raised, cancel, confirmVars,
                   ran, ledgerVars, historyVars>>

(* previous_file_content_for_action: the present content, for the dialog.  *)
ReadPreview(a) ==
    /\ sftpLock = None
    /\ Goto(a, "previewRead", "previewing")
    /\ sftpLock' = a
    /\ UNCHANGED <<setting, flagVars, transport, sftpOpen, item, work, decision, raised, cancel,
                   confirmVars, ran, ledgerVars, told, historyVars>>

PreviewRead(a) ==
    /\ Goto(a, "previewing", "opinion")
    /\ sftpLock' = None
    /\ UNCHANGED <<setting, flagVars, transport, sftpOpen, item, work, decision, raised, cancel,
                   confirmVars, ran, ledgerVars, told, historyVars>>

(* The proposal has been shown; a second model may raise the data risk.    *)
SecondOpinion(a) ==
    /\ Goto(a, "opinion", "prepared")
    /\ \E r \in (IF setting.secondOpinion /\ Classified(item[a]) THEN BOOLEAN ELSE {FALSE}) :
          raised' = [raised EXCEPT ![a] = r]
    /\ UNCHANGED <<setting, flagVars, lockVars, item, work, decision, cancel, confirmVars, ran, ledgerVars,
                   told, historyVars>>

-----------------------------------------------------------------------------
(***************************************************************************)
(* What follows from the decision                                          *)
(***************************************************************************)
Stopped(a) == a \in ChatActions /\ stop

RaisedToRed(a) == setting.redAlways /\ raised[a]

(* A red second opinion turns the automatic execution into a question,     *)
(* unless the chat was stopped in the meantime.                            *)
Escalate(a) ==
    /\ decision[a] = "auto"
    /\ RaisedToRed(a)
    /\ ~Stopped(a)
    /\ Goto(a, "prepared", "waiting")
    /\ decision' = [decision EXCEPT ![a] = "confirm"]
    /\ C!Ask(a)
    /\ UNCHANGED <<setting, flagVars, lockVars, item, work, raised, cancel, ran, ledgerVars, told, historyVars>>

(* skip_auto_exec_after_stop                                               *)
SkipAfterStop(a) ==
    /\ decision[a] = "auto"
    /\ Stopped(a)
    /\ Goto(a, "prepared", "done")
    /\ Tell(a, "skipped")
    /\ UNCHANGED <<setting, flagVars, lockVars, item, work, decision, raised, cancel, confirmVars, ran,
                   ledgerVars, historyVars>>

AutoExec(a) ==
    /\ decision[a] = "auto"
    /\ ~RaisedToRed(a)
    /\ ~Stopped(a)
    /\ Goto(a, "prepared", "start")
    /\ Log(a, By("auto", None, "origin"))
    /\ UNCHANGED <<setting, flagVars, lockVars, item, work, decision, raised, cancel, confirmVars, ran,
                   told, historyVars>>

(* A denied, refused or timed out action marks the rest of the response.   *)
MarkRejected(a) == rejected' = (rejected \/ a \in ChatActions)

Block(a) ==
    /\ decision[a] = "deny"
    /\ Goto(a, "prepared", "done")
    /\ MarkRejected(a)
    /\ Log(a, By("rejected", None, "origin"))
    /\ Tell(a, "rejected")
    /\ UNCHANGED <<setting, ingested, suspected, stop, lockVars, item, work, decision, raised, cancel,
                   confirmVars, ran, historyVars>>

StartWaiting(a) ==
    /\ decision[a] = "confirm"
    /\ Goto(a, "prepared", "waiting")
    /\ UNCHANGED <<setting, flagVars, lockVars, item, work, decision, raised, cancel, confirmVars, ran,
                   ledgerVars, told, historyVars>>

ReceiveDecision(a) ==
    /\ Goto(a, "waiting", "decided")
    /\ C!CloseDecided(a)
    /\ UNCHANGED <<setting, flagVars, lockVars, item, work, decision, raised, cancel, ran, ledgerVars, told,
                   historyVars>>

(* PENDING_ACTION_CONFIRM_TIMEOUT                                          *)
TimeOut(a) ==
    /\ Goto(a, "waiting", "decided")
    /\ C!CloseUndecided(a)
    /\ UNCHANGED <<setting, flagVars, lockVars, item, work, decision, raised, cancel, ran, ledgerVars, told,
                   historyVars>>

(* Nobody's answer counts as a refusal, but is not logged as the user's.   *)
Refuse(a) ==
    /\ outcome[a] \in {"deny", None}
    /\ Goto(a, "decided", "done")
    /\ MarkRejected(a)
    /\ Log(a, By("rejected", None, IF outcome[a] = None THEN "origin" ELSE "user"))
    /\ Tell(a, "rejected")
    /\ UNCHANGED <<setting, ingested, suspected, stop, lockVars, item, work, decision, raised, cancel,
                   confirmVars, ran, historyVars>>

(* Only commands can be edited; for the rest "edit" means "approve".       *)
Approve(a) ==
    /\ outcome[a] = "approve" \/ (outcome[a] = "edit" /\ item[a].kind # "command")
    /\ Goto(a, "decided", "start")
    /\ Log(a, By("confirmed", None, "user"))
    /\ UNCHANGED <<setting, flagVars, lockVars, item, work, decision, raised, cancel, confirmVars, ran,
                   told, historyVars>>

EditedItem(a, i) == outcome[a] = "edit" /\ item[a].kind = "command" /\ i.kind = "command"

(* Mutant: the edited text is not put to the filter.                       *)
ExecuteEditedUnchecked(a) ==
    \E i \in Items :
        /\ EditedItem(a, i)
        /\ Goto(a, "decided", "start")
        /\ work' = [work EXCEPT ![a] = i]
        /\ Log(a, By("proposed", As(i), "user") \o By("confirmed", None, "user"))
        /\ UNCHANGED <<setting, flagVars, lockVars, item, decision, raised, cancel, confirmVars, ran,
                       told, historyVars>>

(* The user's own text goes through the filter once more; only a denial    *)
(* overrules the user.                                                     *)
ExecuteEdited(a) ==
    \E i \in Items :
        /\ EditedItem(a, i)
        /\ i.verdict # "deny"
        /\ Goto(a, "decided", "start")
        /\ work' = [work EXCEPT ![a] = i]
        /\ Log(a, By("proposed", As(i), "user") \o By("confirmed", None, "user"))
        /\ UNCHANGED <<setting, flagVars, lockVars, item, decision, raised, cancel, confirmVars, ran,
                       told, historyVars>>

(* Mutant: the response goes on as if nothing had been rejected.           *)
BlockEditedUnmarked(a) ==
    \E i \in Items :
        /\ EditedItem(a, i)
        /\ i.verdict = "deny"
        /\ Goto(a, "decided", "done")
        /\ Log(a, By("proposed", As(i), "user") \o By("rejected", None, "origin"))
        /\ Tell(a, "rejected")
        /\ UNCHANGED <<setting, flagVars, lockVars, item, work, decision, raised,
                       cancel, confirmVars, ran, historyVars>>

BlockEdited(a) ==
    \E i \in Items :
        /\ EditedItem(a, i)
        /\ i.verdict = "deny"
        /\ Goto(a, "decided", "done")
        /\ MarkRejected(a)
        /\ Log(a, By("proposed", As(i), "user") \o By("rejected", None, "origin"))
        /\ Tell(a, "rejected")
        /\ UNCHANGED <<setting, ingested, suspected, stop, lockVars, item, work, decision, raised,
                       cancel, confirmVars, ran, historyVars>>

-----------------------------------------------------------------------------
(***************************************************************************)
(* execute_action                                                          *)
(***************************************************************************)

(* execute_note_update                                                     *)
UpdateNote(a) ==
    /\ Goto(a, "start", "done")
    /\ item[a].kind = "note"
    /\ \/ Tell(a, "result") /\ ran' = [ran EXCEPT ![a] = Sent(work[a])]
       \/ Tell(a, "error") /\ UNCHANGED ran
    /\ UNCHANGED <<setting, flagVars, lockVars, item, work, decision, raised, cancel, confirmVars,
                   ledgerVars, historyVars>>

StartTransfer(a) ==
    /\ Goto(a, "start", "channel")
    /\ item[a].kind \in {"read", "write"}
    /\ UNCHANGED <<setting, flagVars, lockVars, item, work, decision, raised, cancel, confirmVars, ran,
                   ledgerVars, told, historyVars>>

(* execute_read_remote_file and execute_write_remote_file, on the channel: *)
(* RemoteWrite has the steps of a write, which here takes its lock once.   *)
(* From now on it may have reached the server.                             *)
Transfer(a) ==
    /\ sftpLock = None
    /\ Goto(a, "transfer", "transferring")
    /\ sftpLock' = a
    /\ ran' = [ran EXCEPT ![a] = Sent(work[a])]
    /\ UNCHANGED <<setting, flagVars, transport, sftpOpen, item, work, decision, raised, cancel,
                   confirmVars, ledgerVars, told, historyVars>>

(* What was read is in the history before it is flagged.                   *)
Transferred(a) ==
    /\ Goto(a, "transferring", IF item[a].kind = "read" THEN "flag" ELSE "done")
    /\ sftpLock' = None
    /\ Tell(a, "result")
    /\ UNCHANGED <<setting, flagVars, transport, sftpOpen, item, work, decision, raised, cancel,
                   confirmVars, ran, ledgerVars, historyVars>>

TransferFailed(a) ==
    /\ Goto(a, "transferring", "done")
    /\ sftpLock' = None
    /\ Tell(a, "error")
    /\ UNCHANGED <<setting, flagVars, transport, sftpOpen, item, work, decision, raised, cancel,
                   confirmVars, ran, ledgerVars, historyVars>>

(* write_via_sudo_fallback, if the dialog has announced it: its commands   *)
(* need the connection, and nobody can cancel them.                        *)
TransferDenied(a) ==
    /\ Goto(a, "transferring", "fallback")
    /\ item[a].kind = "write"
    /\ UsesPassword(item[a])
    /\ sftpLock' = None
    /\ UNCHANGED <<setting, flagVars, transport, sftpOpen, item, work, decision, raised, cancel,
                   confirmVars, ran, ledgerVars, told, historyVars>>

RunPrivileged(a) ==
    /\ transport = None
    /\ Goto(a, "fallback", "privileged")
    /\ transport' = a
    /\ UNCHANGED <<setting, flagVars, sftpLock, sftpOpen, item, work, decision, raised, cancel,
                   confirmVars, ran, ledgerVars, told, historyVars>>

PrivilegedEnded(a) ==
    /\ Goto(a, "privileged", "done")
    /\ transport' = None
    /\ Tell(a, "result") \/ Tell(a, "error")
    /\ UNCHANGED <<setting, flagVars, sftpLock, sftpOpen, item, work, decision, raised, cancel,
                   confirmVars, ran, ledgerVars, historyVars>>

(* execute_suggested_command: it can be cancelled from now on.             *)
StartCommand(a) ==
    /\ Goto(a, "start", "lock")
    /\ item[a].kind = "command"
    /\ cancel' = [cancel EXCEPT ![a] = "registered"]
    /\ UNCHANGED <<setting, flagVars, lockVars, item, work, decision, raised, confirmVars, ran, ledgerVars,
                   told, historyVars>>

(* The command is sent before the cancellation is looked at.  The filter   *)
(* is not asked about what the stored password made of it.                 *)
RunCommand(a) ==
    /\ transport = None
    /\ Goto(a, "lock", "running")
    /\ transport' = a
    /\ ran' = [ran EXCEPT ![a] = Sent(work[a])]
    /\ UNCHANGED <<setting, flagVars, sftpLock, sftpOpen, item, work, decision, raised, cancel,
                   confirmVars, ledgerVars, told, historyVars>>

(* The connection is free again, and so is the entry.                      *)
EndCommand(a) ==
    /\ Goto(a, "running", "ended")
    /\ transport' = None
    /\ cancel' = [cancel EXCEPT ![a] = "none"]
    /\ UNCHANGED <<setting, flagVars, sftpLock, sftpOpen, item, work, decision, raised, confirmVars,
                   ran, ledgerVars, told, historyVars>>

(* Whose decision the entry of an execution names.                         *)
Executor(a) == IF outcome[a] = None THEN "origin" ELSE "user"

(* Mutant: the entry names the command as it was confirmed.                *)
ReportOutputConfirmed(a) ==
    /\ Goto(a, "ended", "flag")
    /\ Log(a, By("executed", As(work[a]), Executor(a)))
    /\ Tell(a, "result")
    /\ UNCHANGED <<setting, flagVars, lockVars, item, work, decision, raised, cancel, confirmVars,
                   ran, historyVars>>

(* Output, also that of a cancelled command, is untrusted content, and in  *)
(* the history before it is flagged; an error is told to the AI without.   *)
ReportOutput(a) ==
    /\ Goto(a, "ended", "flag")
    /\ Log(a, By("executed", Sent(work[a]), Executor(a)))
    /\ Tell(a, "result")
    /\ UNCHANGED <<setting, flagVars, lockVars, item, work, decision, raised, cancel, confirmVars,
                   ran, historyVars>>

ReportError(a) ==
    /\ Goto(a, "ended", "done")
    /\ Log(a, By("executed", Sent(work[a]), Executor(a)))
    /\ Tell(a, "error")
    /\ UNCHANGED <<setting, flagVars, lockVars, item, work, decision, raised, cancel, confirmVars, ran,
                   historyVars>>

(* Mutant: only the output of commands is flagged.                         *)
StoreFlagOfCommands(a) ==
    /\ Goto(a, "flag", "check")
    /\ ingested' = (ingested \/ item[a].kind = "command")
    /\ UNCHANGED <<setting, suspected, stop, rejected, lockVars, item, work, decision, raised, cancel,
                   confirmVars, ran, ledgerVars, told, historyVars>>

(* The store to untrusted_content_ingested.                                *)
StoreFlag(a) ==
    /\ Goto(a, "flag", "check")
    /\ ingested' = TRUE
    /\ UNCHANGED <<setting, suspected, stop, rejected, lockVars, item, work, decision, raised, cancel,
                   confirmVars, ran, ledgerVars, told, historyVars>>

(* check_for_injected_instructions: another model reads the new content.   *)
CheckInjection(a) ==
    /\ Goto(a, "check", "done")
    /\ \E yes \in (IF setting.injectionCheck THEN BOOLEAN ELSE {FALSE}) :
          suspected' = (suspected \/ yes)
    /\ UNCHANGED <<setting, ingested, stop, rejected, lockVars, item, work, decision, raised, cancel,
                   confirmVars, ran, ledgerVars, told, historyVars>>

-----------------------------------------------------------------------------
(***************************************************************************)
(* The user and the turn                                                   *)
(***************************************************************************)

(* respond_to_action                                                       *)
Answer(a, d) ==
    /\ C!Accept(a, d)
    /\ UNCHANGED <<setting, flagVars, lockVars, pc, item, work, decision, raised, cancel, ran, ledgerVars,
                   told, historyVars>>

(* cancel_running_command                                                  *)
CancelCommand(a) ==
    /\ cancel[a] = "registered"
    /\ cancel' = [cancel EXCEPT ![a] = "requested"]
    /\ UNCHANGED <<setting, flagVars, lockVars, pc, item, work, decision, raised, confirmVars, ran,
                   ledgerVars, told, historyVars>>

(* stop_auto_continuation                                                  *)
Stop ==
    /\ ~stop
    /\ stop' = TRUE
    /\ UNCHANGED <<setting, ingested, suspected, rejected, lockVars, pc, item, work, decision, raised,
                   cancel, confirmVars, ran, ledgerVars, told, historyVars>>

(* The next response of the chat's AI; after a stop, that of a new turn.   *)
NextResponse ==
    /\ rejected \/ stop \/ response # {}
    /\ \A c \in ChatActions : pc[c] \in {"new", "done"}
    /\ rejected' = FALSE
    /\ stop' = FALSE
    /\ response' = {}
    /\ UNCHANGED <<setting, ingested, suspected, lockVars, pc, item, work, decision, raised, cancel,
                   confirmVars, ran, ledgerVars, told, tainted, earlier>>

Channel(a) ==
    \/ LockChannel(a) \/ OpenChannel(a) \/ ChannelOpened(a) \/ ChannelFailed(a)
    \/ ReadPreview(a) \/ PreviewRead(a)

FollowUp(a) ==
    \/ SecondOpinion(a) \/ Escalate(a) \/ SkipAfterStop(a) \/ AutoExec(a) \/ Block(a)
    \/ StartWaiting(a) \/ Refuse(a) \/ Approve(a) \/ ExecuteEdited(a) \/ BlockEdited(a)

Wait(a) == ReceiveDecision(a) \/ TimeOut(a)

Execute(a) ==
    \/ UpdateNote(a) \/ StartTransfer(a) \/ Transfer(a) \/ Transferred(a) \/ TransferFailed(a)
    \/ TransferDenied(a) \/ RunPrivileged(a) \/ PrivilegedEnded(a)
    \/ StartCommand(a) \/ RunCommand(a) \/ EndCommand(a)

Report(a) == ReportOutput(a) \/ ReportError(a) \/ StoreFlag(a) \/ CheckInjection(a)

(* The task that handles a takes its next step.                            *)
Proceed(a) ==
    \/ ApplyPolicy(a) \/ TakeSuspicion(a)
    \/ Channel(a) \/ FollowUp(a) \/ Wait(a) \/ Execute(a) \/ Report(a)

Finished == (\A a \in Actions : pc[a] = "done") /\ UNCHANGED vars

Next ==
    \/ \E a \in Actions : Propose(a) \/ Proceed(a)
    \/ \E a \in Actions, d \in Decisions : Answer(a, d)
    \/ \E a \in Actions : CancelCommand(a)
    \/ Stop \/ NextResponse \/ Finished

Spec == Init /\ [][Next]_vars

(* The server, or the provider of another model, has not answered; nothing *)
(* limits how long that may take.                                          *)
Unanswered(a) ==
    \/ pc[a] \in {"previewOpening", "previewing", "opening", "transferring", "privileged"}
    \/ pc[a] = "opinion" /\ setting.secondOpinion /\ Classified(item[a])
    \/ pc[a] = "check" /\ setting.injectionCheck

(* The runtime schedules a task that waits for nobody's answer, a lock is  *)
(* given to one who waits for it, and a confirmation times out.            *)
FairSpec ==
    /\ Spec
    /\ \A a \in Actions : WF_vars(~Unanswered(a) /\ pc[a] # "running" /\ Proceed(a))

-----------------------------------------------------------------------------
Asked(a) == outcome[a] \in {"approve", "edit"}

Unasked(a) == ran[a] # None /\ ~Asked(a)

(* Nothing reaches the server without the user's word unless the filter    *)
(* allows exactly this, the chat asked for it, and neither its paths nor   *)
(* its risk, the second opinion's included, nor the stored password forbid *)
(* it.                                                                     *)
NothingRunsUnasked ==
    \A a \in Actions : Unasked(a) =>
        LET i == ran[a].item
        IN  /\ a \in ChatActions /\ i = item[a]
            /\ i.kind \in {"command", "read"} /\ i.verdict = "auto"
            /\ ~i.secret /\ ~UsesPassword(i)
            /\ setting.redAlways => ~i.red /\ ~raised[a]

(* What the filter denies does not run, whoever approves or wrote it.      *)
DeniedNeverRuns == \A a \in Actions : ran[a] # None => ran[a].item.verdict # "deny"

(* An action the chat proposes when content of the server is in its        *)
(* history does not run unasked where the policy forbids it, whichever of  *)
(* the concurrent actions brought the content in.  Not covered is content  *)
(* that a call of an MCP client has put there and not flagged yet.         *)
ContentIsNotTrusted ==
    \A a \in Actions : Unasked(a) /\ tainted[a] => ~ConfirmedAfterIngest(ran[a].item)

(* Once an action of a response was blocked, refused, timed out or edited  *)
(* into something blocked, no later action of it runs unasked.             *)
RejectionSticks ==
    \A a \in Actions : Unasked(a) => \A c \in earlier[a] : told[c] # "rejected"

Kept(a) == DOMAIN trail[a] \ lost[a]

DecisionEntries(a) == {k \in Kept(a) : trail[a][k].event \in {"auto", "confirmed", "rejected"}}

(* What the ledger has of a command is true, whatever is missing: an       *)
(* execution names exactly what was sent, `sudo -S` included and but for   *)
(* the secrets the redactor masks, and the user only if the user let it    *)
(* through; there is one decision at most, in the user's name only if the  *)
(* user answered, and nothing ran after a rejection.  If nothing is        *)
(* missing, a command that ran has its decision, right after the proposal  *)
(* of just this item; and in the end there is a decision, and an execution *)
(* if and only if it ran.                                                  *)
LedgerTellsTruth ==
    \A a \in Actions : item[a] # None /\ item[a].kind = "command" =>
        /\ \A k \in Kept(a) : trail[a][k].event = "executed" =>
              trail[a][k].of = ran[a] /\ (trail[a][k].by = "user" <=> Asked(a))
        /\ \A k \in DecisionEntries(a) :
              /\ DecisionEntries(a) = {k}
              /\ trail[a][k].by = "user" => outcome[a] # None
              /\ trail[a][k].event = "rejected" => ran[a] = None
        /\ ran[a] # None /\ lost[a] = {} =>
              \E k \in DecisionEntries(a) :
                  /\ k > 1 /\ trail[a][k - 1].of = As(ran[a].item)
                  /\ trail[a][k].by = "user" <=> Asked(a)
        /\ pc[a] = "done" /\ told[a] # "skipped" /\ lost[a] = {} =>
              /\ DecisionEntries(a) # {}
              /\ ran[a] # None <=> \E k \in Kept(a) : trail[a][k].event = "executed"

(* What the program has no limit for: servers and providers answer, a      *)
(* command that does not end is cancelled, and one that is cancelled ends. *)
OthersAnswer == \A a \in Actions : []<>~Unanswered(a)
HungAreCancelled == \A a \in Actions : []<>(pc[a] # "running" \/ cancel[a] = "requested")
CancelledEnd == \A a \in Actions : []<>(pc[a] # "running" \/ cancel[a] # "requested")

(* As long as that is so, every proposed action comes to an end, and the   *)
(* AI is told of it, although nobody may answer the question, and the      *)
(* locks of channel and connection are taken one under the other.          *)
EveryActionEnds ==
    OthersAnswer /\ HungAreCancelled /\ CancelledEnd =>
        \A a \in Actions : pc[a] = "policy" ~> pc[a] = "done" /\ told[a] # "nothing"
=============================================================================
