# Smart SSH: specifications, model checking and proofs

Smart SSH is an SSH client with a chat: an AI model proposes commands, file
accesses and notes for the server the session is connected to, and the program
decides which of them run at once, which need the user's confirmation and which
are blocked. The same actions can be requested by external programs through an
MCP server. The program is written in Rust (crates under `src/crates/`) with a
Tauri frontend in TypeScript (`src/apps/smart-ssh-community/frontend/`).

This directory holds TLA+ models of the parts in which the program's promises to
its users are kept or broken, the TLC configurations that check them, and TLAPS
proofs. Every definition that models code is translated from the source;
`PROJECT.json` names the lines of each.

Contents

1. Inventory of the system
2. The modules and how they correspond to the code
3. Properties and runs
4. Bounds
5. Fairness
6. Proofs
7. Where code and documents disagree
8. What is abstracted, and what is not modelled
9. Plan
10. How to run

## 1. Inventory of the system

### 1.1 How the parts interact

```
 user interface (React)                         external MCP clients
   |  commands        ^ events                         |
   v                  |                                v
 app-shell: Tauri commands, MCP backend  <---  mcp-server: tools, token
   |
   v
 app-logic: sessions, chat turn, action gate, confirmations, remote files,
   |        host key store, database start, servers and credentials
   |
   +--> ai-providers: requests, streams, rate limits, retries
   +--> ssh-transport: connections, commands, SFTP, local shell
   +--> persistence-sqlite: stores, encryption    +--> credentials-keyring
   +--> core: filter engine, risk, redaction, ssh_config, types
```

Everything runs on one tokio runtime with several worker threads. Every command
of the frontend and every MCP call is a task of its own. State shared between
tasks lies in `Mutex`es, atomics, `Notify` and oneshot channels; many functions
read a value, await something and use the value afterwards. That is where most
hazards listed in `PROJECT.json` come from.

### 1.2 Components that are modelled

| component | state it keeps | operations | what makes it correct |
|---|---|---|---|
| **confirmation registry and waiting** (`confirmation.rs`, `pending_confirmation.rs`) | map key -> (generation, oneshot sender), generation counter, the session's `pending_action` indicator | `register_tracked`, `resolve`, `cancel_if_current`, `wait_for_decision`, the drop of the guard | an open question can be answered until it is closed; one answer counts; a clean-up removes only its own entry; every wait ends within its hour |
| **chat turn** (`commands/chat.rs`, `chat_turn.rs`, `session.rs`) | `ChatTurnState` (running, queue), `auto_continue_stop` with its `Notify`, history of the context, locals of each call | `send_chat_message`, rounds of `run_chat_turn`, follow-up turns, `request_auto_continue_stop`, dropped futures | one turn at a time; no text lost, doubled or reordered; a stop ends the turn, also with a silent provider |
| **action gate and execution** (`action_exec.rs`) | flags `untrusted_content_ingested`, `injection_suspected`, `earlier_rejection`; locks of the connection and the SFTP channel; `running_command_cancellations`; ledger | `handle_action_proposed`, `handle_user_decision`, `execute_action`, injection check | what is denied never runs; nothing runs unasked that may not; a rejection holds for its response; what the ledger has is true, and complete when no entry was lost; content of the server makes the policy stricter from the moment the chat knows it |
| **remote file write** (`remote_files.rs`) | the file, its backups, temporary files; the channel's lock | stat, read, backup, overwrite; the same with sudo | the original survives in a backup; root is used only where announced and needed; success means written |
| **host key trust** (`host_key_store.rs`, `connect.rs` of ssh-transport and app-shell, `ServerList.tsx`) | keys in memory and in `host_keys.json`, pending dialogs, the one dialog of the server list | dial hop by hop, ask, answer, `trust` with its atomic write, connection test | only keys a user saw and trusted count; a confirmed trust survives crashes; every wait ends |
| **database start** (`database_startup.rs`, `encryption.rs`, `store.rs`, `crypto/key.rs`) | database, write-ahead log, intermediate copy, files set aside, root key in the keychain | decision table, dialogs, starting over, key generation, conversion, opening | no row is lost wherever the start breaks off; no log lies beside a foreign database; a usable key is never overwritten |
| **filter engine, risk classification** (`core/filter`, `core/risk`, `policy_store.rs`) | rules of the policy store, hard blacklist | taking a command apart into segments and nested commands, unwrapping wrappers, matching, precedence, merging; create, edit, delete of rules | a Deny rule reaches the program wherever the parser takes a command apart; nothing runs unasked that no rule allowed; the classifier sees what the filter sees |
| **server profiles and credentials, import of an ssh_config** (`servers.rs`, `server_credentials.rs`, `identity_file.rs`, `ssh_config_apply.rs`, `store.rs`) | row in SQLite, entries in the keychain, note history | edit, conversion, deletion, saving notes, applying an import; rollback of each | a server keeps a login it can use, no secret is orphaned, an import happens whole or not at all, whatever operation fails and wherever the program ends |
| **elevated SFTP channel, file browser, end of a session** (`elevated_sftp.rs`, `elevation.rs`, `sftp.rs`, `disconnect` in `chat.rs`) | register of channels, each with its lock, mark and owner; session manager; locks of the connection and of the normal channel | the way of every `sftp_*` command, enable, switch of user, disable, disconnect | raised rights end with the switch and with the session; a command that lost them says so; what it changed is in the audit; nothing waits for a transfer that hangs |

### 1.3 Components that are not modelled yet, or not at all

| component | state and operations | hard behaviour | status |
|---|---|---|---|
| second opinion | budget and prompt; one request per action | times out, comes late | its answer is a choice in `ActionExec` |
| redaction and fencing | none; regular expressions | text only | not modelled: a model would repeat the expressions |
| terminal actor, tasks after a disconnect | the PTY's task, session title, note suggestions | the dialog of a suggestion is announced before its wait is registered (`notes.rs` 664, 1088) | not modelled yet |
| edit sessions of the SFTP panel | local copies, watched | a copy opened while the session ends | not modelled yet |
| parsing, planning and export of ssh_config | none; functions on texts | quoting | the application of a plan is in `ServerProfiles` |
| rate limits, budget, retries | window of requests, reservations | waiting and retrying tasks | not modelled yet |
| context compaction | history | pairs of call and result kept together | not modelled yet |
| MCP server and backend | running server, token, settings | start, stop, restart with changing settings | calls are actors of `ActionExec` and `HostKeys`; the server not yet |
| AI providers | wire formats, assembly of streamed answers | deltas in pieces | outcomes are choices in `ChatTurn` |
| SSH transport | russh handles, PTY, local shell | output limits, killing a local command | its lock and outcomes are in `ActionExec` and `ElevatedSftp`, connecting in `HostKeys` |
| stores on SQLite, chat retention, keychain | rows, entries | single statements | opening is in `DatabaseStart`, rows and entries of servers in `ServerProfiles`, rules in `FilterEngine` |
| encryption of contents, types, logging, DTOs, user interface | - | - | no state of their own, or presentation only |

### 1.4 Hazards

`PROJECT.json` lists forty hazards, each at its line, with the properties that
would catch it going wrong or the reason why there is none. The groups:

* *interleavings*: resolve against time-out, abort and re-registration; two
  messages at once; a stop between reading the flag and going to sleep; MCP
  calls beside the chat's own actions; two dialogs for one host; a disconnect
  while a channel with raised rights is being opened.
* *state read before an await and used after it*: mode and existence of a remote
  file, kind of a host key, the notes of a server, the channel a command found
  at its start.
* *partial failure and crashes*: torn files, broken transfers, renames of a
  database and its log, half a copy, futures dropped half way, keychain and
  database changed one after the other, an import that breaks off.
* *order*: the history is written before the flag that guards it, entries of the
  ledger before and after what they report, each of which may fail.
* *boundaries*: the depth to which filter and classifier take a command apart, and
  the length up to which they look at it.
* *endings*: a silent provider, a wait nobody answers, locks taken one under
  another, a transfer that hangs.

## 2. The modules and how they correspond to the code

| module | models | state | actions |
|---|---|---|---|
| `Confirmation` | nothing in the code: the promise to the user | each question's state, accepted answer, result | `Ask`, `Accept`, `CloseDecided`, `CloseUndecided` |
| `ConfirmationRegistry` | `confirmation.rs` | `pending`, `nextGeneration`, and per wait its generation and channel; per `resolve` call its progress | one per atomic step: `DrawGeneration`, `InsertEntry`, `TakeSender`, `SendAnswer`, `CancelIfCurrent`, ... |
| `PendingConfirmation` | `pending_confirmation.rs` on top of the registry | `pc` of each wait, its outcome, the indicator | registering, waiting with tokio's poll order (value before timer), time-out, abort, the three steps of the guard's drop |
| `ChatTurn` | `send_chat_message_impl`, `run_chat_turn`, `run_one_round`, the stop | `running`, `queued`, `stop`, `history`, locals of each call in `frame` | `Enqueue`/`BeginTurn` under the lock; rounds; the biased `select!` split into `Arm`, `CheckClear`/`CheckStopped`, `PassStop`, `Wake`; `StoreStop` and `NotifyWaiters` as the two steps of the stop; `DropOwner` |
| `ActionExec` | `handle_action_proposed`, `handle_user_decision`, `execute_action` and what they call | session flags, locks, per action its place, item, decision, question, what was sent, its entries for the ledger and which of them were lost | the escalations in three steps (`Propose`, `ApplyPolicy`, `TakeSuspicion`), previews on the SFTP channel, second opinion, waiting, refusal, approval, edit, execution under the locks (a request and the server's answer are two steps), reports into the history, then `StoreFlag`, then the injection check |
| `RemoteWrite` | `execute_write_remote_file`, `write_via_sftp_with_backup`, `write_via_sudo_fallback` | file, backups by second, temporary files, rights, lock of the channel | one per operation on the server, each with its failure; `Tick` |
| `HostKeys` | `HostKeyStore`, hop check, `connect_session`, connection test, the server list's dialog | keys in memory, in the file, in the temporary file; place, path and dialog of each attempt | `Dial`, `PassHop`, `StopAtHop`, `Ask`, `Click`, `Deliver`, `TimeOut`, `Trust`, `WriteTemp`, `Rename`, `Reload`, `Crash`, ... |
| `DatabaseStart` | `database_startup.rs`, `encryption.rs`, `store.rs`, `crypto/key.rs` | database, log, copy, files set aside, keychain entry, memory of the running program | one per access to disk or keychain, each with its failure; opening may fail in any way although the key fits; `Crash` anywhere; the keychain coming and going |
| `StoredData` | nothing in the code: the promise about stored data | database with its log, rows set aside, root key | `NewKey`, `Create`, `Encrypt`, `Commit`, `SetAside` |
| `FilterEngine` | `engine.rs`, `parser.rs`, `pattern.rs`, `blacklist.rs`, `policy_store.rs`, `classifier.rs` | the stored rules, the last evaluation | the evaluation as functions of the depth on commands already parsed (`DecisionsAt`, `TextsAt`); each word before a program with the form it is written in, which decides whether the parser removes it (`Resolved`); code for a shell where the parser finds it (`Code`) and what it passes over (`beside`, `handed`); texts short, wide (more bytes than characters) and long; `CreateRule`, `UpdateRule`, `DeleteRule`; `ProposeCommand`, with the rules or without when they cannot be read, and `Done` when the caller has acted on the decision |
| `ServerProfiles` | `servers.rs`, `server_credentials.rs`, `identity_file.rs`, `ssh_config_apply.rs`, `store.rs` | rows, keychain slots, note history, progress and snapshot of each call | one per access to keychain or database, each with its failure; `Crash` anywhere; saving notes |
| `ElevatedSftp` | `elevated_sftp.rs`, `elevation.rs`, the commands of `sftp.rs`, `disconnect` | the session, the register, every slot ever made with its line of waiters, the lines for connection and normal channel, place and record of each call | one per step between two awaits: `Request`, `Resolve`, `FirstAccess`, `Admit`, `Operate`, `Begin`, `Finish`, ...; `Enable`, `Probe`, `Insert`, `Take`, `Drain`, ...; `RemoveSession`, `RemoveSlot`, `MarkRemoved`, `Disconnected` |

`MC...` modules give the constants values; `..._proofs` modules hold the proofs.

`PendingConfirmation` extends `ConfirmationRegistry` and is shown to implement
`Confirmation`. `ActionExec` and `HostKeys` use that result: the former instantiates
`Confirmation` for its questions instead of the registry, the latter takes the
same promise for the answers to its dialogs. `RemoteWrite` is the detail of what
`ActionExec` does between `Transfer` and the end of a write. `ChatTurn`'s `ActionHandled` stands for
everything `ActionExec` does with one action. `FilterEngine` computes what is an
attribute of `ActionExec`'s items, the verdict. `DatabaseStart` is shown to implement
`StoredData`, in which a conversion and a starting over are single steps. `ServerProfiles` and
`ElevatedSftp` stand by themselves: the chat shares the connection's lock with the
file browser, but neither reads the other's state.

### 2.1 Where atomicity was cut

A step of a model is what the code does between two points at which another task
can interfere: an `await`, an unlock, an access to an atomic, a file operation.
Examples worth knowing when reading the modules:

* `resolve` removes the sender under the lock and sends after unlocking it;
  between the two the wait can time out or be replaced. A send into a channel
  whose receiver is gone reports failure to the caller.
* `register_tracked` draws the generation before it takes the lock.
* `request_auto_continue_stop` stores the flag, then wakes the `Notified` futures
  that exist at this moment. The turn creates its future *before* it reads
  the flag (`Arm` before `CheckClear`); that order is what `StopEndsTurn` tests.
* The SFTP channel is opened under its own lock, waiting for the lock of the
  connection meanwhile; both are kept until the server has answered, or for ever.
* Output and files are pushed to the history under its lock; the flag that content
  was ingested is stored afterwards. Between the two another action can be decided
  on, which is why `ActionExec` has the place "flag".
* `sudo x` becomes `sudo -S x` after the last check, when the server has a stored
  password: what was proposed, what was confirmed and what is sent are told apart
  (`Wordings`), and the entry of the execution names what is sent.
* Reading the old content and writing the backup happen under one lock of the
  channel, the overwriting under another.
* tokio's mutexes are fair: in `ElevatedSftp` a lock is the line of those who asked
  for it, and its first member holds it. A revocation takes its place in that
  line, behind the operation that runs.
* Registering a channel looks for the session, enters the slot and marks the one
  it displaces under the lock of the register: one step. Disabling takes the slot
  out under that lock and marks it after the unlock: two steps.
* `Trust` changes the map and writes the file while the mutex of the store is
  held; the program can end between writing the temporary file and renaming it.

### 2.2 History variables

Some variables record what no code keeps, because a property speaks of the past:
`arrived`, `lost`, `stopped` (`ChatTurn`); `tainted` (what the history held, not what
the flag said), `earlier`, `response` (`ActionExec`); `used`, `rooted`, `last` (`RemoteWrite`); `approved`, `durable`
(`HostKeys`); `saved` (`DatabaseStart`); `trace` (`FilterEngine`); `faulty`
(`ServerProfiles`); `over`, `closed` and the fields `worked`, `stopped` of a
command's record (`ElevatedSftp`). No guard reads them, except that `response` lets
`NextResponse` happen only when there is something to reset, and that in
`FilterEngine` one evaluation is under way at a time. `ActionExec`'s ledger is kept as
`trail`, the entries an action has written or tried to write, and `lost`, the numbers
of those the store does not have.

## 3. Properties and runs

One run per question. "Distinct" is the number of distinct states TLC finds.

| run | instance | distinct | what it shows |
|---|---|---|---|
| `pending` | two waits under one key, two answers, two decisions | 62 508 | `EveryWaitReachable`: from its insertion an open question has its sender in the map or in the hands of one `resolve`. `NoOrphanIndicator`: no indicator points at a wait that is over. `LateAnswerRejected`: an answer after the wait has returned is not reported as a success. `ImplementsConfirmation`: refinement of `Confirmation`. `EveryWaitEnds` |
| `chat_turn` | three messages, one stop, two rounds, owners may be dropped | 182 220 | `OneTurn`, `OrderKept`, `NothingDoubled`, `InjectedGetSeen` (a text injected into a later round is not left unanswered), `NoSendAfterStop` (after a returned stop no poll gets past the stop branch), `StopEndsTurn`, also when the provider never sends another event; `QueuedGetsSent` under the hypothesis that streams end |
| `action_chat` | two actions of the chat, of one response or of two; four items, two settings, one ledger entry of each action may be lost | 3 685 670 | `DeniedNeverRuns`. `LedgerTellsTruth`: what the ledger has is true whichever entry is missing, and complete when none is. `RejectionSticks` |
| `action_mcp` | one action of the chat beside one MCP call; commands, reads, writes and notes, with a stored password | 550 714 | `NothingRunsUnasked`. `ContentIsNotTrusted`: what is in the history when the chat proposes is held against it, though the flag is stored later. `EveryActionEnds`, although no user answers and locks are nested, under the hypotheses of section 5 |
| `remote_write` | two writes of one path, three seconds, every combination of rights | 206 545 | `OriginalSurvives`, `SuccessMeansWritten` |
| `host_keys` | a connection through a jump host, one of an MCP client, one connection test; three keys, one crash | 1 111 716 | `OnlyApprovedKeys`, `ConnectedThroughApproved`, `TrustSurvives`, `EveryWaitForKeyEnds` |
| `database_start` | two rows, three keys, four starts | 103 282 | `NothingLost`, `NoForeignWal`. `ImplementsStoredData`: refinement of `StoredData`, so that a conversion happens as a whole or not at all, no plaintext database is set aside, and no new root key replaces one. Whether a database that is set aside could have been opened is not promised (section 7) |
| `filter` | every way of writing, wrapping, chaining and nesting one program up to one level too deep, against up to two of ten rules | 81 742 | `DenyReaches`: a program a Deny rule names is denied in every link, every substitution and code at the start, behind what the parser can remove; the comment of the property lists what is out of its reach. `AutoIsEarned`: what runs unasked was allowed word for word, segment by segment; what an allowed program is handed to run is not looked at. `AllowLiftsOnlyDefault`: an added Allow rule lifts the question "no rule matched" and no other. `RiskSeesWhatFilterSees`, for texts within the classifier's own limit |
| `server_profiles` | two edits or conversions, a deletion, a note and an import of two servers, any three of them | 658 970 | `LoginKept`, `NothingOrphaned`, `ImportAllOrNothing`, `DeleteTells` |
| `sessions` | two commands of the file browser with up to two operations, two calls that raise, switch or end its rights, one disconnect | 474 231 | `NoChannelSurvives`, `RightsEnd`, `RefusalIsTold`, `ChangesAreAudited`, `NothingWaitsForTransfer` |
| `host_key_replaced`, `server_notes_lost` | see section 7 | - | each violates one statement of a document or comment |

The type invariants are proved (section 6) for every instance and not checked again.
Each property has a
*mutant* in its module: a definition of the same name's code with a plausible
error (a dropped guard, a missing reset, a swapped order), marked with the comment
"Mutant:". With the mutant in place of the definition TLC finds the property
violated under the same configuration; the specifications themselves never use
the mutants.

## 4. Bounds

| bound | why it is enough |
|---|---|
| two waits, two calls (`pending`) | every property relates at most one wait, another one under the same key, and the call that answers; the proofs cover any number |
| three messages (`chat_turn`) | an owner, one text injected into a later round, one carried into a follow-up turn or queued in the last moment; they enter in one order, since they are interchangeable until they enter |
| one stop | arrives at every point of the turn and of its follow-up turn; the proof of `NoSendAfterStop` covers any number |
| `MaxRounds = 2` | a first round, a later one with injection, and the last one which is not followed by another |
| two actions (`ActionExec`) | an earlier and a later one of one response; one of the chat and one of MCP competing for each lock |
| the items of `MCActionExec` | one for each way through the gate: allowed, denied, red, with sudo (which the stored password rewrites), and each kind of action; secret paths take the way of a red item, and the proof covers them |
| `MaxLost` | one lost entry of each action in `action_chat`: any of its entries, proposal, decision or execution; none in `action_mcp`, which has no property of the ledger. The proof covers any number |
| two writes, three seconds | two writes sharing a second or not, the fallback in the same or a later second |
| three keys (`HostKeys`) | the old and the new key of one host, one of another host; a fourth with another algorithm in the violated run |
| one crash | the store keeps nothing in memory that a second crash could add to; the proofs cover any number |
| four starts, three keys (`DatabaseStart`) | a key found and two generated, or two found and one generated; conversion, starting over and opening each broken off and taken up again |
| `MaxDepth = 2`, `MaxRules = 2` (`FilterEngine`) | the limit of the code is larger and only counted down: commands reach one level beyond it; the proofs cover any limit and any number of rules. Two rules are one that decides and one that competes with it by action, path or scope |
| three sizes of text (`FilterEngine`) | within both limits, beyond the classifier's in bytes only, beyond the filter's in characters; a text beyond the latter is beyond the former too |
| `MaxNesting = 5` (`FilterEngine`) | more levels than any of the commands has, so that `Executed` gives all that a shell would run; the proofs cover any number |
| `ThreeCalls` (`ServerProfiles`) | an edit with two others; each property relates at most two calls and the program's end |
| two commands, two switches, one disconnect (`ElevatedSftp`) | a command that works and one that waits behind it; a switch that opens and one that closes or displaces; the proofs cover any number of each. Calls of a kind begin in one order (`BeginInOrder`): until they begin they are interchangeable |
| `MaxOps = 2` | an operation after which the rights go, and one that must not happen |

Symmetry is used for writes, saves and keys where only safety is checked, and
nowhere where liveness is.

## 5. Fairness

Fairness is assumed of the runtime and of clocks, never of users, providers or
servers, except where a property names it as its hypothesis.

* `PendingConfirmation`: a wait that has something to return returns (the one-hour
  timer elapses), the guard's drop and the second half of `resolve` are synchronous
  code. Nobody has to answer, no future has to be dropped.
* `ChatTurn`: a call that can go on is scheduled; an event that was received is
  handled; an action is decided within its hour (see `EveryWaitEnds` and
  `EveryActionEnds`); the second step of a stop follows the first. The provider may
  be silent for ever. `QueuedGetsSent` has `StreamsEnd` as a hypothesis, since no
  code bounds a stream in time.
* `ActionExec`: a task that waits for nobody's answer goes on; tokio's mutexes give a
  free lock to one who waits for it; a confirmation times out. Nothing else: neither
  the answers of the server (opening the SFTP channel, transfers, previews, the
  commands of the sudo fallback) nor those of another model, nor the end of a
  command. The code limits none of these in time: `open_sftp` (transport.rs:232-246)
  has no time limit although it runs under both locks, no keepalive is set
  (connect.rs:105-108), and a command runs until it ends or is cancelled. So one
  action that gets no answer may block all others for ever, and `EveryActionEnds`
  says what is left to the program: *if* servers and providers always answer some time
  (`OthersAnswer`), a command that does not end is cancelled (`HungAreCancelled`) and
  a cancelled one ends (`CancelledEnd`), *then* every proposed action ends and the AI is
  told of it, whether or not a user answers, and whoever competes for the locks.
* `HostKeys`: the time limit of the wait for an answer, nothing else.
* `ElevatedSftp`: a call that has begun goes on as far as the program moves it. Fair are
  also the probes and the opening of a channel by `exec`, for which the code has time
  limits (elevated_sftp.rs:374, transport.rs:247-262). Opening the normal channel
  (`OpenSftp`) and hanging up (`Disconnected`) have none: for them nothing is assumed,
  and `NothingWaitsForTransfer` has as its hypothesis that the connection is not
  for ever in the hands of one of these two (`Unanswered`). Calls need not come, and no
  SFTP operation need ever end: it is the server that answers it.
* `RemoteWrite`, `DatabaseStart`, `FilterEngine`, `ServerProfiles`: no fairness, safety
  only.

## 6. Proofs

The theorems hold for every value of the constants that satisfies the named
assumption of the module (`RegistryAssumption`, `TurnAssumption`, `ActionAssumption`,
`WriteAssumption`, `HostKeyAssumption`, `DatabaseAssumption`,
`ElevationAssumption`, `ProfilesAssumption`, `FilterAssumption`): types of constants,
special values that are not members of the sets they complement, calls of different
kinds that are different calls, in
`FilterEngine`, that what is inside a command is a command again and that no rule is
written for the word that stands for a disguised program, in `ActionExec`, that notes, which are not put to the filter, are not denied by it, and
in `ServerProfiles`, that a plan creates at least one server, each once, and jump
hosts before those that need them, as `order_entries` arranges them.

Each proof follows the same line: an inductive invariant `IInv`, `Init => IInv`,
one lemma or step per action with one leaf per part of `IInv` the action can
disturb, `Spec => []IInv` by temporal reasoning, and the theorems from `IInv`.

| module | theorems | the inductive invariant and why it is needed |
|---|---|---|
| `PendingConfirmation_proofs` | `TypeCorrect`, `WaitsReachable`, `OneAccepted`, `DecisionsAccepted`, `NothingLeftBehind`, `CleanupSafe`, `IndicatorHasWait`, `LateAnswers`, `WaitsComeCloser`, `Refinement` | a sender is in exactly one place: in the map under its own key and generation (`EntryInv`), in the hands of one call (`HoldingInv`), or used up by one (`AcceptedInv`). Generations are unique (`GenerationInv`), without which `cancel_if_current` could hit a stranger. `ChanInv`, `ValueInv`, `OutcomeInv` tie the state of a channel to the place of its wait, which the refinement mapping reads. A late answer finds the channel of a wait that has returned closed (`ReturnedInv`), that the indicator points at a wait still to be cleaned up is inductive with the types. `Left` counts what a wait has left to do by its place; `OnlyForward` shows that every step lowers it for at most one wait |
| `ChatTurn_proofs` | `TypeCorrect`, `OneTurnAtATime`, `StopIsRespected`, `TextsKeepTheirOrder`, `TextsNeverDoubled`, `InjectedSeen`, `StopWakesWaiter`, `QueuedHasOwner` | `OneTurn` is inductive with the types. The stop needs `StopInv`: after a returned stop every owner between `Arm` and the poll has been woken or has yet to read the flag. The order needs that arrived texts are history, the owner's texts and the queue, in this order, at every moment of a turn. When owners are dropped this is lost, and `TextsOnce` takes its place: a text is in the history, with the owner, in the queue or lost, and there once (`PlacesApart`). `SeenInv` says for each place of a turn what the AI has still to be shown, `LatestInv` that the owner is the latest of all there were, or that, when there is none, everything is seen or the latest was stopped in its first round. `NoLostWakeup` is inductive with the types: the flag is read after the `Notified` future exists |
| `Gate_proofs` (`ActionExec`) | `TypeCorrect`, `NoDeniedRuns`, `NothingUnasked`, `ContentNotTrusted`, `RejectionHolds`, `LedgerIsTrue`, `LocksInOrder` | as long as the chain of escalations says "auto", what its steps have established holds (`ChainInv` with `Harmless` and `Unsuspicious`), although flags are changed by other actions meanwhile; what executes was let through by the user or the whole chain (`RunInv`); a rejection stays up as long as its response and earlier actions of a response are over (`ResponseInv`); what an action of the chat found in the history is flagged by the time it is decided on, because content in the history is flagged or its action is at "flag" (`IngestInv`); the chat handles its own actions one after the other, so that only an MCP call can be there. The ledger needs a shape for each place of an action: which entries it has tried to write, in which order, with which wording and in whose name (`LedgerInv`); that shape holds of the whole trail (`WholeTruth`) and what is true of all entries is true of those that were kept. The locks need that exactly the actions in the places under a lock hold it (`LockInv`, with `OnConnection` and `OnChannel`), from which follow one holder each (`OneHolder`) and one order (`NoLockCycle`) |
| `Gate_proofs` (`FilterEngine`) | `StoreTypes`, `DenyEverywhere`, `AutoOnlyEarned`, `RulesOnlyTighten`, `RiskSeesAll` | the invariant only says that the evaluation acted on is the engine's (`TraceInv`); the rest is about the engine. A set of decisions has a first one in the order of severity and code (`FirstOf`), which is what `combine` keeps (`CombineAllIs`), so a Deny inside is a Deny outside, and an automatic whole has automatic parts only. What the parser can remove before a program is removed whole (`Uncovered`, then `Resolved` is `Bare`); the statements speak of these texts, and of the first words of the others. The functions along the nesting exist (`Iterate`) and are what their equations say (`DecisionsAtIs`, `TextsAtIs`, `WithinIs`); the properties follow by induction, on the levels of a command (`NamedAnywhereIsDenied`, `TextsSeen`) or on the depth (`DecisionsKeep`: each decision stays as tight, or was only for want of a rule) |
| `RemoteWrite_proofs` | `TypeCorrect`, `OriginalIsKept`, `RootWhenDenied`, `SuccessIsWritten`, `ModeIsKept` | until the file is touched, the backup of everyone about to touch it is complete (`UntouchedInv`); afterwards the backup of the first one to touch it is, and no other write names its backups after the same second (`TouchedInv`, `StampInv`). The obvious candidate "every writer's backup holds the original" is not invariant: a later writer backs up what an earlier one wrote |
| `HostKeys_proofs` | `TypeCorrect`, `OnlyApproved`, `ThroughApproved`, `OneKey`, `TrustDurable`, `TrustedNotAsked` | the mutex is held from the change of the map to the renaming, so what is renamed into place is the map (`LockInv`); whoever stores a key has the user's word for this key (`DialogInv`, `AnswerInv`: an attempt asks again only after its answer arrived). `TrustedNotAsked` is a step property: a question comes from a hop whose key is not in memory, and `TrustSurvives` says a trusted one is |
| `DatabaseStart_proofs` | `TypeCorrect`, `NoRowLost`, `LogsFit`, `KeyFits`, `KeyKept`, `Refinement` | before the copy takes the original's place it is complete and no log is left (`DiskInv`); a key in memory is the stored one, or a new one where there was none (`KeyInv`). The refinement needs `AsideInv` besides: what the dialogs lead to setting aside is not plaintext, which rests on the keychain's "unreachable" never being taken for "not found" (a key made then would not be asked about). That the database was not readable with the root key is no invariant: see section 7 |
| `ElevatedSftp_proofs` | `TypeCorrect`, `NoChannelAfterTheEnd`, `RefusalReported`, `AuditNamesTheUser`, `RightsAreOver`, `LinesHoldWaiters`, `NoTransferHolds`, `NobodyOvertakes` | a slot is the registered one, revoked, or in the hands of a call that is about to revoke it (`RegisterInv`), and after a disconnect's look at the register nothing is registered (`EndInv`). A slot whose end was reported is revoked, one a switch has closed holds no channel (`OverInv`). An operation under way holds the lock of its slot, which is why a switch that gets this lock finds none (`CommandOK`, `DrainStep`). What was recorded for the audit before the check is the user of the slot, unless the slot is revoked. `LinesInv` says that every line holds exactly those who wait for its lock, each once; one lemma (`LinesMoved`) says what a step of one caller may do to the lines, and each action is shown to be such a step. `NobodyOvertakes` adds what the next step of the holder does to those behind it (`PassedOn`) |
| `ServerProfiles_proofs` | `TypeCorrect`, `WayInKept`, `NothingLeftOver`, `ImportComplete`, `DeletionTells` | `LoginKept` is part of it, but says nothing of what a call is about to do: `SaveInv` ties the snapshot of a save to the row and the fields still to be written to the slots (everything the new login will need is there or is still to come), and bounds what it may have put there (everything it takes back is its own). `RemovalInv` says what a deletion has already cleared, `CleanInv` that a server nobody works on holds only what it uses. `ImportInv` gives the entries made so far their place in the plan and says that the others are untouched, but for the one whose secrets have just been stored. Where an operation has failed, nothing is claimed but the way in; the frame lemmas `SaveStep`, `RemovalStep` and `ImportStep` say once what a step of one call leaves to the others |

Proved, but not among the properties of a run: `OneAccepted`, `NothingLeftBehind`,
`CleanupSafe`, `RootWhenDenied`, `ModeIsKept`, `OneKey`, `TrustedNotAsked`, `KeyFits`,
`KeyKept`, and the type invariants. Six theorems state the safety half of a liveness property, what must never
happen for it to hold: `LocksInOrder` (no circle of waiting: `EveryActionEnds`),
`StopWakesWaiter` (no lost wake-up: `StopEndsTurn`), `QueuedHasOwner` (no text queued for
a turn that is over: `QueuedGetsSent`), `WaitsComeCloser` (a wait always has a way on, and
no step takes it back: `EveryWaitEnds`), and, on top of `LinesHoldWaiters`,
`NoTransferHolds` and `NobodyOvertakes` (the connection is never held by a transfer, and
the line for it only moves up: `NothingWaitsForTransfer`). That the other
half, fair scheduling, then brings the good end is TLC's to check.

Induction is by the well-foundedness of `<`: a set of numbers with 0 and every
successor is `Nat` (`SetInduction`), for which the set of the numbers that satisfy the
claim is taken. The library's induction theorems with an operator as parameter are not
needed. `FilterEngine` defines what is recursive as functions, since recursive operators are
beyond the proof system; that `CombineAll`, the first of a set, is the result of folding
`combine` in any order is checked by TLC for all decisions (`FoldsAlike`).

Only model-checked: the liveness properties (`EveryWaitEnds`, `StopEndsTurn`,
`QueuedGetsSent`, `EveryActionEnds`, `EveryWaitForKeyEnds`, `NothingWaitsForTransfer`),
which are beyond the proof system. Every other property of a run is proved.

## 7. Where code and documents disagree

Two runs check what a document or comment says and find it violated by what the
code does. The quotations are in `PROJECT.json`.

* **`host_key_replaced`** (`connect.rs:390`). Spec 0005 wants a hard stop for a changed
  key, not the simple confirmation of an unknown one. Two dialogs for one unknown
  host can be open; the second one answered replaces the key the first one stored
  and still speaks of an unknown key.
* **`server_notes_lost`** (`servers.rs:240`). The note history is said never to diverge
  from the notes. An edit writes the whole row, with the notes as they were read
  before the keychain was asked: a note saved meanwhile stays in the history, but
  the older text is back in the row, without a revision.

Smaller observations, met while modelling and not checked by a run:

* `store.rs:270-284`: whatever makes the first query fail, a busy database or a read
  error too, counts as "not readable with the key", and `database_startup.rs:320-325`
  offers to start over with a database the key does open. Spec 0101 (lines 169-180)
  has this dialog for a file that the key does not open. Nothing is lost, since
  the files are set aside, not deleted.
* `engine.rs:304-313`: the comment wants a Deny rule to reach the code behind a
  `bash -c`. It does at the start of a text, behind elevation and wrappers too. In a
  later link (`true && bash -c '...'`) the code is an argument of `bash` like any other:
  with Allow rules for both first words it runs without a question. Further links
  and substitutions beside such code at the start are not compared with rules, nor is
  the shell itself; the whole is asked about in this case. Texts with a here-document
  or an open quote are asked about, not denied.
* `parser.rs:408-443`: a wrapper named by a path, or one with an option whose value the
  parser does not know of (`xargs -n 1 p`), ends the search for the program: Deny rules
  and the blacklist then compare what is left in front. Without an Allow rule for
  the first word the question stays.
* `engine.rs:210` limits the text to 4096 characters, `classifier.rs:38` to 4096 bytes, with
  a comment that calls it the same limit. A text between the two is evaluated, but
  classified as without risk, so that the balanced policy takes it for a reading one
  (`action_exec.rs:281-287`).
* `action_exec.rs:1632-1654`, `remote_files.rs:219-234`: the history has the content before
  the flag is stored. An action of the chat proposed between the two steps of an
  MCP call is decided on without the flag.
* `action_exec.rs:1534`: the filter is not asked again about the text with `sudo -S` that is
  sent in place of the confirmed one.
* `chat_turn.rs:221-230`: an entry the ledger cannot take is lost with a line in the log,
  and the action goes on. Nothing in the ledger tells of the gap.
* `action_exec.rs:323`: the comment at line 156 explains that a check must come before
  the swap of the suspicion flag, or an action that is confirmed anyway would use
  the suspicion up. Three other checks (MCP origin, stored sudo password, earlier
  rejection) do come after the swap.
* `remote_files.rs:430`: Spec 0020 (line 152) promises a backup before every
  overwriting; every failure of `stat` counts as "the file does not exist". Backups
  of one second have one name (line 256).
* `database_startup.rs:158`, 350: Spec 0101 (A3) says that "try again" examines the
  keychain again; the result of the probe at program start is kept.
* `rule_suggestions.rs:68` offers `env *` for `sudo env ...`, though the comment at 50-66
  rules out a bare wrapper with a wildcard.
* `servers.rs:306-312`: a deletion removes the secrets before the row, and reports what
  stayed in the keychain only for the references of the current login.
* `sftp.rs:1174`: an edit session that finishes opening after the disconnect's
  `remove_dir_all` leaves its local copy (docs/specs/0054, line 105).
* `elevation.rs:331-335`: the next file of a recursive download goes through
  `BrowserSftpGuard::sftp`, without the fast abort the comment describes, so that a
  revoked download can wait behind another transfer. `NothingWaitsForTransfer`
  speaks of changing commands for this reason.
* Of two concurrent disables the second may return before the first has marked the
  channel; `NoChannelSurvives` and `RightsEnd` are stated accordingly.
* The terminal actor may report a disconnect a second time, which the comment at
  `chat.rs:399-402` rules out.
* The comment at `confirmation.rs:100` says a wrongly cancelled wait would hang for
  ever; it would get a receive error at once, since its sender is dropped.
* The doc comment at `action_exec.rs:1369` says the context is unchanged when a
  command fails; `emit_action_error` adds a message to the history.
* The tab indicator is one slot for all waits of a session
  (`pending_confirmation.rs:125`): when the later of two waits ends, the indicator goes
  out though the earlier one still waits. `NoOrphanIndicator` states what does
  hold: it never points at a wait that is over.
* A key whose file could not be written stays trusted in memory until the restart.

## 8. What is abstracted, and what is not modelled

* Texts, paths, contents and keys are members of small sets. A text of the chat is
  the call that carries it; a content is the write it comes from.
* In `ActionExec` the verdict of the filter, the risk level, secret paths and sudo are
  attributes of the item: the theorems hold for whatever the pure functions answer,
  but say nothing about these answers. The redaction of ledger entries is left out. The
  steps of a write on the SFTP channel are one request with one answer here, as
  are the commands of its sudo fallback; `RemoteWrite` has them one by one. The file
  browser and the terminal, which take the same locks, are left out. That an MCP call
  has put content into the history and not yet flagged it is left out of
  `ContentIsNotTrusted`, since the code does not promise more. Documents the AI generates do not pass the
  gate and are left out.
* In `ChatTurn` the texts of the AI, compaction and the contents of the context are
  left out.
* In `RemoteWrite` all writes go to one path; an operation that fails may have had its
  effect or have left a torn file. A clock that jumps back is not modelled.
* In `HostKeys` a host may present any of its keys at any time. Authentication is one
  of the ways an attempt fails.
* In `DatabaseStart` one instance of the program runs at a time. Nothing in the code
  enforces this (ADR 0093, section 7, says so); a second instance could discard or
  replace the copy the first one has verified. A database of zero bytes beside a
  log and the contents of migrations are left out (a failing one is a failing open).
* In `FilterEngine` a command is what the parser makes of its text: quoting, escapes
  and the grammar of the shell are left out, as are rules of an organization, which
  no code stores, and the order of rules within one bucket, which decides nothing.
  Commands too long to be looked at are asked about whatever the rules say, and
  excluded from `DenyReaches`. Which words an option takes is in the form of a word
  (`Word`). The classifier does not take the code of `bash -c` apart and has a limit
  of its own, which `RiskSeesWhatFilterSees` leaves out for this reason; the whole
  text, which it also looks at, is not modelled.
* In `ServerProfiles` a secret is in its slot or not: that a failed edit does not put an
  overwritten value back is a limitation spec 0082 accepts (R1), as is that two
  saves of one server are not kept apart (R2). `NothingOrphaned`, `ImportAllOrNothing`
  and `DeleteTells` leave out the servers in `faulty`: those for which the rollback or a
  deletion itself failed or was cut off by the end of the program, which the code
  reports or cannot know; `LoginKept` holds for them too.
* In `ElevatedSftp` one probe stands for the two that may be made. The chat's own use
  of the connection (a command of the chat keeps it until the command ends, which
  is one more thing a disconnect waits for), the terminal, edit sessions and the tasks after a disconnect
  are left out.
* `ConfirmationRegistry`'s `Cancel`, which only the note suggestions call, is not
  part of a composition.
* Section 1.3 lists the components without a model.

## 9. Plan

The most important behaviour first: what may run on the server, and who decides
(`ActionExec`, `PendingConfirmation`, `FilterEngine`); what a failure may destroy
(`RemoteWrite`, `HostKeys`, `DatabaseStart`, `ServerProfiles`); what must end
(`ChatTurn`, `ElevatedSftp`). These are done. What is left, in this order:

1. `NoteSuggestion` on top of `ConfirmationRegistry`, with `Cancel`: the dialog is
   announced before its wait is registered.
2. Edit sessions and the terminal's task beside a disconnect.
3. `RateLimitBudget` and the retries; `Compaction` as a function on the history; start
   and stop of the MCP server with changing settings.
4. Proofs: measures as `WaitsComeCloser` has one for `HostKeys`, `ChatTurn` and
   `ActionExec`, where the time limit of a wait, a round of a turn or a wait for a lock
   is what a fair step uses up.

## 10. How to run

```
tlasany M.tla                         # parse
tlc -config MCChatTurn.cfg MCChatTurn # one run; PROJECT.json lists module and cfg of each
tlapm ChatTurn_proofs.tla             # check the proofs of a module
```

A `Finished` action marks the states in which everything has come to its end, so
that any other state without a successor is reported as a deadlock. `CHECK_DEADLOCK`
is off only for `ServerProfiles`, whose calls hold no locks and simply end. `DatabaseStart`
never stops, since the keychain can come and go for ever.
