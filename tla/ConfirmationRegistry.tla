------------------------ MODULE ConfirmationRegistry ------------------------
(***************************************************************************)
(* crates/app-logic/src/confirmation.rs: the register of questions that    *)
(* wait for an answer of the user (an action to approve, a host key to     *)
(* trust).  A wait owns the receiving half of a oneshot channel; the       *)
(* sending half lies in a mutex-protected map, under the wait's key and    *)
(* with the generation of its registration.                                *)
(*                                                                         *)
(* The module holds the register's state and one action per atomic step of *)
(* its operations.  register_tracked and resolve are two steps each: the   *)
(* generation is drawn before the map is locked, and the sender is used    *)
(* after the map has been unlocked.  PendingConfirmation, the module of    *)
(* a waiting side, composes these actions.                                 *)
(***************************************************************************)
EXTENDS Naturals

CONSTANTS
    Waiters,        \* registrations, each made once by one waiting side
    Keys,           \* ActionId or SessionId values
    KeyOf,          \* the key each waiter registers under
    Calls,          \* calls of resolve, each made once
    Decisions,      \* what the user can answer
    NoEntry,        \* map[key] is None
    NoDecision      \* no value in the channel

EntryType == [generation : Nat, sender : Waiters]

ASSUME RegistryAssumption ==
    /\ KeyOf \in [Waiters -> Keys]
    /\ NoEntry \notin EntryType
    /\ NoEntry \notin Waiters
    /\ NoDecision \notin Decisions

VARIABLES
    pending,        \* the map: key -> (generation, sender)
    nextGeneration, \* the atomic counter
    generation,     \* the generation each waiter drew
    chan,           \* state of each waiter's oneshot channel
    value,          \* the value inside it
    call            \* progress of each call of resolve

registryVars == <<pending, nextGeneration, generation, chan, value, call>>

(* "open": both halves live; "sent": a value is inside; "orphaned": the    *)
(* sender was dropped without a value; "closed": the receiver is gone.     *)
ChanState == {"none", "open", "sent", "orphaned", "closed"}

IdleCall == [state |-> "idle", sender |-> NoEntry, decision |-> NoDecision]

CallType == [state : {"idle", "holding", "ok", "notFound", "ended"},
             sender : Waiters \cup {NoEntry},
             decision : Decisions \cup {NoDecision}]

RegistryTypeOK ==
    /\ pending \in [Keys -> EntryType \cup {NoEntry}]
    /\ nextGeneration \in Nat
    /\ generation \in [Waiters -> Nat]
    /\ chan \in [Waiters -> ChanState]
    /\ value \in [Waiters -> Decisions \cup {NoDecision}]
    /\ call \in [Calls -> CallType]

RegistryInit ==
    /\ pending = [k \in Keys |-> NoEntry]
    /\ nextGeneration = 0
    /\ generation = [w \in Waiters |-> 0]
    /\ chan = [w \in Waiters |-> "none"]
    /\ value = [w \in Waiters |-> NoDecision]
    /\ call = [c \in Calls |-> IdleCall]

Holds(c, w) == call[c].state = "holding" /\ call[c].sender = w

(* Mutant: a replaced or removed sender is kept alive elsewhere.           *)
OrphanLeaksSender(w) == chan[w]

(* The sender of w is dropped: an unanswered, still awaited channel breaks. *)
Orphan(w) == IF chan[w] = "open" THEN "orphaned" ELSE chan[w]

(* register_tracked, first step: the channel and the generation.           *)
DrawGeneration(w) ==
    /\ generation' = [generation EXCEPT ![w] = nextGeneration]
    /\ nextGeneration' = nextGeneration + 1
    /\ chan' = [chan EXCEPT ![w] = "open"]
    /\ UNCHANGED <<pending, value, call>>

(* register_tracked, second step: insert under the lock.  An entry already *)
(* there is replaced and its sender dropped.                               *)
InsertEntry(w) ==
    LET old == pending[KeyOf[w]]
    IN  /\ pending' = [pending EXCEPT ![KeyOf[w]] =
                          [generation |-> generation[w], sender |-> w]]
        /\ chan' = IF old = NoEntry THEN chan
                   ELSE [chan EXCEPT ![old.sender] = Orphan(old.sender)]
        /\ UNCHANGED <<nextGeneration, generation, value, call>>

(* resolve, first step: take the entry out under the lock.                 *)
TakeSender(c, k, d) ==
    /\ call[c].state = "idle"
    /\ call' = [call EXCEPT ![c] =
          IF pending[k] = NoEntry
          THEN [IdleCall EXCEPT !.state = "notFound"]
          ELSE [state |-> "holding", sender |-> pending[k].sender, decision |-> d]]
    /\ pending' = [pending EXCEPT ![k] = NoEntry]
    /\ UNCHANGED <<nextGeneration, generation, chan, value>>

(* Mutant: the result of send is ignored.                                  *)
SendAnswerIgnoresFailure(c) ==
    LET w == call[c].sender
    IN  /\ call[c].state = "holding"
        /\ call' = [call EXCEPT ![c].state = "ok"]
        /\ chan' = IF chan[w] = "open" THEN [chan EXCEPT ![w] = "sent"] ELSE chan
        /\ value' = IF chan[w] = "open"
                    THEN [value EXCEPT ![w] = call[c].decision] ELSE value
        /\ UNCHANGED <<pending, nextGeneration, generation>>

(* resolve, second step: send outside the lock; it fails when the waiting  *)
(* side has dropped its receiver.                                          *)
SendAnswer(c) ==
    LET w == call[c].sender
    IN  /\ call[c].state = "holding"
        /\ IF chan[w] = "open"
           THEN /\ chan' = [chan EXCEPT ![w] = "sent"]
                /\ value' = [value EXCEPT ![w] = call[c].decision]
                /\ call' = [call EXCEPT ![c].state = "ok"]
           ELSE /\ call' = [call EXCEPT ![c].state = "ended"]
                /\ UNCHANGED <<chan, value>>
        /\ UNCHANGED <<pending, nextGeneration, generation>>

(* cancel_if_current removes the entry only of this very registration.     *)
OwnEntry(w) ==
    /\ pending[KeyOf[w]] # NoEntry
    /\ pending[KeyOf[w]].generation = generation[w]

(* cancel removes whatever is registered under the key.                    *)
Cancel(w) ==
    /\ IF pending[KeyOf[w]] # NoEntry
       THEN LET s == pending[KeyOf[w]].sender
            IN  /\ pending' = [pending EXCEPT ![KeyOf[w]] = NoEntry]
                /\ chan' = [chan EXCEPT ![s] = Orphan(s)]
       ELSE UNCHANGED <<pending, chan>>
    /\ UNCHANGED <<nextGeneration, generation, value, call>>

CancelIfCurrent(w) ==
    /\ IF OwnEntry(w)
       THEN LET s == pending[KeyOf[w]].sender
            IN  /\ pending' = [pending EXCEPT ![KeyOf[w]] = NoEntry]
                /\ chan' = [chan EXCEPT ![s] = Orphan(s)]
       ELSE UNCHANGED <<pending, chan>>
    /\ UNCHANGED <<nextGeneration, generation, value, call>>

(* The receiving half of w is dropped.                                     *)
DropReceiver(w) ==
    /\ chan' = [chan EXCEPT ![w] = "closed"]
    /\ UNCHANGED <<pending, nextGeneration, generation, value, call>>

Resolve(c) ==
    \/ \E k \in Keys, d \in Decisions : TakeSender(c, k, d)
    \/ SendAnswer(c)

(***************************************************************************)
(* Properties of the register, whoever waits.                              *)
(***************************************************************************)

(* A wait whose channel is still open can be answered: its sender lies in  *)
(* the map or in the hands of a resolve between its two steps.  A sender   *)
(* lost between them would leave the wait hanging until its time limit.    *)
(* The registration itself is the one gap, excluded by Registering.        *)
Reachable(Registering) ==
    \A w \in Waiters \ Registering :
        chan[w] = "open" =>
            \/ pending[KeyOf[w]] # NoEntry /\ pending[KeyOf[w]].sender = w
            \/ \E c \in Calls : Holds(c, w)

(* Two clicks on the same question: at most one resolve reports success    *)
(* for one registration, however the calls, re-registrations and the       *)
(* waiter's clean-up interleave.                                           *)
AtMostOneAccepted ==
    \A c1, c2 \in Calls :
        /\ call[c1].state = "ok"
        /\ call[c2].state = "ok"
        /\ call[c1].sender = call[c2].sender
        => c1 = c2
=============================================================================
