------------------------ MODULE PendingConfirmation -------------------------
(***************************************************************************)
(* crates/app-logic/src/orchestration/pending_confirmation.rs: a proposed  *)
(* action that waits for the user's decision.  The chat turn and the MCP   *)
(* calls of one session all wait this way and share the session's tab      *)
(* indicator (Session::pending_action).  A wait ends by a decision, by a   *)
(* dropped sender, by its time limit, or because the future around it is   *)
(* dropped; on every one of these ways the drop of the clean-up guard      *)
(* clears the indicator first and the map entry second.                    *)
(***************************************************************************)
EXTENDS ConfirmationRegistry

VARIABLES
    pc,             \* where each waiter is
    outcome,        \* what its wait returned
    indicator       \* Session::pending_action, an action's key

waitVars == <<pc, outcome, indicator>>
vars == <<registryVars, waitVars>>

PCState == {"new", "drawn", "registered", "waiting", "elapsed",
            "dropIndicator", "dropEntry", "dropReceiver", "finished"}

Results == {"none", "decided", "senderDropped", "timedOut", "aborted"}
OutcomeType == [result : Results, decision : Decisions \cup {NoDecision}]
Outcome(r, d) == [result |-> r, decision |-> d]

TypeOK ==
    /\ RegistryTypeOK
    /\ pc \in [Waiters -> PCState]
    /\ outcome \in [Waiters -> OutcomeType]
    /\ indicator \in Keys \cup {NoEntry}

Init ==
    /\ RegistryInit
    /\ pc = [w \in Waiters |-> "new"]
    /\ outcome = [w \in Waiters |-> Outcome("none", NoDecision)]
    /\ indicator = NoEntry

Goto(w, from, to) == pc[w] = from /\ pc' = [pc EXCEPT ![w] = to]

(* PendingConfirmation::register: one action per step of register_tracked. *)
RegisterDraw(w) ==
    /\ Goto(w, "new", "drawn")
    /\ DrawGeneration(w)
    /\ UNCHANGED <<outcome, indicator>>

RegisterInsert(w) ==
    /\ Goto(w, "drawn", "registered")
    /\ InsertEntry(w)
    /\ UNCHANGED <<outcome, indicator>>

(* wait_for_decision: previews and second opinion are over, the indicator  *)
(* is set and the wait begins.                                             *)
StartWaiting(w) ==
    /\ Goto(w, "registered", "waiting")
    /\ indicator' = KeyOf[w]
    /\ UNCHANGED <<registryVars, outcome>>

(* The wait returns: the receiver is consumed and dropped with it.         *)
EndWait(w, o) ==
    /\ outcome' = [outcome EXCEPT ![w] = o]
    /\ DropReceiver(w)
    /\ UNCHANGED indicator

(* Mutant: the value handed to the waiter is the last answer anyone gave.  *)
ReceiveAnyDecision(w) ==
    \E v \in Waiters :
        /\ Goto(w, "waiting", "dropIndicator")
        /\ chan[v] = "sent"
        /\ outcome' = [outcome EXCEPT ![w] = Outcome("decided", value[v])]
        /\ DropReceiver(w)
        /\ UNCHANGED indicator

ReceiveDecision(w) ==
    /\ Goto(w, "waiting", "dropIndicator")
    /\ chan[w] = "sent"
    /\ EndWait(w, Outcome("decided", value[w]))

ReceiveError(w) ==
    /\ Goto(w, "waiting", "dropIndicator")
    /\ chan[w] = "orphaned"
    /\ EndWait(w, Outcome("senderDropped", NoDecision))

(* Mutant: the wait has no time limit.                                     *)
NoTimeLimit(w) == FALSE /\ UNCHANGED vars

(* tokio's timeout polls the receiver first and the timer second: between  *)
(* the two an answer may still arrive, which nobody will read.             *)
PollEmptyTimerElapsed(w) ==
    /\ Goto(w, "waiting", "elapsed")
    /\ chan[w] = "open"
    /\ UNCHANGED <<registryVars, outcome, indicator>>

TimeOut(w) ==
    /\ Goto(w, "elapsed", "dropIndicator")
    /\ EndWait(w, Outcome("timedOut", NoDecision))

(* The surrounding future is dropped.  While waiting, the receiver falls   *)
(* before the guard; before that, the guard's fields fall first.           *)
AbortWaiting(w) ==
    /\ Goto(w, "waiting", "dropIndicator")
    /\ EndWait(w, Outcome("aborted", NoDecision))

AbortRegistered(w) ==
    /\ Goto(w, "registered", "dropIndicator")
    /\ outcome' = [outcome EXCEPT ![w] = Outcome("aborted", NoDecision)]
    /\ UNCHANGED <<registryVars, indicator>>

(* Mutant: the indicator is left as it is.                                 *)
DropIndicatorForgotten(w) ==
    /\ Goto(w, "dropIndicator", "dropEntry")
    /\ UNCHANGED <<registryVars, outcome, indicator>>

(* ConfirmationCleanup::drop: the own indicator, then the own map entry.   *)
DropIndicator(w) ==
    /\ Goto(w, "dropIndicator", "dropEntry")
    /\ indicator' = IF indicator = KeyOf[w] THEN NoEntry ELSE indicator
    /\ UNCHANGED <<registryVars, outcome>>

DropEntry(w) ==
    /\ Goto(w, "dropEntry", IF chan[w] = "closed" THEN "finished" ELSE "dropReceiver")
    /\ CancelIfCurrent(w)
    /\ UNCHANGED <<outcome, indicator>>

DropReceiverLate(w) ==
    /\ Goto(w, "dropReceiver", "finished")
    /\ DropReceiver(w)
    /\ UNCHANGED <<outcome, indicator>>

Wait(w) ==
    \/ ReceiveDecision(w)
    \/ ReceiveError(w)
    \/ PollEmptyTimerElapsed(w)
    \/ TimeOut(w)

Cleanup(w) ==
    \/ DropIndicator(w)
    \/ DropEntry(w)
    \/ DropReceiverLate(w)

Progress(w) ==
    \/ RegisterDraw(w)
    \/ RegisterInsert(w)
    \/ StartWaiting(w)
    \/ Wait(w)
    \/ Cleanup(w)

Answer(c) == Resolve(c) /\ UNCHANGED waitVars

(* Every waiter is through and every call has returned.                    *)
Finished ==
    /\ \A w \in Waiters : pc[w] = "finished"
    /\ \A c \in Calls : call[c].state \notin {"idle", "holding"}
    /\ UNCHANGED vars

Next ==
    \/ \E w \in Waiters : Progress(w) \/ AbortWaiting(w) \/ AbortRegistered(w)
    \/ \E c \in Calls : Answer(c)
    \/ Finished

Spec == Init /\ [][Next]_vars

(* A task that can run does run: the timer elapses after its hour, a wait  *)
(* with something to return returns, clean-up and resolve are synchronous  *)
(* code.  Nothing forces a user to answer or a future to be dropped.       *)
FairSpec ==
    /\ Spec
    /\ \A w \in Waiters : WF_vars(Wait(w)) /\ WF_vars(Cleanup(w))
    /\ \A c \in Calls : WF_vars(SendAnswer(c) /\ UNCHANGED waitVars)

-----------------------------------------------------------------------------
Registering == {w \in Waiters : pc[w] = "drawn"}

(* See Reachable: from the insertion on, an awaited question is always     *)
(* answerable, also when clicks, timers, aborts and re-registrations race. *)
EveryWaitReachable == Reachable(Registering)

(* A wait returns a decision only if a resolve call for exactly this       *)
(* registration reported success with exactly this decision: an answer to  *)
(* an earlier question under the same key never approves a later one.      *)
DecisionWasAccepted ==
    \A w \in Waiters :
        outcome[w].result = "decided" =>
            \E c \in Calls : /\ call[c].state = "ok"
                             /\ call[c].sender = w
                             /\ call[c].decision = outcome[w].decision

(* Once the guard of a wait has fallen the map holds no entry of it and    *)
(* its channel is closed, so no later resolve can succeed for it.          *)
NoDeadEntry ==
    \A w \in Waiters :
        pc[w] = "finished" =>
            /\ chan[w] = "closed"
            /\ \A k \in Keys : pending[k] # NoEntry => pending[k].sender # w

(* The tab indicator never points at a wait that is already cleaned up:    *)
(* this is the orphaned indicator the guard was introduced against.        *)
NoOrphanIndicator ==
    indicator # NoEntry =>
        \E w \in Waiters :
            KeyOf[w] = indicator /\ pc[w] \in {"waiting", "elapsed", "dropIndicator"}

(* A late clean-up under a re-used key never removes the entry of another  *)
(* wait: that one would lose its question (cancel_if_current).             *)
CleanupLeavesOthersAlone ==
    [][\A w, v \in Waiters :
          /\ v # w /\ pending[KeyOf[v]] # NoEntry /\ pending[KeyOf[v]].sender = v
          /\ pc[w] = "dropEntry" /\ pc'[w] # "dropEntry"
          => pending'[KeyOf[v]] = pending[KeyOf[v]]]_vars

(* A click that comes after the wait has returned is told so: its resolve  *)
(* does not report success, even when it took the sender out in time.      *)
LateAnswerRejected ==
    [][\A c \in Calls :
          /\ call[c].state = "holding"
          /\ outcome[call[c].sender].result \in {"decided", "senderDropped", "timedOut"}
          => call'[c].state # "ok"]_vars

(* Every wait that has begun ends and is cleaned up, whatever the user     *)
(* does: the one-hour limit bounds it.                                     *)
EveryWaitEnds == \A w \in Waiters : pc[w] = "waiting" ~> pc[w] = "finished"

(* The promise to the user, see Confirmation: which questions are open and *)
(* which answer counts, read off channels, calls and outcomes.             *)
Abstract == INSTANCE Confirmation WITH
    Questions <- Waiters,
    state <- [w \in Waiters |-> CASE chan[w] = "none" -> "unasked"
                                  [] chan[w] = "closed" -> "closed"
                                  [] OTHER -> "open"],
    accepted <- value,
    result <- [w \in Waiters |->
                 IF chan[w] = "closed" THEN outcome[w].decision ELSE NoDecision]

ImplementsConfirmation == Abstract!Spec
=============================================================================
