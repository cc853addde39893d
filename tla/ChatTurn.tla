------------------------------ MODULE ChatTurn ------------------------------
(***************************************************************************)
(* The chat turn of one session: send_chat_message_impl (app-shell,        *)
(* commands/chat.rs), run_chat_turn and run_one_round (app-logic,          *)
(* orchestration/chat_turn.rs) and the stop request (app-logic,            *)
(* session.rs).                                                            *)
(*                                                                         *)
(* Every message of the user is a call of its own.  The call that finds no *)
(* turn running becomes the turn's owner and drives the AI through up to   *)
(* MaxRounds rounds; every other call leaves its text in the queue and     *)
(* returns.  The owner picks the queue up before each further round, and   *)
(* when the turn is over it starts a follow-up turn for what is left.  A   *)
(* stop request may come at any time: it sets a flag and wakes whoever     *)
(* waits for it.  Texts are identified with the calls that carry them.     *)
(***************************************************************************)
EXTENDS Naturals, Sequences

CONSTANTS
    Senders,        \* calls of send_chat_message, one text each
    Stoppers,       \* calls of stop_auto_continuation
    MaxRounds,      \* MAX_AUTO_FOLLOWUP_ROUNDS
    MayPanic        \* whether the owner's future may be dropped or panic

ASSUME TurnAssumption ==
    /\ MaxRounds \in Nat \ {0}
    /\ MayPanic \in BOOLEAN

VARIABLES
    running, queued,    \* ChatTurnState
    stop,               \* auto_continue_stop
    history,            \* the user's texts in session.context.history
    seen,               \* how many of them were part of a request
    pc,                 \* where each sender is
    frame,              \* local variables of each sender
    stopper,            \* where each stopper is
    arrived,            \* history variable: texts in the order of the lock
    lost,               \* history variable: texts a dropped future held
    stopped             \* history variable: a stop request has returned and
                        \* the flag it raised is still up

sharedVars == <<running, queued, stop, history, seen>>
vars == <<sharedVars, pc, frame, stopper, arrived, lost, stopped>>

(* texts: taken over, not yet in the history; notified: the Notified future *)
(* of auto_continue_stop_requested was woken; unanswered: what the latest   *)
(* run_chat_turn returned.                                                  *)
Frame == [texts : Seq(Senders), round : 0..MaxRounds, injected : BOOLEAN,
          executed : BOOLEAN, notified : BOOLEAN, sending : BOOLEAN,
          snapshot : Nat, unanswered : BOOLEAN]

EmptyFrame == [texts |-> <<>>, round |-> 0, injected |-> FALSE,
               executed |-> FALSE, notified |-> FALSE, sending |-> FALSE,
               snapshot |-> 0, unanswered |-> FALSE]

OwnerPC == {"record", "context", "push", "round", "take", "inject", "snapshot",
            "arm", "check", "parked", "polled", "handling", "endRound",
            "endTurn"}
SenderPC == OwnerPC \cup {"new", "recordQueued", "done", "dropped"}

TypeOK ==
    /\ running \in BOOLEAN
    /\ queued \in Seq(Senders)
    /\ stop \in BOOLEAN
    /\ history \in Seq(Senders)
    /\ seen \in Nat
    /\ pc \in [Senders -> SenderPC]
    /\ frame \in [Senders -> Frame]
    /\ stopper \in [Stoppers -> {"new", "stored", "done"}]
    /\ arrived \in Seq(Senders)
    /\ lost \in SUBSET Senders
    /\ stopped \in BOOLEAN

Init ==
    /\ running = FALSE
    /\ queued = <<>>
    /\ stop = FALSE
    /\ history = <<>>
    /\ seen = 0
    /\ pc = [s \in Senders |-> "new"]
    /\ frame = [s \in Senders |-> EmptyFrame]
    /\ stopper = [t \in Stoppers |-> "new"]
    /\ arrived = <<>>
    /\ lost = {}
    /\ stopped = FALSE

Goto(s, from, to) == pc[s] = from /\ pc' = [pc EXCEPT ![s] = to]

(***************************************************************************)
(* send_chat_message_impl                                                  *)
(***************************************************************************)

(* Under the lock: queue the text, or become the owner of a turn and clear *)
(* the stop flag before anything else.                                     *)
Enqueue(s) ==
    /\ running
    /\ Goto(s, "new", "recordQueued")
    /\ queued' = Append(queued, s)
    /\ arrived' = Append(arrived, s)
    /\ UNCHANGED <<running, stop, history, seen, frame, stopper, lost, stopped>>

(* Mutant: running is tested before the lock is taken.                     *)
BeginTurnUnlocked(s) ==
    /\ Goto(s, "new", "record")
    /\ running' = TRUE
    /\ stop' = FALSE
    /\ stopped' = FALSE
    /\ frame' = [frame EXCEPT ![s].texts = <<s>>]
    /\ arrived' = Append(arrived, s)
    /\ UNCHANGED <<queued, history, seen, stopper, lost>>

BeginTurn(s) ==
    /\ ~running
    /\ Goto(s, "new", "record")
    /\ running' = TRUE
    /\ stop' = FALSE
    /\ stopped' = FALSE
    /\ frame' = [frame EXCEPT ![s].texts = <<s>>]
    /\ arrived' = Append(arrived, s)
    /\ UNCHANGED <<queued, history, seen, stopper, lost>>

(* The text goes into the prompt history of the database.                  *)
RecordPrompt(s) ==
    /\ \/ Goto(s, "recordQueued", "done")
       \/ Goto(s, "record", "context")
    /\ UNCHANGED <<sharedVars, frame, stopper, arrived, lost, stopped>>

(* Server, notes and rules are read anew into the system context.          *)
BuildContext(s) ==
    /\ Goto(s, "context", "push")
    /\ UNCHANGED <<sharedVars, frame, stopper, arrived, lost, stopped>>

(* push_history, one text after the other; then run_chat_turn begins.      *)
PushText(s) ==
    /\ pc[s] \in {"push", "inject"}
    /\ frame[s].texts # <<>>
    /\ history' = Append(history, Head(frame[s].texts))
    /\ frame' = [frame EXCEPT ![s].texts = Tail(@)]
    /\ UNCHANGED <<running, queued, stop, seen, pc, stopper, arrived, lost, stopped>>

StartRounds(s) ==
    /\ frame[s].texts = <<>>
    /\ Goto(s, "push", "snapshot")
    /\ frame' = [frame EXCEPT ![s].round = 1, ![s].injected = FALSE]
    /\ UNCHANGED <<sharedVars, stopper, arrived, lost, stopped>>

(* Mutant: the turn ends without a look at the queue.                      *)
EndTurnQueueUnseen(s) ==
    /\ Goto(s, "endTurn", "done")
    /\ ~frame[s].unanswered
    /\ running' = FALSE
    /\ UNCHANGED <<queued, stop, history, seen, frame, stopper, arrived, lost, stopped>>

(* After the turn, under the lock: end it, or take what has been queued    *)
(* and begin a follow-up turn, with the stop flag cleared.                 *)
EndTurn(s) ==
    /\ Goto(s, "endTurn", "done")
    /\ queued = <<>>
    /\ ~frame[s].unanswered
    /\ running' = FALSE
    /\ UNCHANGED <<queued, stop, history, seen, frame, stopper, arrived, lost, stopped>>

(* Mutant: the queue is copied instead of taken.                           *)
FollowUpTurnCopies(s) ==
    /\ Goto(s, "endTurn", "context")
    /\ queued # <<>> \/ frame[s].unanswered
    /\ stop' = FALSE
    /\ stopped' = FALSE
    /\ frame' = [frame EXCEPT ![s].texts = queued]
    /\ UNCHANGED <<running, queued, history, seen, stopper, arrived, lost>>

FollowUpTurn(s) ==
    /\ Goto(s, "endTurn", "context")
    /\ queued # <<>> \/ frame[s].unanswered
    /\ stop' = FALSE
    /\ stopped' = FALSE
    /\ frame' = [frame EXCEPT ![s].texts = queued]
    /\ queued' = <<>>
    /\ UNCHANGED <<running, history, seen, stopper, arrived, lost>>

(* ChatTurnRunningGuard::drop, when the owner panics or is dropped: the    *)
(* queue stays, what the owner had taken out of it is gone.                *)
DropOwner(s) ==
    /\ MayPanic
    /\ pc[s] \in OwnerPC
    /\ pc' = [pc EXCEPT ![s] = "dropped"]
    /\ running' = FALSE
    /\ lost' = lost \cup {frame[s].texts[i] : i \in DOMAIN frame[s].texts}
    /\ frame' = [frame EXCEPT ![s].texts = <<>>]
    /\ UNCHANGED <<queued, stop, history, seen, stopper, arrived, stopped>>

(***************************************************************************)
(* run_chat_turn                                                           *)
(***************************************************************************)
Return(s, from, unanswered) ==
    /\ Goto(s, from, "endTurn")
    /\ frame' = [frame EXCEPT ![s].unanswered = unanswered]
    /\ UNCHANGED <<sharedVars, stopper, arrived, lost, stopped>>

(* Before each further round: the stop flag, then the queue.               *)
StopBetweenRounds(s) == stop /\ Return(s, "round", FALSE)

NoStopBetweenRounds(s) ==
    /\ ~stop
    /\ Goto(s, "round", "take")
    /\ UNCHANGED <<sharedVars, frame, stopper, arrived, lost, stopped>>

(* Mutant: the newest text jumps the queue.                                *)
TakeNewest(s) ==
    /\ Goto(s, "take", "inject")
    /\ frame' = [frame EXCEPT
          ![s].texts = IF queued = <<>> THEN <<>> ELSE <<queued[Len(queued)]>>,
          ![s].injected = queued # <<>>]
    /\ queued' = IF queued = <<>> THEN <<>> ELSE SubSeq(queued, 1, Len(queued) - 1)
    /\ UNCHANGED <<running, stop, history, seen, stopper, arrived, lost, stopped>>

TakeQueue(s) ==
    /\ Goto(s, "take", "inject")
    /\ frame' = [frame EXCEPT ![s].texts = queued, ![s].injected = queued # <<>>]
    /\ queued' = <<>>
    /\ UNCHANGED <<running, stop, history, seen, stopper, arrived, lost, stopped>>

Injected(s) ==
    /\ frame[s].texts = <<>>
    /\ Goto(s, "inject", "snapshot")
    /\ UNCHANGED <<sharedVars, frame, stopper, arrived, lost, stopped>>

(* A round that executed an action is followed by another one, up to the   *)
(* limit.                                                                  *)
NextRound(s) ==
    /\ frame[s].executed
    /\ frame[s].round < MaxRounds
    /\ Goto(s, "endRound", "round")
    /\ frame' = [frame EXCEPT ![s].round = @ + 1, ![s].injected = FALSE]
    /\ UNCHANGED <<sharedVars, stopper, arrived, lost, stopped>>

LastRound(s) ==
    /\ ~frame[s].executed \/ frame[s].round = MaxRounds
    /\ Return(s, "endRound", FALSE)

(***************************************************************************)
(* run_one_round                                                           *)
(***************************************************************************)

(* The request is built from the history as it is now; compaction follows. *)
Snapshot(s) ==
    /\ Goto(s, "snapshot", "arm")
    /\ frame' = [frame EXCEPT ![s].snapshot = Len(history), ![s].sending = FALSE,
                              ![s].executed = FALSE]
    /\ UNCHANGED <<sharedVars, stopper, arrived, lost, stopped>>

(* auto_continue_stop_requested: the Notified future is created before the *)
(* flag is read, so that a stop between the two steps is not missed.       *)
Arm(s) ==
    /\ Goto(s, "arm", "check")
    /\ frame' = [frame EXCEPT ![s].notified = FALSE]
    /\ UNCHANGED <<sharedVars, stopper, arrived, lost, stopped>>

(* Mutant: the flag is read when the future is woken, never before.        *)
CheckSkipped(s) ==
    /\ Goto(s, "check", "parked")
    /\ UNCHANGED <<sharedVars, frame, stopper, arrived, lost, stopped>>

CheckClear(s) ==
    /\ ~stop
    /\ Goto(s, "check", "parked")
    /\ UNCHANGED <<sharedVars, frame, stopper, arrived, lost, stopped>>

(* Stopped before the request was sent: the texts injected for it still    *)
(* need an answer.  Stopped while the answer streams in: they had one.     *)
(* Mutant: the injected texts count as answered.                           *)
CheckStoppedForgets(s) == stop /\ Return(s, "check", FALSE)

CheckStopped(s) == stop /\ Return(s, "check", ~frame[s].sending /\ frame[s].injected)

Wake(s) ==
    /\ frame[s].notified
    /\ Goto(s, "parked", "arm")
    /\ UNCHANGED <<sharedVars, frame, stopper, arrived, lost, stopped>>

(* One poll of the biased select: the stop comes first.  When it is not    *)
(* requested, the other branch is polled: the request slot before the      *)
(* request is sent, the next event of the stream afterwards.  A stop that  *)
(* comes between these two steps is seen by the next poll only.            *)
PassStop(s) ==
    /\ ~frame[s].notified
    /\ Goto(s, "parked", "polled")
    /\ UNCHANGED <<sharedVars, frame, stopper, arrived, lost, stopped>>

SlotReady(s) == ~frame[s].sending /\ PassStop(s)
EventReady(s) == frame[s].sending /\ PassStop(s)

Send(s) ==
    /\ ~frame[s].sending
    /\ Goto(s, "polled", "arm")
    /\ seen' = frame[s].snapshot
    /\ frame' = [frame EXCEPT ![s].sending = TRUE]
    /\ UNCHANGED <<running, queued, stop, history, stopper, arrived, lost, stopped>>

StreamEvent(s, to) ==
    /\ frame[s].sending
    /\ Goto(s, "polled", to)
    /\ UNCHANGED <<sharedVars, frame, stopper, arrived, lost, stopped>>

(* Text, a document or a fully redacted note; an action; the end.          *)
StreamContent(s) == StreamEvent(s, "arm")
StreamAction(s) == StreamEvent(s, "handling")
StreamEnd(s) == StreamEvent(s, "endRound")

(* handle_action_proposed returns whether the AI gets to see a result.     *)
ActionHandled(s) ==
    /\ Goto(s, "handling", "arm")
    /\ \E executed \in BOOLEAN :
          frame' = [frame EXCEPT ![s].executed = @ \/ executed]
    /\ UNCHANGED <<sharedVars, stopper, arrived, lost, stopped>>

(***************************************************************************)
(* request_auto_continue_stop: the flag, then the wake-up of the Notified  *)
(* futures that exist at this moment.                                      *)
(***************************************************************************)
StoreStop(t) ==
    /\ stopper[t] = "new"
    /\ stopper' = [stopper EXCEPT ![t] = "stored"]
    /\ stop' = TRUE
    /\ UNCHANGED <<running, queued, history, seen, pc, frame, arrived, lost, stopped>>

(* Mutant: the flag alone.                                                 *)
NotifyNobody(t) ==
    /\ stopper[t] = "stored"
    /\ stopper' = [stopper EXCEPT ![t] = "done"]
    /\ stopped' = stop
    /\ UNCHANGED <<sharedVars, pc, frame, arrived, lost>>

NotifyWaiters(t) ==
    /\ stopper[t] = "stored"
    /\ stopper' = [stopper EXCEPT ![t] = "done"]
    /\ frame' = [s \in Senders |->
                   IF pc[s] \in {"check", "parked", "polled"}
                   THEN [frame[s] EXCEPT !.notified = TRUE] ELSE frame[s]]
    /\ stopped' = stop
    /\ UNCHANGED <<sharedVars, pc, arrived, lost>>

Enter(s) == Enqueue(s) \/ BeginTurn(s)

Bookkeeping(s) ==
    \/ RecordPrompt(s) \/ BuildContext(s) \/ PushText(s) \/ StartRounds(s)
    \/ EndTurn(s) \/ FollowUpTurn(s)

Rounds(s) ==
    \/ StopBetweenRounds(s) \/ NoStopBetweenRounds(s) \/ TakeQueue(s) \/ Injected(s)
    \/ NextRound(s) \/ LastRound(s) \/ Snapshot(s)
    \/ Arm(s) \/ CheckClear(s) \/ CheckStopped(s) \/ Wake(s) \/ SlotReady(s) \/ Send(s)

Stream(s) == StreamContent(s) \/ StreamAction(s) \/ StreamEnd(s)

Finished ==
    /\ \A s \in Senders : pc[s] \in {"done", "dropped"}
    /\ \A t \in Stoppers : stopper[t] = "done"
    /\ UNCHANGED vars

Next ==
    \/ \E s \in Senders :
          \/ Enter(s) \/ Bookkeeping(s) \/ Rounds(s) \/ EventReady(s) \/ Stream(s)
          \/ ActionHandled(s) \/ DropOwner(s)
    \/ \E t \in Stoppers : StoreStop(t) \/ NotifyWaiters(t)
    \/ Finished

Spec == Init /\ [][Next]_vars

(* The runtime schedules a call that can go on, waits for the rate limit   *)
(* are finite, and an action is decided within its hour.  Nothing is asked *)
(* of the AI provider.                                                     *)
FairSpec ==
    /\ Spec
    /\ \A s \in Senders :
          WF_vars(Bookkeeping(s) \/ Rounds(s)) /\ WF_vars(Stream(s)) /\ WF_vars(ActionHandled(s))
    /\ \A t \in Stoppers : WF_vars(NotifyWaiters(t))

(* What only some properties need of the provider: every stream ends after *)
(* finitely many events.                                                   *)
StreamsEnd == \A s \in Senders : WF_vars(EventReady(s)) /\ SF_vars(StreamEnd(s))

-----------------------------------------------------------------------------
Owners == {s \in Senders : pc[s] \in OwnerPC}

(* Two messages sent at once never drive two turns over one history, and   *)
(* running is never left behind by a turn that is gone.                    *)
OneTurn ==
    /\ running <=> Owners # {}
    /\ \A s, t \in Owners : s = t

NoneDropped == \A s \in Senders : pc[s] # "dropped"

OwnerTexts == IF Owners = {} THEN <<>> ELSE frame[CHOOSE s \in Owners : TRUE].texts

(* The user's texts reach the history in the order they were sent in, each *)
(* of them once, whatever is queued, injected or carried into a follow-up  *)
(* turn meanwhile, unless an owner was dropped: what is queued then comes  *)
(* after the text of the next turn.                                        *)
OrderKept == NoneDropped => arrived = history \o OwnerTexts \o queued

Elements(q) == {q[i] : i \in DOMAIN q}

(* Even when owners are dropped: no text is doubled, and the only ones     *)
(* missing are those a dropped owner had already taken.                    *)
NothingDoubled ==
    LET all == history \o OwnerTexts \o queued
    IN  /\ \A i, j \in DOMAIN all : all[i] = all[j] => i = j
        /\ Elements(all) \cap lost = {}
        /\ Elements(all) \cup lost = Elements(arrived)

(* Once a stop request for a turn has returned, no poll gets past the stop *)
(* any more, wherever between reading the flag, going to sleep and being   *)
(* woken the turn was at that moment: the only request that can still go   *)
(* out, and the only event still handled, is that of a poll which had      *)
(* looked for the stop before.                                             *)
NoSendAfterStop ==
    [][\A s \in Senders : stopped /\ pc[s] # "polled" => pc'[s] # "polled" /\ ~Send(s)]_vars

(* When no turn runs, texts the AI has not seen are those of a turn that   *)
(* was stopped in its very first round: a text injected into a later round *)
(* gets a follow-up turn (the comment at StoppedBeforeSend).  A dropped    *)
(* owner gets none.                                                        *)
LastOwner ==
    CHOOSE s \in Senders :
        \E i \in DOMAIN arrived :
            /\ arrived[i] = s /\ frame[s].round > 0
            /\ \A j \in (i + 1)..Len(arrived) : frame[arrived[j]].round = 0

InjectedGetSeen ==
    ~running /\ NoneDropped /\ seen < Len(history) => stop /\ frame[LastOwner].round = 1

(* A stop ends the turn, also when it comes between the check of the flag  *)
(* and the wait, and also when the provider never sends another event.     *)
StopEndsTurn == stop /\ running ~> ~running \/ ~stop

(* If streams end, a queued text gets into the history, by a later round   *)
(* or by a follow-up turn, unless it is lost with a dropped owner or the   *)
(* session is left without a turn by one.                                  *)
QueuedGetsSent ==
    StreamsEnd => \A s \in Senders :
        pc[s] = "recordQueued" ~> s \in Elements(history) \/ ~NoneDropped
=============================================================================
