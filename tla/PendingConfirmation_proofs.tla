--------------------- MODULE PendingConfirmation_proofs ---------------------
(***************************************************************************)
(* Proofs about PendingConfirmation, for any number of waits, keys and     *)
(* calls, and whether or not waits share keys.                             *)
(***************************************************************************)
EXTENDS PendingConfirmation, TLAPS

(* A sender is in one place: in the map, under its own key and with its    *)
(* own generation, ...                                                     *)
EntryInv ==
    \A k \in Keys : pending[k] # NoEntry =>
        LET w == pending[k].sender
        IN  /\ KeyOf[w] = k
            /\ pending[k].generation = generation[w]
            /\ pc[w] \in {"registered", "waiting", "elapsed", "dropIndicator", "dropEntry"}
            /\ chan[w] \in {"open", "closed"}

(* ... or in the hands of one resolve call, ...                            *)
HoldingInv ==
    \A c \in Calls : call[c].state = "holding" =>
        LET w == call[c].sender
        IN  /\ w \in Waiters
            /\ call[c].decision \in Decisions
            /\ pc[w] \notin {"new", "drawn"}
            /\ \A k \in Keys : pending[k] # NoEntry => pending[k].sender # w
            /\ \A b \in Calls : call[b].state \in {"holding", "ok"} /\ call[b].sender = w => b = c

(* ... or used up by one.                                                  *)
AcceptedInv ==
    \A c \in Calls : call[c].state = "ok" =>
        LET w == call[c].sender
        IN  /\ w \in Waiters
            /\ call[c].decision = value[w]
            /\ call[c].decision \in Decisions
            /\ chan[w] \in {"sent", "closed"}
            /\ pc[w] \notin {"new", "drawn"}
            /\ \A k \in Keys : pending[k] # NoEntry => pending[k].sender # w
            /\ \A b \in Calls : call[b].state \in {"holding", "ok"} /\ call[b].sender = w => b = c

(* Generations are unique, so cancel_if_current can tell waits apart.      *)
GenerationInv ==
    \A w \in Waiters : pc[w] # "new" =>
        /\ generation[w] < nextGeneration
        /\ \A v \in Waiters \ {w} : pc[v] # "new" => generation[v] # generation[w]

ChanInv ==
    \A w \in Waiters :
        /\ pc[w] = "new" => chan[w] = "none"
        /\ pc[w] = "drawn" => chan[w] = "open"
        /\ pc[w] \in {"registered", "waiting", "elapsed"} => chan[w] # "closed"
        /\ pc[w] = "finished" => chan[w] = "closed"
        /\ pc[w] # "new" => chan[w] # "none"
        /\ pc[w] \in {"dropReceiver", "finished"} =>
              \A k \in Keys : pending[k] # NoEntry => pending[k].sender # w

ValueInv ==
    \A w \in Waiters :
        /\ chan[w] \in {"none", "open"} => value[w] = NoDecision
        /\ chan[w] = "sent" =>
              \E c \in Calls : /\ call[c].state = "ok"
                               /\ call[c].sender = w
                               /\ call[c].decision = value[w]

OutcomeInv ==
    \A w \in Waiters :
        IF outcome[w].result = "decided" THEN chan[w] = "closed"
                                         ELSE outcome[w].decision = NoDecision

IInv ==
    /\ TypeOK
    /\ EntryInv
    /\ HoldingInv
    /\ AcceptedInv
    /\ GenerationInv
    /\ ChanInv
    /\ ValueInv
    /\ OutcomeInv
    /\ EveryWaitReachable
    /\ DecisionWasAccepted
USE RegistryAssumption DEF registryVars, waitVars, vars, TypeOK, RegistryTypeOK,
        EntryType, ChanState, CallType, PCState, Results, OutcomeType, Outcome,
        IdleCall, Holds, Registering

(* The invariant holds initially.                                          *)
LEMMA InitIInv == Init => IInv
  BY DEF Init, RegistryInit, IInv, EntryInv, HoldingInv, AcceptedInv, GenerationInv,
         ChanInv, ValueInv, OutcomeInv, EveryWaitReachable, Reachable, DecisionWasAccepted

(* Every step keeps the types.                                             *)
LEMMA TypeStep == TypeOK /\ EntryInv /\ HoldingInv /\ [Next]_vars => TypeOK'
<1> SUFFICES ASSUME TypeOK, EntryInv, HoldingInv, [Next]_vars PROVE TypeOK'
  OBVIOUS
<1>1. ASSUME NEW w \in Waiters, RegisterDraw(w) PROVE TypeOK'
  BY <1>1 DEF RegisterDraw, Goto, DrawGeneration
<1>2. ASSUME NEW w \in Waiters, RegisterInsert(w) PROVE TypeOK'
  BY <1>2 DEF RegisterInsert, Goto, InsertEntry, Orphan
<1>3. ASSUME NEW w \in Waiters, StartWaiting(w) PROVE TypeOK'
  BY <1>3 DEF StartWaiting, Goto
<1>4. ASSUME NEW w \in Waiters, ReceiveDecision(w) PROVE TypeOK'
  BY <1>4 DEF ReceiveDecision, Goto, EndWait, DropReceiver
<1>5. ASSUME NEW w \in Waiters, ReceiveError(w) PROVE TypeOK'
  BY <1>5 DEF ReceiveError, Goto, EndWait, DropReceiver
<1>6. ASSUME NEW w \in Waiters, PollEmptyTimerElapsed(w) PROVE TypeOK'
  BY <1>6 DEF PollEmptyTimerElapsed, Goto
<1>7. ASSUME NEW w \in Waiters, TimeOut(w) PROVE TypeOK'
  BY <1>7 DEF TimeOut, Goto, EndWait, DropReceiver
<1>8. ASSUME NEW w \in Waiters, AbortWaiting(w) PROVE TypeOK'
  BY <1>8 DEF AbortWaiting, Goto, EndWait, DropReceiver
<1>9. ASSUME NEW w \in Waiters, AbortRegistered(w) PROVE TypeOK'
  BY <1>9 DEF AbortRegistered, Goto
<1>10. ASSUME NEW w \in Waiters, DropIndicator(w) PROVE TypeOK'
  BY <1>10 DEF DropIndicator, Goto
<1>11. ASSUME NEW w \in Waiters, DropEntry(w) PROVE TypeOK'
  <2>1. pc' \in [Waiters -> PCState] /\ UNCHANGED <<outcome, indicator, nextGeneration, generation, value, call>>
    BY <1>11 DEF DropEntry, Goto, CancelIfCurrent
  <2>2. CASE OwnEntry(w)
    <3>. DEFINE s == pending[KeyOf[w]].sender
    <3>1. s \in Waiters /\ KeyOf[w] \in Keys
      BY <2>2 DEF OwnEntry
    <3>2. /\ pending' = [pending EXCEPT ![KeyOf[w]] = NoEntry]
          /\ chan' = [chan EXCEPT ![s] = Orphan(s)]
      BY <1>11, <2>2 DEF DropEntry, CancelIfCurrent
    <3>3. Orphan(s) \in ChanState
      BY <3>1 DEF Orphan
    <3>4. pending' \in [Keys -> EntryType \cup {NoEntry}]
      BY <3>1, <3>2
    <3>5. chan' \in [Waiters -> ChanState]
      BY <3>1, <3>2, <3>3
    <3>. QED  BY <2>1, <3>4, <3>5
  <2>3. CASE ~OwnEntry(w)
    BY <1>11, <2>1, <2>3 DEF DropEntry, CancelIfCurrent
  <2>. QED  BY <2>2, <2>3
<1>12. ASSUME NEW w \in Waiters, DropReceiverLate(w) PROVE TypeOK'
  BY <1>12 DEF DropReceiverLate, Goto, DropReceiver
<1>13. ASSUME NEW c \in Calls, NEW k \in Keys, NEW d \in Decisions,
              TakeSender(c, k, d), UNCHANGED waitVars
       PROVE TypeOK'
  BY <1>13 DEF TakeSender
<1>14. ASSUME NEW c \in Calls, SendAnswer(c), UNCHANGED waitVars PROVE TypeOK'
  <2>. DEFINE w == call[c].sender
  <2>1. call[c].state = "holding" /\ w \in Waiters /\ call[c].decision \in Decisions
    BY <1>14 DEF SendAnswer, HoldingInv
  <2>2. UNCHANGED <<pending, nextGeneration, generation, pc, outcome, indicator>>
    BY <1>14 DEF SendAnswer
  <2>3. CASE chan[w] = "open"
    <3>1. /\ chan' = [chan EXCEPT ![w] = "sent"]
          /\ value' = [value EXCEPT ![w] = call[c].decision]
          /\ call' = [call EXCEPT ![c].state = "ok"]
      BY <1>14, <2>3 DEF SendAnswer
    <3>2. chan' \in [Waiters -> ChanState] /\ value' \in [Waiters -> Decisions \cup {NoDecision}]
      BY <2>1, <3>1
    <3>3. call' \in [Calls -> CallType]
      BY <3>1
    <3>. QED  BY <2>2, <3>2, <3>3
  <2>4. CASE chan[w] # "open"
    <3>1. call' = [call EXCEPT ![c].state = "ended"] /\ UNCHANGED <<chan, value>>
      BY <1>14, <2>4 DEF SendAnswer
    <3>2. call[c] \in CallType
      OBVIOUS
    <3>3. [call[c] EXCEPT !.state = "ended"] \in CallType
      BY <3>2
    <3>4. call' \in [Calls -> CallType]
      BY <3>1, <3>3
    <3>. QED  BY <2>2, <3>1, <3>4
  <2>. QED  BY <2>3, <2>4
<1>15. CASE UNCHANGED vars
  BY <1>15
<1>. QED
  BY <1>1, <1>2, <1>3, <1>4, <1>5, <1>6, <1>7, <1>8, <1>9, <1>10, <1>11, <1>12, <1>13,
     <1>14, <1>15 DEF Next, Progress, Wait, Cleanup, Answer, Resolve, Finished
(* Every step keeps the invariant, one step of the proof per action.       *)
LEMMA IInvStep == IInv /\ [Next]_vars => IInv'
<1> SUFFICES ASSUME IInv, [Next]_vars PROVE IInv'
  OBVIOUS
<1>. USE DEF IInv
<1>0. TypeOK'
  BY TypeStep
<1>1. ASSUME NEW w \in Waiters, RegisterDraw(w) PROVE IInv'
  <2>1. EntryInv'
    BY <1>1 DEF RegisterDraw, Goto, DrawGeneration, EntryInv
  <2>2. HoldingInv'
    BY <1>1 DEF RegisterDraw, Goto, DrawGeneration, HoldingInv
  <2>3. AcceptedInv'
    BY <1>1 DEF RegisterDraw, Goto, DrawGeneration, AcceptedInv
  <2>4. GenerationInv'
    BY <1>1 DEF RegisterDraw, Goto, DrawGeneration, GenerationInv
  <2>5. ChanInv'
    BY <1>1 DEF RegisterDraw, Goto, DrawGeneration, ChanInv
  <2>6. ValueInv'
    BY <1>1 DEF RegisterDraw, Goto, DrawGeneration, ValueInv, ChanInv
  <2>7. OutcomeInv'
    BY <1>1 DEF RegisterDraw, Goto, DrawGeneration, OutcomeInv, ChanInv
  <2>8. EveryWaitReachable'
    BY <1>1 DEF RegisterDraw, Goto, DrawGeneration, EveryWaitReachable, Reachable
  <2>9. DecisionWasAccepted'
    BY <1>1 DEF RegisterDraw, Goto, DrawGeneration, DecisionWasAccepted
  <2>. QED  BY <1>0, <2>1, <2>2, <2>3, <2>4, <2>5, <2>6, <2>7, <2>8, <2>9
<1>2. ASSUME NEW w \in Waiters, RegisterInsert(w) PROVE IInv'
  <2>0. /\ pc[w] = "drawn" /\ chan[w] = "open" /\ KeyOf[w] \in Keys
        /\ pending[KeyOf[w]] # NoEntry => pending[KeyOf[w]].sender \in Waiters \ {w}
    BY <1>2 DEF RegisterInsert, Goto, ChanInv, EntryInv
  <2>1. EntryInv'
    BY <1>2, <2>0 DEF RegisterInsert, Goto, InsertEntry, Orphan, EntryInv, ChanInv
  <2>2. HoldingInv'
    BY <1>2 DEF RegisterInsert, Goto, InsertEntry, Orphan, HoldingInv
  <2>3. AcceptedInv'
    BY <1>2 DEF RegisterInsert, Goto, InsertEntry, Orphan, AcceptedInv
  <2>4. GenerationInv'
    BY <1>2 DEF RegisterInsert, Goto, InsertEntry, Orphan, GenerationInv
  <2>5. ChanInv'
    BY <1>2, <2>0 DEF RegisterInsert, Goto, InsertEntry, Orphan, ChanInv, EntryInv
  <2>6. ValueInv'
    BY <1>2 DEF RegisterInsert, Goto, InsertEntry, Orphan, ValueInv
  <2>7. OutcomeInv'
    BY <1>2 DEF RegisterInsert, Goto, InsertEntry, Orphan, OutcomeInv
  <2>8. EveryWaitReachable'
    BY <1>2 DEF RegisterInsert, Goto, InsertEntry, Orphan, EveryWaitReachable, Reachable
  <2>9. DecisionWasAccepted'
    BY <1>2 DEF RegisterInsert, Goto, InsertEntry, Orphan, DecisionWasAccepted
  <2>. QED  BY <1>0, <2>1, <2>2, <2>3, <2>4, <2>5, <2>6, <2>7, <2>8, <2>9
<1>3. ASSUME NEW w \in Waiters, StartWaiting(w) PROVE IInv'
  <2>1. EntryInv'
    BY <1>3 DEF StartWaiting, Goto, EntryInv
  <2>2. HoldingInv'
    BY <1>3 DEF StartWaiting, Goto, HoldingInv
  <2>3. AcceptedInv'
    BY <1>3 DEF StartWaiting, Goto, AcceptedInv
  <2>4. GenerationInv'
    BY <1>3 DEF StartWaiting, Goto, GenerationInv
  <2>5. ChanInv'
    BY <1>3 DEF StartWaiting, Goto, ChanInv
  <2>6. ValueInv'
    BY <1>3 DEF StartWaiting, Goto, ValueInv
  <2>7. OutcomeInv'
    BY <1>3 DEF StartWaiting, Goto, OutcomeInv
  <2>8. EveryWaitReachable'
    BY <1>3 DEF StartWaiting, Goto, EveryWaitReachable, Reachable
  <2>9. DecisionWasAccepted'
    BY <1>3 DEF StartWaiting, Goto, DecisionWasAccepted
  <2>. QED  BY <1>0, <2>1, <2>2, <2>3, <2>4, <2>5, <2>6, <2>7, <2>8, <2>9
<1>4. ASSUME NEW w \in Waiters, ReceiveDecision(w) PROVE IInv'
  <2>1. EntryInv'
    BY <1>4 DEF ReceiveDecision, Goto, EndWait, DropReceiver, EntryInv
  <2>2. HoldingInv'
    BY <1>4 DEF ReceiveDecision, Goto, EndWait, DropReceiver, HoldingInv
  <2>3. AcceptedInv'
    BY <1>4 DEF ReceiveDecision, Goto, EndWait, DropReceiver, AcceptedInv
  <2>4. GenerationInv'
    BY <1>4 DEF ReceiveDecision, Goto, EndWait, DropReceiver, GenerationInv
  <2>5. ChanInv'
    BY <1>4 DEF ReceiveDecision, Goto, EndWait, DropReceiver, ChanInv
  <2>6. ValueInv'
    BY <1>4 DEF ReceiveDecision, Goto, EndWait, DropReceiver, ValueInv
  <2>7. OutcomeInv'
    BY <1>4 DEF ReceiveDecision, Goto, EndWait, DropReceiver, OutcomeInv
  <2>8. EveryWaitReachable'
    BY <1>4 DEF ReceiveDecision, Goto, EndWait, DropReceiver, EveryWaitReachable, Reachable
  <2>9. DecisionWasAccepted'
    BY <1>4 DEF ReceiveDecision, Goto, EndWait, DropReceiver, DecisionWasAccepted, ValueInv
  <2>. QED  BY <1>0, <2>1, <2>2, <2>3, <2>4, <2>5, <2>6, <2>7, <2>8, <2>9
<1>5. ASSUME NEW w \in Waiters, ReceiveError(w) PROVE IInv'
  <2>1. EntryInv'
    BY <1>5 DEF ReceiveError, Goto, EndWait, DropReceiver, EntryInv
  <2>2. HoldingInv'
    BY <1>5 DEF ReceiveError, Goto, EndWait, DropReceiver, HoldingInv
  <2>3. AcceptedInv'
    BY <1>5 DEF ReceiveError, Goto, EndWait, DropReceiver, AcceptedInv
  <2>4. GenerationInv'
    BY <1>5 DEF ReceiveError, Goto, EndWait, DropReceiver, GenerationInv
  <2>5. ChanInv'
    BY <1>5 DEF ReceiveError, Goto, EndWait, DropReceiver, ChanInv
  <2>6. ValueInv'
    BY <1>5 DEF ReceiveError, Goto, EndWait, DropReceiver, ValueInv
  <2>7. OutcomeInv'
    BY <1>5 DEF ReceiveError, Goto, EndWait, DropReceiver, OutcomeInv
  <2>8. EveryWaitReachable'
    BY <1>5 DEF ReceiveError, Goto, EndWait, DropReceiver, EveryWaitReachable, Reachable
  <2>9. DecisionWasAccepted'
    BY <1>5 DEF ReceiveError, Goto, EndWait, DropReceiver, DecisionWasAccepted
  <2>. QED  BY <1>0, <2>1, <2>2, <2>3, <2>4, <2>5, <2>6, <2>7, <2>8, <2>9
<1>6. ASSUME NEW w \in Waiters, PollEmptyTimerElapsed(w) PROVE IInv'
  <2>1. EntryInv'
    BY <1>6 DEF PollEmptyTimerElapsed, Goto, EntryInv
  <2>2. HoldingInv'
    BY <1>6 DEF PollEmptyTimerElapsed, Goto, HoldingInv
  <2>3. AcceptedInv'
    BY <1>6 DEF PollEmptyTimerElapsed, Goto, AcceptedInv
  <2>4. GenerationInv'
    BY <1>6 DEF PollEmptyTimerElapsed, Goto, GenerationInv
  <2>5. ChanInv'
    BY <1>6 DEF PollEmptyTimerElapsed, Goto, ChanInv
  <2>6. ValueInv'
    BY <1>6 DEF PollEmptyTimerElapsed, Goto, ValueInv
  <2>7. OutcomeInv'
    BY <1>6 DEF PollEmptyTimerElapsed, Goto, OutcomeInv
  <2>8. EveryWaitReachable'
    BY <1>6 DEF PollEmptyTimerElapsed, Goto, EveryWaitReachable, Reachable
  <2>9. DecisionWasAccepted'
    BY <1>6 DEF PollEmptyTimerElapsed, Goto, DecisionWasAccepted
  <2>. QED  BY <1>0, <2>1, <2>2, <2>3, <2>4, <2>5, <2>6, <2>7, <2>8, <2>9
<1>7. ASSUME NEW w \in Waiters, TimeOut(w) PROVE IInv'
  <2>1. EntryInv'
    BY <1>7 DEF TimeOut, Goto, EndWait, DropReceiver, EntryInv
  <2>2. HoldingInv'
    BY <1>7 DEF TimeOut, Goto, EndWait, DropReceiver, HoldingInv
  <2>3. AcceptedInv'
    BY <1>7 DEF TimeOut, Goto, EndWait, DropReceiver, AcceptedInv
  <2>4. GenerationInv'
    BY <1>7 DEF TimeOut, Goto, EndWait, DropReceiver, GenerationInv
  <2>5. ChanInv'
    BY <1>7 DEF TimeOut, Goto, EndWait, DropReceiver, ChanInv
  <2>6. ValueInv'
    BY <1>7 DEF TimeOut, Goto, EndWait, DropReceiver, ValueInv
  <2>7. OutcomeInv'
    BY <1>7 DEF TimeOut, Goto, EndWait, DropReceiver, OutcomeInv
  <2>8. EveryWaitReachable'
    BY <1>7 DEF TimeOut, Goto, EndWait, DropReceiver, EveryWaitReachable, Reachable
  <2>9. DecisionWasAccepted'
    BY <1>7 DEF TimeOut, Goto, EndWait, DropReceiver, DecisionWasAccepted
  <2>. QED  BY <1>0, <2>1, <2>2, <2>3, <2>4, <2>5, <2>6, <2>7, <2>8, <2>9
<1>8. ASSUME NEW w \in Waiters, AbortWaiting(w) PROVE IInv'
  <2>1. EntryInv'
    BY <1>8 DEF AbortWaiting, Goto, EndWait, DropReceiver, EntryInv
  <2>2. HoldingInv'
    BY <1>8 DEF AbortWaiting, Goto, EndWait, DropReceiver, HoldingInv
  <2>3. AcceptedInv'
    BY <1>8 DEF AbortWaiting, Goto, EndWait, DropReceiver, AcceptedInv
  <2>4. GenerationInv'
    BY <1>8 DEF AbortWaiting, Goto, EndWait, DropReceiver, GenerationInv
  <2>5. ChanInv'
    BY <1>8 DEF AbortWaiting, Goto, EndWait, DropReceiver, ChanInv
  <2>6. ValueInv'
    BY <1>8 DEF AbortWaiting, Goto, EndWait, DropReceiver, ValueInv
  <2>7. OutcomeInv'
    BY <1>8 DEF AbortWaiting, Goto, EndWait, DropReceiver, OutcomeInv
  <2>8. EveryWaitReachable'
    BY <1>8 DEF AbortWaiting, Goto, EndWait, DropReceiver, EveryWaitReachable, Reachable
  <2>9. DecisionWasAccepted'
    BY <1>8 DEF AbortWaiting, Goto, EndWait, DropReceiver, DecisionWasAccepted
  <2>. QED  BY <1>0, <2>1, <2>2, <2>3, <2>4, <2>5, <2>6, <2>7, <2>8, <2>9
<1>9. ASSUME NEW w \in Waiters, AbortRegistered(w) PROVE IInv'
  <2>1. EntryInv'
    BY <1>9 DEF AbortRegistered, Goto, EntryInv
  <2>2. HoldingInv'
    BY <1>9 DEF AbortRegistered, Goto, HoldingInv
  <2>3. AcceptedInv'
    BY <1>9 DEF AbortRegistered, Goto, AcceptedInv
  <2>4. GenerationInv'
    BY <1>9 DEF AbortRegistered, Goto, GenerationInv
  <2>5. ChanInv'
    BY <1>9 DEF AbortRegistered, Goto, ChanInv
  <2>6. ValueInv'
    BY <1>9 DEF AbortRegistered, Goto, ValueInv
  <2>7. OutcomeInv'
    BY <1>9 DEF AbortRegistered, Goto, OutcomeInv
  <2>8. EveryWaitReachable'
    BY <1>9 DEF AbortRegistered, Goto, EveryWaitReachable, Reachable
  <2>9. DecisionWasAccepted'
    BY <1>9 DEF AbortRegistered, Goto, DecisionWasAccepted
  <2>. QED  BY <1>0, <2>1, <2>2, <2>3, <2>4, <2>5, <2>6, <2>7, <2>8, <2>9
<1>10. ASSUME NEW w \in Waiters, DropIndicator(w) PROVE IInv'
  <2>1. EntryInv'
    BY <1>10 DEF DropIndicator, Goto, EntryInv
  <2>2. HoldingInv'
    BY <1>10 DEF DropIndicator, Goto, HoldingInv
  <2>3. AcceptedInv'
    BY <1>10 DEF DropIndicator, Goto, AcceptedInv
  <2>4. GenerationInv'
    BY <1>10 DEF DropIndicator, Goto, GenerationInv
  <2>5. ChanInv'
    BY <1>10 DEF DropIndicator, Goto, ChanInv
  <2>6. ValueInv'
    BY <1>10 DEF DropIndicator, Goto, ValueInv
  <2>7. OutcomeInv'
    BY <1>10 DEF DropIndicator, Goto, OutcomeInv
  <2>8. EveryWaitReachable'
    BY <1>10 DEF DropIndicator, Goto, EveryWaitReachable, Reachable
  <2>9. DecisionWasAccepted'
    BY <1>10 DEF DropIndicator, Goto, DecisionWasAccepted
  <2>. QED  BY <1>0, <2>1, <2>2, <2>3, <2>4, <2>5, <2>6, <2>7, <2>8, <2>9
<1>11. ASSUME NEW w \in Waiters, DropEntry(w) PROVE IInv'
  <2>0. /\ pc[w] = "dropEntry" /\ KeyOf[w] \in Keys
        /\ OwnEntry(w) => pending[KeyOf[w]].sender = w
    BY <1>11 DEF DropEntry, Goto, OwnEntry, EntryInv, GenerationInv
  <2>1. EntryInv'
    BY <1>11 DEF DropEntry, Goto, CancelIfCurrent, OwnEntry, Orphan, EntryInv
  <2>2. HoldingInv'
    BY <1>11 DEF DropEntry, Goto, CancelIfCurrent, OwnEntry, Orphan, HoldingInv
  <2>3. AcceptedInv'
    BY <1>11 DEF DropEntry, Goto, CancelIfCurrent, OwnEntry, Orphan, AcceptedInv
  <2>4. GenerationInv'
    BY <1>11 DEF DropEntry, Goto, CancelIfCurrent, OwnEntry, Orphan, GenerationInv
  <2>5. ChanInv'
    BY <1>11, <2>0 DEF DropEntry, Goto, CancelIfCurrent, OwnEntry, Orphan, ChanInv, EntryInv
  <2>6. ValueInv'
    BY <1>11 DEF DropEntry, Goto, CancelIfCurrent, OwnEntry, Orphan, ValueInv
  <2>7. OutcomeInv'
    BY <1>11 DEF DropEntry, Goto, CancelIfCurrent, OwnEntry, Orphan, OutcomeInv
  <2>8. EveryWaitReachable'
    BY <1>11 DEF DropEntry, Goto, CancelIfCurrent, OwnEntry, Orphan, EveryWaitReachable, Reachable
  <2>9. DecisionWasAccepted'
    BY <1>11 DEF DropEntry, Goto, CancelIfCurrent, OwnEntry, Orphan, DecisionWasAccepted
  <2>. QED  BY <1>0, <2>1, <2>2, <2>3, <2>4, <2>5, <2>6, <2>7, <2>8, <2>9
<1>12. ASSUME NEW w \in Waiters, DropReceiverLate(w) PROVE IInv'
  <2>1. EntryInv'
    BY <1>12 DEF DropReceiverLate, Goto, DropReceiver, EntryInv
  <2>2. HoldingInv'
    BY <1>12 DEF DropReceiverLate, Goto, DropReceiver, HoldingInv
  <2>3. AcceptedInv'
    BY <1>12 DEF DropReceiverLate, Goto, DropReceiver, AcceptedInv
  <2>4. GenerationInv'
    BY <1>12 DEF DropReceiverLate, Goto, DropReceiver, GenerationInv
  <2>5. ChanInv'
    BY <1>12 DEF DropReceiverLate, Goto, DropReceiver, ChanInv
  <2>6. ValueInv'
    BY <1>12 DEF DropReceiverLate, Goto, DropReceiver, ValueInv
  <2>7. OutcomeInv'
    BY <1>12 DEF DropReceiverLate, Goto, DropReceiver, OutcomeInv
  <2>8. EveryWaitReachable'
    BY <1>12 DEF DropReceiverLate, Goto, DropReceiver, EveryWaitReachable, Reachable
  <2>9. DecisionWasAccepted'
    BY <1>12 DEF DropReceiverLate, Goto, DropReceiver, DecisionWasAccepted
  <2>. QED  BY <1>0, <2>1, <2>2, <2>3, <2>4, <2>5, <2>6, <2>7, <2>8, <2>9
<1>13. ASSUME NEW c \in Calls, NEW k \in Keys, NEW d \in Decisions,
              TakeSender(c, k, d), UNCHANGED waitVars
       PROVE IInv'
  <2>0. pending[k] # NoEntry =>
          LET v == pending[k].sender
          IN  /\ v \in Waiters /\ KeyOf[v] = k
              /\ \A j \in Keys \ {k} : pending[j] # NoEntry => pending[j].sender # v
              /\ \A b \in Calls : call[b].state \in {"holding", "ok"} => call[b].sender # v
    BY DEF EntryInv, HoldingInv, AcceptedInv
  <2>1. EntryInv'
    BY <1>13 DEF TakeSender, EntryInv
  <2>2. HoldingInv'
    BY <1>13, <2>0, SMTT(40) DEF TakeSender, HoldingInv, EntryInv, AcceptedInv
  <2>3. AcceptedInv'
    BY <1>13 DEF TakeSender, AcceptedInv
  <2>4. GenerationInv'
    BY <1>13 DEF TakeSender, GenerationInv
  <2>5. ChanInv'
    BY <1>13 DEF TakeSender, ChanInv
  <2>6. ValueInv'
    BY <1>13 DEF TakeSender, ValueInv
  <2>7. OutcomeInv'
    BY <1>13 DEF TakeSender, OutcomeInv
  <2>8. EveryWaitReachable'
    BY <1>13 DEF TakeSender, EveryWaitReachable, Reachable
  <2>9. DecisionWasAccepted'
    BY <1>13 DEF TakeSender, DecisionWasAccepted
  <2>. QED  BY <1>0, <2>1, <2>2, <2>3, <2>4, <2>5, <2>6, <2>7, <2>8, <2>9
<1>14. ASSUME NEW c \in Calls, SendAnswer(c), UNCHANGED waitVars PROVE IInv'
  <2>. DEFINE w == call[c].sender
  <2>0. /\ call[c].state = "holding" /\ w \in Waiters /\ call[c].decision \in Decisions
        /\ pc[w] \notin {"new", "drawn"}
        /\ \A k \in Keys : pending[k] # NoEntry => pending[k].sender # w
        /\ \A b \in Calls \ {c} : call[b].state \in {"holding", "ok"} => call[b].sender # w
        /\ UNCHANGED <<pending, nextGeneration, generation, pc, outcome, indicator>>
    BY <1>14 DEF SendAnswer, HoldingInv
  <2>10. /\ call' = [call EXCEPT ![c].state = IF chan[w] = "open" THEN "ok" ELSE "ended"]
         /\ chan' = IF chan[w] = "open" THEN [chan EXCEPT ![w] = "sent"] ELSE chan
         /\ value' = IF chan[w] = "open" THEN [value EXCEPT ![w] = call[c].decision] ELSE value
    BY <1>14 DEF SendAnswer
  <2>11. /\ call'[c].sender = w /\ call'[c].decision = call[c].decision
         /\ call'[c].state = IF chan[w] = "open" THEN "ok" ELSE "ended"
         /\ \A b \in Calls \ {c} : call'[b] = call[b]
    BY <2>10
  <2>12. /\ \A v \in Waiters \ {w} : chan'[v] = chan[v] /\ value'[v] = value[v]
         /\ chan'[w] = IF chan[w] = "open" THEN "sent" ELSE chan[w]
         /\ value'[w] = IF chan[w] = "open" THEN call[c].decision ELSE value[w]
    BY <2>0, <2>10
  <2>1. EntryInv'
    BY <2>0, <2>11, <2>12 DEF EntryInv
  <2>2. HoldingInv'
    <3>1. \A b \in Calls : call'[b].state = "holding" => b # c /\ call'[b] = call[b]
      BY <2>11
    <3>. QED  BY <2>0, <2>11, <3>1 DEF HoldingInv
  <2>3. AcceptedInv'
    <3>1. ASSUME NEW b \in Calls \ {c}, call'[b].state = "ok"
          PROVE  LET v == call'[b].sender
                 IN  /\ call[b].state = "ok" /\ call'[b] = call[b] /\ v \in Waiters
                     /\ v # w /\ chan'[v] = chan[v] /\ value'[v] = value[v]
      BY <2>0, <2>11, <2>12, <3>1 DEF AcceptedInv
    <3>2. ASSUME NEW b \in Calls \ {c}, call'[b].state = "ok"
          PROVE  LET v == call'[b].sender
                 IN  \A a \in Calls : call'[a].state \in {"holding", "ok"} /\ call'[a].sender = v => a = b
      BY <2>11, <3>1, <3>2 DEF AcceptedInv
    <3>3. call'[c].state = "ok" => chan[w] = "open"
      BY <2>11
    <3>. QED  BY <2>0, <2>11, <2>12, <3>1, <3>2, <3>3 DEF AcceptedInv
  <2>4. GenerationInv'
    BY <1>14 DEF SendAnswer, GenerationInv
  <2>5. ChanInv'
    BY <2>0, <2>11, <2>12 DEF ChanInv
  <2>6. ValueInv'
    <3>1. ASSUME NEW v \in Waiters \ {w}, chan'[v] = "sent"
          PROVE  \E b \in Calls : call'[b].state = "ok" /\ call'[b].sender = v /\ call'[b].decision = value'[v]
      <4>1. PICK b \in Calls : call[b].state = "ok" /\ call[b].sender = v /\ call[b].decision = value[v]
        BY <2>12, <3>1 DEF ValueInv
      <4>2. b # c
        BY <2>0, <4>1
      <4>. QED  BY <2>11, <2>12, <4>1, <4>2
    <3>2. ASSUME chan'[w] = "sent"
          PROVE  \E b \in Calls : call'[b].state = "ok" /\ call'[b].sender = w /\ call'[b].decision = value'[w]
      <4>1. chan[w] = "open"
        BY <2>0, <2>12, <3>2 DEF ValueInv
      <4>. QED  BY <2>11, <2>12, <4>1
    <3>3. \A v \in Waiters : chan'[v] \in {"none", "open"} => value'[v] = NoDecision
      BY <2>0, <2>12 DEF ValueInv
    <3>. QED  BY <3>1, <3>2, <3>3 DEF ValueInv
  <2>7. OutcomeInv'
    BY <1>14 DEF SendAnswer, OutcomeInv
  <2>8. EveryWaitReachable'
    <3>1. pending' = pending /\ Registering' = Registering
      BY <1>14 DEF SendAnswer, waitVars, Registering
    <3>2. SUFFICES ASSUME NEW v \in Waiters \ Registering, chan'[v] = "open"
                   PROVE  \/ pending[KeyOf[v]] # NoEntry /\ pending[KeyOf[v]].sender = v
                          \/ \E b \in Calls : Holds(b, v)'
      BY <3>1 DEF EveryWaitReachable, Reachable
    <3>3. chan[v] = "open" /\ v # w
      BY <2>0, <2>12, <3>2
    <3>4. CASE pending[KeyOf[v]] # NoEntry /\ pending[KeyOf[v]].sender = v
      BY <3>4
    <3>5. ASSUME NEW b \in Calls, Holds(b, v)
          PROVE  Holds(b, v)'
      <4>1. b # c
        BY <3>3, <3>5 DEF Holds
      <4>. QED  BY <2>11, <3>5, <4>1 DEF Holds
    <3>. QED  BY <3>2, <3>3, <3>4, <3>5 DEF EveryWaitReachable, Reachable
  <2>9. DecisionWasAccepted'
    BY <1>14 DEF SendAnswer, DecisionWasAccepted
  <2>. QED  BY <1>0, <2>1, <2>2, <2>3, <2>4, <2>5, <2>6, <2>7, <2>8, <2>9
<1>15. CASE UNCHANGED vars
  <2>1. EntryInv'
    BY <1>15 DEF vars, EntryInv
  <2>2. HoldingInv'
    BY <1>15 DEF vars, HoldingInv
  <2>3. AcceptedInv'
    BY <1>15 DEF vars, AcceptedInv
  <2>4. GenerationInv'
    BY <1>15 DEF vars, GenerationInv
  <2>5. ChanInv'
    BY <1>15 DEF vars, ChanInv
  <2>6. ValueInv'
    BY <1>15 DEF vars, ValueInv
  <2>7. OutcomeInv'
    BY <1>15 DEF vars, OutcomeInv
  <2>8. EveryWaitReachable'
    BY <1>15 DEF vars, EveryWaitReachable, Reachable
  <2>9. DecisionWasAccepted'
    BY <1>15 DEF vars, DecisionWasAccepted
  <2>. QED  BY <1>0, <2>1, <2>2, <2>3, <2>4, <2>5, <2>6, <2>7, <2>8, <2>9
<1>. QED
  BY <1>1, <1>2, <1>3, <1>4, <1>5, <1>6, <1>7, <1>8, <1>9, <1>10, <1>11, <1>12, <1>13, <1>14, <1>15 DEF Next, Progress, Wait, Cleanup, Answer, Resolve, Finished

(* The types, for any number of waits, keys and calls.                     *)
THEOREM TypeCorrect == Spec => []TypeOK
<1>1. Spec => []IInv
  BY InitIInv, IInvStep, PTL DEF Spec
<1>2. IInv => TypeOK
  BY DEF IInv
<1>. QED
  BY <1>1, <1>2, PTL

(* An open question is always answerable.                                  *)
THEOREM WaitsReachable == Spec => []EveryWaitReachable
<1>1. Spec => []IInv
  BY InitIInv, IInvStep, PTL DEF Spec
<1>2. IInv => EveryWaitReachable
  BY DEF IInv
<1>. QED
  BY <1>1, <1>2, PTL

(* At most one resolve call succeeds for one registration.                 *)
THEOREM OneAccepted == Spec => []AtMostOneAccepted
<1>1. Spec => []IInv
  BY InitIInv, IInvStep, PTL DEF Spec
<1>2. IInv => AtMostOneAccepted
  BY DEF IInv, AcceptedInv, AtMostOneAccepted
<1>. QED
  BY <1>1, <1>2, PTL

(* A decision a wait acts upon was accepted for exactly this wait.         *)
THEOREM DecisionsAccepted == Spec => []DecisionWasAccepted
<1>1. Spec => []IInv
  BY InitIInv, IInvStep, PTL DEF Spec
<1>2. IInv => DecisionWasAccepted
  BY DEF IInv
<1>. QED
  BY <1>1, <1>2, PTL

(* A finished wait leaves nothing behind.                                  *)
THEOREM NothingLeftBehind == Spec => []NoDeadEntry
<1>1. Spec => []IInv
  BY InitIInv, IInvStep, PTL DEF Spec
<1>2. IInv => NoDeadEntry
  BY DEF IInv, ChanInv, NoDeadEntry
<1>. QED
  BY <1>1, <1>2, PTL

(* The clean-up of one wait never removes the entry of another.            *)
THEOREM CleanupSafe == Spec => CleanupLeavesOthersAlone
<1>1. Spec => []IInv
  BY InitIInv, IInvStep, PTL DEF Spec
<1>. DEFINE Safe == \A w, v \in Waiters :
               /\ v # w /\ pending[KeyOf[v]] # NoEntry /\ pending[KeyOf[v]].sender = v
               /\ pc[w] = "dropEntry" /\ pc'[w] # "dropEntry"
               => pending'[KeyOf[v]] = pending[KeyOf[v]]
<1>2. IInv /\ [Next]_vars => Safe
  <2> SUFFICES ASSUME IInv, [Next]_vars, NEW w \in Waiters, NEW v \in Waiters,
                      v # w, pending[KeyOf[v]] # NoEntry, pending[KeyOf[v]].sender = v,
                      pc[w] = "dropEntry", pc'[w] # "dropEntry"
               PROVE  pending'[KeyOf[v]] = pending[KeyOf[v]]
    OBVIOUS
  <2>1. DropEntry(w)
    BY ZenonT(60) DEF IInv, Next, Progress, Wait, Cleanup, Answer, Resolve, Finished, Goto, RegisterDraw,
           RegisterInsert, StartWaiting, ReceiveDecision, ReceiveError, PollEmptyTimerElapsed,
           TimeOut, AbortWaiting, AbortRegistered, DropIndicator, DropEntry, DropReceiverLate
  <2>2. OwnEntry(w) => pending[KeyOf[w]].sender = w
    BY DEF IInv, OwnEntry, EntryInv, GenerationInv
  <2>. QED
    BY <2>1, <2>2 DEF IInv, DropEntry, CancelIfCurrent
<1>3. Spec => [][Safe]_vars
  BY <1>1, <1>2, PTL DEF Spec
<1>. QED
  BY <1>3 DEF CleanupLeavesOthersAlone

(* What one step does to the places of the waits and to the indicator: it  *)
(* moves one wait, or none.                                                *)
LEMMA WaitMoves ==
    ASSUME TypeOK, [Next]_vars
    PROVE  \/ UNCHANGED <<pc, indicator>>
           \/ \E w \in Waiters : StartWaiting(w) \/ DropIndicator(w)
           \/ \E w \in Waiters, to \in PCState :
                 /\ pc' = [pc EXCEPT ![w] = to] /\ indicator' = indicator
                 /\ pc[w] \in {"waiting", "elapsed", "dropIndicator"} =>
                       to \in {"waiting", "elapsed", "dropIndicator"}
  BY DEF Next, Progress, Wait, Cleanup, Answer, Resolve, Finished, Goto, RegisterDraw,
         RegisterInsert, ReceiveDecision, ReceiveError, PollEmptyTimerElapsed,
         TimeOut, AbortWaiting, AbortRegistered, DropEntry, DropReceiverLate, EndWait

(* The indicator of the tab points at a wait that is still to be cleaned   *)
(* up, also when waits share a key.                                        *)
THEOREM IndicatorHasWait == Spec => []NoOrphanIndicator
<1>1. Spec => []TypeOK
  BY TypeCorrect
<1>2. Init => NoOrphanIndicator
  BY DEF Init, NoOrphanIndicator
<1>3. TypeOK /\ NoOrphanIndicator /\ [Next]_vars => NoOrphanIndicator'
  <2> SUFFICES ASSUME TypeOK, NoOrphanIndicator, [Next]_vars PROVE NoOrphanIndicator'
    OBVIOUS
  <2>1. CASE UNCHANGED <<pc, indicator>>
    BY <2>1 DEF NoOrphanIndicator
  <2>2. ASSUME NEW w \in Waiters, StartWaiting(w) PROVE NoOrphanIndicator'
    BY <2>2 DEF StartWaiting, Goto, NoOrphanIndicator
  <2>3. ASSUME NEW w \in Waiters, DropIndicator(w) PROVE NoOrphanIndicator'
    BY <2>3 DEF DropIndicator, Goto, NoOrphanIndicator
  <2>4. ASSUME NEW w \in Waiters, NEW to \in PCState,
               pc' = [pc EXCEPT ![w] = to], indicator' = indicator,
               pc[w] \in {"waiting", "elapsed", "dropIndicator"} =>
                  to \in {"waiting", "elapsed", "dropIndicator"}
        PROVE  NoOrphanIndicator'
    BY <2>4 DEF NoOrphanIndicator
  <2> QED
    BY <2>1, <2>2, <2>3, <2>4, WaitMoves
<1> QED
  BY <1>1, <1>2, <1>3, PTL DEF Spec

-----------------------------------------------------------------------------
(* What a wait has left to do, by its place.                               *)
Left == [place \in PCState |->
            CASE place = "new" -> 8 [] place = "drawn" -> 7 [] place = "registered" -> 6
              [] place = "waiting" -> 5 [] place = "elapsed" -> 4
              [] place = "dropIndicator" -> 3 [] place = "dropEntry" -> 2
              [] place = "dropReceiver" -> 1 [] place = "finished" -> 0]

(* The safety half of EveryWaitEnds: a wait that has begun has a way on at *)
(* every moment, be it an answer, a broken channel or the time limit (the  *)
(* places after it have one without any condition), and no step, of its    *)
(* own or of a click, takes a wait back or two waits on at once.           *)
WaitComesCloser ==
    /\ []\A w \in Waiters : pc[w] = "waiting" => chan[w] \in {"sent", "orphaned", "open"}
    /\ [][\A w \in Waiters :
             pc'[w] # pc[w] => /\ Left[pc'[w]] < Left[pc[w]]
                               /\ \A v \in Waiters \ {w} : pc'[v] = pc[v]]_vars

LEMMA LeftAt ==
    /\ Left["new"] = 8 /\ Left["drawn"] = 7 /\ Left["registered"] = 6 /\ Left["waiting"] = 5
    /\ Left["elapsed"] = 4 /\ Left["dropIndicator"] = 3 /\ Left["dropEntry"] = 2
    /\ Left["dropReceiver"] = 1 /\ Left["finished"] = 0
  BY DEF Left

LEMMA OnlyForward ==
    ASSUME TypeOK, [Next]_vars
    PROVE  \/ pc' = pc
           \/ \E w \in Waiters, to \in PCState :
                 pc' = [pc EXCEPT ![w] = to] /\ Left[to] < Left[pc[w]]
<1>1. ASSUME NEW w \in Waiters, RegisterDraw(w) \/ RegisterInsert(w) \/ StartWaiting(w)
      PROVE  \E to \in PCState : pc' = [pc EXCEPT ![w] = to] /\ Left[to] < Left[pc[w]]
  BY <1>1, LeftAt DEF RegisterDraw, RegisterInsert, StartWaiting, Goto
<1>2. ASSUME NEW w \in Waiters, Wait(w) \/ AbortWaiting(w) \/ AbortRegistered(w)
      PROVE  \E to \in PCState : pc' = [pc EXCEPT ![w] = to] /\ Left[to] < Left[pc[w]]
  BY <1>2, LeftAt DEF Wait, ReceiveDecision, ReceiveError, PollEmptyTimerElapsed, TimeOut,
     AbortWaiting, AbortRegistered, Goto
<1>3. ASSUME NEW w \in Waiters, Cleanup(w)
      PROVE  \E to \in PCState : pc' = [pc EXCEPT ![w] = to] /\ Left[to] < Left[pc[w]]
  BY <1>3, LeftAt DEF Cleanup, DropIndicator, DropEntry, DropReceiverLate, Goto
<1>4. ASSUME NEW w \in Waiters, Progress(w) \/ AbortWaiting(w) \/ AbortRegistered(w)
      PROVE  \E to \in PCState : pc' = [pc EXCEPT ![w] = to] /\ Left[to] < Left[pc[w]]
  BY <1>1, <1>2, <1>3, <1>4 DEF Progress
<1>5. CASE (\E c \in Calls : Answer(c)) \/ Finished \/ UNCHANGED vars
  BY <1>5 DEF Answer, Finished
<1> QED
  BY <1>4, <1>5 DEF Next

(* A wait that has begun always has a way on, and each step takes one wait *)
(* closer to its end, by at most eight of its own.                         *)
THEOREM WaitsComeCloser == Spec => WaitComesCloser
<1> DEFINE WayOn == \A w \in Waiters :
                       pc[w] = "waiting" => chan[w] \in {"sent", "orphaned", "open"}
           Closer == \A w \in Waiters :
                        pc'[w] # pc[w] => /\ Left[pc'[w]] < Left[pc[w]]
                                          /\ \A v \in Waiters \ {w} : pc'[v] = pc[v]
<1>1. IInv => WayOn
  BY DEF IInv, ChanInv
<1>2. TypeOK /\ [Next]_vars => [Closer]_vars
  <2> SUFFICES ASSUME TypeOK, [Next]_vars PROVE Closer
    OBVIOUS
  <2>1. CASE pc' = pc
    BY <2>1
  <2>2. ASSUME NEW w \in Waiters, NEW to \in PCState,
               pc' = [pc EXCEPT ![w] = to], Left[to] < Left[pc[w]]
        PROVE  Closer
    BY <2>2
  <2> QED
    BY <2>1, <2>2, OnlyForward
<1> HIDE DEF WayOn, Closer
<1>3. Spec => []IInv
  BY InitIInv, IInvStep, PTL DEF Spec
<1>4. Spec => []WayOn /\ [][Closer]_vars
  BY <1>1, <1>2, <1>3, TypeCorrect, PTL DEF Spec
<1> QED
  BY <1>4 DEF WaitComesCloser, WayOn, Closer

-----------------------------------------------------------------------------
(* A wait that has returned has dropped its receiver; only one that was    *)
(* aborted before it began may still have it.                              *)
Returned(w) == outcome[w].result \in {"decided", "senderDropped", "timedOut"}

ReturnedInv == \A w \in Waiters : Returned(w) => chan[w] = "closed"

LEMMA ReturnedStep == IInv /\ ReturnedInv /\ [Next]_vars => ReturnedInv'
<1> SUFFICES ASSUME IInv, ReturnedInv, [Next]_vars PROVE ReturnedInv'
  OBVIOUS
<1> USE DEF IInv, ReturnedInv, Returned
<1>1. ASSUME NEW w \in Waiters, RegisterDraw(w) PROVE ReturnedInv'
  BY <1>1 DEF RegisterDraw, Goto, DrawGeneration, ChanInv
<1>2. ASSUME NEW w \in Waiters, RegisterInsert(w) PROVE ReturnedInv'
  BY <1>2 DEF RegisterInsert, InsertEntry, Orphan, EntryInv
<1>3. ASSUME NEW w \in Waiters,
             ReceiveDecision(w) \/ ReceiveError(w) \/ TimeOut(w) \/ AbortWaiting(w)
      PROVE  ReturnedInv'
  BY <1>3 DEF ReceiveDecision, ReceiveError, TimeOut, AbortWaiting, EndWait, DropReceiver
<1>4. ASSUME NEW w \in Waiters, AbortRegistered(w) PROVE ReturnedInv'
  BY <1>4 DEF AbortRegistered
<1>5. ASSUME NEW w \in Waiters, DropEntry(w) PROVE ReturnedInv'
  BY <1>5 DEF DropEntry, CancelIfCurrent, Orphan, EntryInv
<1>6. ASSUME NEW w \in Waiters, DropReceiverLate(w) PROVE ReturnedInv'
  BY <1>6 DEF DropReceiverLate, DropReceiver
<1>7. ASSUME NEW c \in Calls, SendAnswer(c), UNCHANGED waitVars PROVE ReturnedInv'
  BY <1>7 DEF SendAnswer, HoldingInv
<1>8. CASE UNCHANGED <<chan, outcome>>
  BY <1>8
<1> QED
  BY <1>1, <1>2, <1>3, <1>4, <1>5, <1>6, <1>7, <1>8
  DEF Next, Progress, Wait, Cleanup, Answer, Resolve, Finished, StartWaiting,
      PollEmptyTimerElapsed, DropIndicator, TakeSender

(* A resolve that comes after the wait has returned never reports success. *)
THEOREM LateAnswers == Spec => LateAnswerRejected
<1>1. Spec => [](IInv /\ ReturnedInv)
  <2>1. Init => ReturnedInv
    BY DEF Init, ReturnedInv, Returned
  <2> QED
    BY <2>1, InitIInv, IInvStep, ReturnedStep, PTL DEF Spec
<1>. DEFINE Rejected == \A c \in Calls :
               /\ call[c].state = "holding"
               /\ outcome[call[c].sender].result \in {"decided", "senderDropped", "timedOut"}
               => call'[c].state # "ok"
<1>2. IInv /\ ReturnedInv /\ [Next]_vars => Rejected
  <2> SUFFICES ASSUME IInv, ReturnedInv, [Next]_vars, NEW c \in Calls,
                      call[c].state = "holding", Returned(call[c].sender)
               PROVE  call'[c].state # "ok"
    BY DEF Returned
  <2>1. chan[call[c].sender] = "closed"
    BY DEF IInv, HoldingInv, ReturnedInv
  <2>2. ASSUME NEW b \in Calls, SendAnswer(b) PROVE call'[c].state # "ok"
    BY <2>1, <2>2 DEF IInv, SendAnswer
  <2>3. ASSUME NEW b \in Calls, NEW k \in Keys, NEW d \in Decisions, TakeSender(b, k, d)
        PROVE  call'[c].state # "ok"
    BY <2>3 DEF IInv, TakeSender
  <2>4. CASE call' = call
    BY <2>4
  <2> QED
    BY <2>2, <2>3, <2>4
    DEF Next, Progress, Wait, Cleanup, Answer, Resolve, Finished, RegisterDraw, RegisterInsert,
        DrawGeneration, InsertEntry, StartWaiting, ReceiveDecision, ReceiveError,
        PollEmptyTimerElapsed, TimeOut, AbortWaiting, AbortRegistered, DropIndicator, DropEntry,
        CancelIfCurrent, DropReceiverLate, DropReceiver, EndWait
<1>3. Spec => [][Rejected]_vars
  BY <1>1, <1>2, PTL DEF Spec
<1>. QED
  BY <1>3 DEF LateAnswerRejected

-----------------------------------------------------------------------------
(* The step of the abstract specification each step stands for: asking,    *)
(* accepting, closing, or none.                                            *)
LEMMA RefinementInit == Init => Abstract!Init
  BY DEF Init, RegistryInit, Abstract!Init

LEMMA RefinementStep == IInv /\ [Next]_vars => [Abstract!Next]_(Abstract!vars)
<1> SUFFICES ASSUME IInv, [Next]_vars PROVE [Abstract!Next]_(Abstract!vars)
  OBVIOUS
<1>. USE DEF IInv, Abstract!vars
<1>1. ASSUME NEW w \in Waiters, RegisterDraw(w) PROVE Abstract!Ask(w)
  BY <1>1, ZenonT(60) DEF RegisterDraw, Goto, DrawGeneration, ChanInv, Abstract!Ask
<1>2. ASSUME NEW w \in Waiters, RegisterInsert(w) PROVE UNCHANGED Abstract!vars
  BY <1>2 DEF RegisterInsert, Goto, InsertEntry, Orphan, EntryInv
<1>3. ASSUME NEW w \in Waiters, ReceiveDecision(w) PROVE Abstract!CloseDecided(w)
  <2>1. /\ chan[w] = "sent" /\ chan' = [chan EXCEPT ![w] = "closed"] /\ value' = value
        /\ outcome' = [outcome EXCEPT ![w] = Outcome("decided", value[w])]
    BY <1>3 DEF ReceiveDecision, EndWait, DropReceiver
  <2>2. value[w] \in Decisions
    BY <2>1 DEF ValueInv, AcceptedInv
  <2>3. outcome'[w].decision = value[w]
    BY <2>1
  <2>. QED
    BY <2>1, <2>2, <2>3 DEF Abstract!CloseDecided
<1>4. ASSUME NEW w \in Waiters, ReceiveError(w) \/ TimeOut(w) \/ AbortWaiting(w)
      PROVE  Abstract!CloseUndecided(w)
  <2>1. /\ chan[w] \notin {"none", "closed"} /\ chan' = [chan EXCEPT ![w] = "closed"]
        /\ value' = value
        /\ \E r \in Results : outcome' = [outcome EXCEPT ![w] = Outcome(r, NoDecision)]
    BY <1>4 DEF ReceiveError, TimeOut, AbortWaiting, Goto, EndWait, DropReceiver, ChanInv
  <2>2. /\ outcome'[w].decision = NoDecision
        /\ \A v \in Waiters \ {w} : outcome'[v] = outcome[v]
    BY <2>1
  <2>. QED
    BY <2>1, <2>2 DEF Abstract!CloseUndecided
<1>5. ASSUME NEW w \in Waiters,
             StartWaiting(w) \/ PollEmptyTimerElapsed(w) \/ DropIndicator(w)
      PROVE  UNCHANGED Abstract!vars
  BY <1>5 DEF StartWaiting, PollEmptyTimerElapsed, DropIndicator, Goto
<1>6. ASSUME NEW w \in Waiters, AbortRegistered(w) PROVE UNCHANGED Abstract!vars
  BY <1>6 DEF AbortRegistered, Goto, ChanInv
<1>7. ASSUME NEW w \in Waiters, DropEntry(w) PROVE UNCHANGED Abstract!vars
  BY <1>7 DEF DropEntry, Goto, CancelIfCurrent, OwnEntry, Orphan, EntryInv
<1>8. ASSUME NEW w \in Waiters, DropReceiverLate(w)
      PROVE  Abstract!CloseUndecided(w) \/ UNCHANGED Abstract!vars
  <2>1. /\ chan[w] # "none" /\ chan' = [chan EXCEPT ![w] = "closed"]
        /\ UNCHANGED <<value, outcome>>
    BY <1>8 DEF DropReceiverLate, Goto, DropReceiver, ChanInv
  <2>2. CASE chan[w] = "closed"
    <3>1. chan' = chan
      BY <2>1, <2>2
    <3>. QED
      BY <2>1, <3>1
  <2>3. CASE chan[w] # "closed"
    <3>1. outcome[w].decision = NoDecision
      BY <2>3 DEF OutcomeInv
    <3>. QED
      BY <2>1, <2>3, <3>1 DEF Abstract!CloseUndecided
  <2>. QED
    BY <2>2, <2>3
<1>9. ASSUME NEW c \in Calls, NEW k \in Keys, NEW d \in Decisions,
             TakeSender(c, k, d), UNCHANGED waitVars
      PROVE  UNCHANGED Abstract!vars
  BY <1>9 DEF TakeSender
<1>10. ASSUME NEW c \in Calls, SendAnswer(c), UNCHANGED waitVars
       PROVE  \/ Abstract!Accept(call[c].sender, call[c].decision)
              \/ UNCHANGED Abstract!vars
  BY <1>10 DEF SendAnswer, HoldingInv, ValueInv, Abstract!Accept
<1>11. CASE UNCHANGED vars
  BY <1>11
<1>12. ASSUME NEW c \in Calls, SendAnswer(c), UNCHANGED waitVars
       PROVE  call[c].sender \in Waiters /\ call[c].decision \in Decisions
  BY <1>12 DEF SendAnswer, HoldingInv
<1>. QED
  BY <1>1, <1>2, <1>3, <1>4, <1>5, <1>6, <1>7, <1>8, <1>9, <1>10, <1>11, <1>12
  DEF Next, Progress, Wait, Cleanup, Answer, Resolve, Finished, Abstract!Next

(* The register and the guard keep the promise of Confirmation.            *)
THEOREM Refinement == Spec => ImplementsConfirmation
<1>1. Spec => []IInv
  BY InitIInv, IInvStep, PTL DEF Spec
<1>. QED
  BY <1>1, RefinementInit, RefinementStep, PTL DEF Spec, ImplementsConfirmation, Abstract!Spec
=============================================================================
